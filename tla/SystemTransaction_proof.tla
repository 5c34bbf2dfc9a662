-------------------------- MODULE SystemTransaction_proof --------------------------
(***************************************************************************)
(* Proofs about SystemTransaction for any set of users.                    *)
(*                                                                         *)
(* With commands that overlap, fail and are killed: types, "sudo stays     *)
(* usable" and "a rollback restores the files".  The last two assume that  *)
(* no rollback is killed ("tear") or fails to copy a file back ("lose"),   *)
(* which the code does not survive.                                        *)
(* Neither is inductive.  SudoUsable rests on the order in which a root    *)
(* part handles its files, on nobody else changing them meanwhile (the     *)
(* lock), and on what a rollback has already put back; the conjuncts of    *)
(* TransactionInv say so.                                                  *)
(*                                                                         *)
(* With all of that: what an install has written is valid at its end       *)
(* (InstallSoFar), and another package's verifier or PAM service stays     *)
(* where it is (ForeignInv).                                               *)
(*                                                                         *)
(* Without failures: an installation older than the registry is kept       *)
(* (LegacyInv).                                                            *)
(*                                                                         *)
(* With failures and kills anywhere, for commands that do not overlap and  *)
(* rollbacks that copy every file back unless they are killed: who is      *)
(* registered is served, the last uninstall leaves the machine as it was   *)
(* found (MachineInv), others keep their components meanwhile, and the     *)
(* commands implement SharedInstallation (RegistryInv: what an install has *)
(* written and an uninstall has not, compared with the snapshot).          *)
(***************************************************************************)
EXTENDS SystemTransaction, TLAPS

(* Whoever is in a root part holds the lock.                               *)
LockHeld == \A u \in Users : pc[u] \in InRoot => lock = u /\ at[u] >= 1

(* An install that asks for root has decided what its receipt will say.    *)
ReceiptDecided ==
  \A u \in Users :
    plan[u].kind = "install" /\ pc[u] \notin {"idle", "reading"}
      => plan[u].integration # "none"

(* Usable, as long as no rollback is killed.                               *)
Safe(files) == "tear" \notin Faults => Usable(files)

SnapshotSafe == \A u \in Users : pc[u] \in InRoot => Safe(backup[u])

SudoSafe == ~RollingBack => Safe(disk)

(* An install puts each artifact before the hook.                          *)
HookIsLast ==
  \A u \in Users : pc[u] = "active" /\ plan[u].kind = "install" =>
    \A k \in 1..4 : k < at[u] => disk[InstallOrder[k]] # "absent"

(* The last uninstall takes the hook out before any artifact.              *)
HookIsFirst ==
  \A u \in Users :
    pc[u] = "active" /\ plan[u].kind = "remove" /\ plan[u].last /\ at[u] > 1
      => disk["sudo"] # "hook"

(* A path the rollback will still restore.                                 *)
Pending(u, p) ==
  \E i \in 1..Len(UndoOf(u)) :
    (pc[u] = "undoing" => at[u] <= i) /\ PathOf(u, UndoOf(u)[i]) = p

(* Every other path is as it was when the lock was taken.                  *)
OthersUntouched ==
  \A u \in Users : pc[u] \in InRoot =>
    \A p \in Paths \ {"lockPam"} : disk[p] = backup[u][p] \/ Pending(u, p)

(* The invariant but for LockHeld, which is shown with the types.          *)
TransactionInv ==
  /\ SnapshotSafe
  /\ HookIsLast
  /\ HookIsFirst
  /\ OthersUntouched
  /\ SudoSafe

-----------------------------------------------------------------------------
(* Paths and orders.                                                       *)

Names == SharedPaths \cup {"entry", "legacy"}

LEMMA InstallNames ==
  ASSUME NEW k \in 1..9
  PROVE  InstallOrder[k] \in Names
<1>1. k \in {1, 2, 3, 4, 5, 6, 7, 8, 9}
  BY SMT
<1>2. QED
  BY <1>1, SMT DEF InstallOrder, Names, SharedPaths, Artifacts, Receipts

LEMMA InstallLength == Len(InstallOrder) = 9
BY DEF InstallOrder

LEMMA RemovalNames ==
  ASSUME NEW last \in BOOLEAN, NEW k \in 1..Len(RemovalOrder(last))
  PROVE  RemovalOrder(last)[k] \in Names
<1>1. CASE last
  <2>1. k \in {1, 2, 3, 4, 5, 6, 7, 8, 9}
    BY <1>1, SMT DEF RemovalOrder
  <2>2. QED
    BY <1>1, <2>1, SMT DEF RemovalOrder, Names, SharedPaths, Artifacts, Receipts
<1>2. CASE ~last
  BY <1>2, SMT DEF RemovalOrder, Names
<1>3. QED
  BY <1>1, <1>2

LEMMA UndoNames ==
  ASSUME NEW kind, NEW last \in BOOLEAN, NEW k \in 1..Len(UndoOrder(kind, last))
  PROVE  UndoOrder(kind, last)[k] \in Names
<1>1. CASE kind = "install"
  <2>1. k \in {1, 2, 3, 4, 5, 6, 7, 8, 9}
    BY <1>1, SMT DEF UndoOrder
  <2>2. QED
    BY <1>1, <2>1, SMT DEF UndoOrder, Names, SharedPaths, Artifacts, Receipts
<1>2. CASE kind = "remove" /\ last
  <2>1. k \in {1, 2, 3, 4, 5, 6, 7, 8, 9}
    BY <1>2, SMT DEF UndoOrder
  <2>2. QED
    BY <1>2, <2>1, SMT DEF UndoOrder, Names, SharedPaths, Artifacts, Receipts
<1>3. CASE kind # "install" /\ ~(kind = "remove" /\ last)
  BY <1>3, SMT DEF UndoOrder, Names
<1>4. QED
  BY <1>1, <1>2, <1>3

(* A user's registry entry is none of the shared files.                    *)
LEMMA PathTyped ==
  ASSUME NEW u \in Users, NEW name \in Names
  PROVE  /\ PathOf(u, name) \in Paths
         /\ name # "entry" => PathOf(u, name) = name
         /\ name = "entry" => PathOf(u, name) = u /\ u \notin SharedPaths
BY SystemTransactionAssumption
   DEF PathOf, Names, Paths, SharedPaths, Entries, Artifacts, Receipts

LEMMA WriteTyped ==
  ASSUME disk \in Disks, NEW path \in Paths,
         NEW c \in SudoContents \cup FileContents,
         path = "sudo" => c \in SudoContents,
         path = "receipt" => c \in ReceiptContents,
         Write(path, c)
  PROVE  disk' \in Disks
BY SMT DEF Disks, Write, Paths, SharedPaths, Receipts

-----------------------------------------------------------------------------
(* Types.                                                                  *)

TypeInv == TypeOK /\ LockHeld /\ ReceiptDecided

LEMMA InitTypes == Init => TypeInv
<1> SUFFICES ASSUME Init PROVE TypeInv
  OBVIOUS
<1>1. disk \in Disks
  BY SMT DEF Init, Disks, Paths, SharedPaths, Artifacts, Receipts, Entries,
     SudoContents, FileContents, ReceiptContents
<1>2. NoSnapshot \in Disks
  BY SMT DEF NoSnapshot, Disks, Paths, SharedPaths, Artifacts, Receipts, Entries,
     SudoContents, FileContents, ReceiptContents
<1>3. NoPlan \in Plans
  BY SMT DEF NoPlan, Plans
<1>4. TypeOK
  <2>1. registryDir \in BOOLEAN /\ gaze \in BOOLEAN
    BY Zenon DEF Init
  <2>2. lock \in Users \cup {Nobody} /\ pc \in [Users -> Labels]
    BY Zenon DEF Init, Labels
  <2>3. plan \in [Users -> Plans] /\ backup \in [Users -> Disks]
    BY <1>2, <1>3, Zenon DEF Init
  <2>4. at \in [Users -> Nat]
    BY SMT DEF Init
  <2>5. copying \in [Users -> BOOLEAN]
    BY Zenon DEF Init
  <2>6. /\ legacyStart \in BOOLEAN /\ hadGaze \in BOOLEAN /\ original \in {"plain", "gaze"}
        /\ interrupted \in {"never", "since", "before"}
    BY Zenon DEF Init
  <2>7. QED
    BY <1>1, <2>1, <2>2, <2>3, <2>4, <2>5, <2>6, Zenon DEF TypeOK
<1>5. LockHeld
  BY DEF Init, LockHeld, InRoot
<1>6. ReceiptDecided
  BY DEF Init, ReceiptDecided
<1>7. QED
  BY <1>4, <1>5, <1>6 DEF TypeInv

(* The parts of TypeOK.                                                    *)
MachineTypes == disk \in Disks /\ registryDir \in BOOLEAN /\ gaze \in BOOLEAN
RootTypes ==
  /\ lock \in Users \cup {Nobody} /\ at \in [Users -> Nat]
  /\ copying \in [Users -> BOOLEAN] /\ backup \in [Users -> Disks]
CommandTypes == pc \in [Users -> Labels] /\ plan \in [Users -> Plans]
FoundTypes ==
  /\ legacyStart \in BOOLEAN /\ hadGaze \in BOOLEAN /\ original \in {"plain", "gaze"}
  /\ interrupted \in {"never", "since", "before"}

LEMMA TypeParts == TypeOK <=> MachineTypes /\ RootTypes /\ CommandTypes /\ FoundTypes
BY Zenon DEF TypeOK, MachineTypes, RootTypes, CommandTypes, FoundTypes

LEMMA TypePartsNext ==
  ASSUME MachineTypes', RootTypes', CommandTypes', FoundTypes'
  PROVE  TypeOK'
BY Zenon DEF TypeOK, MachineTypes, RootTypes, CommandTypes, FoundTypes

LEMMA MachineSame ==
  ASSUME MachineTypes, UNCHANGED machineVars
  PROVE  MachineTypes'
BY Zenon DEF MachineTypes, machineVars

LEMMA RootSame ==
  ASSUME RootTypes, UNCHANGED <<lock, rootVars>>
  PROVE  RootTypes'
BY Zenon DEF RootTypes, rootVars

LEMMA CommandSame ==
  ASSUME CommandTypes, UNCHANGED <<pc, plan>>
  PROVE  CommandTypes'
BY Zenon DEF CommandTypes

LEMMA FoundSame ==
  ASSUME FoundTypes, UNCHANGED foundVars, interrupted' \in {interrupted, "since", "before"}
  PROVE  FoundTypes'
<1>1. interrupted' \in {"never", "since", "before"}
  BY SMT DEF FoundTypes
<1>2. QED
  BY <1>1, Zenon DEF FoundTypes, foundVars

(* What the removal of the Gaze package does, and what a failure leaves.   *)
LEMMA GazeTypes ==
  ASSUME MachineTypes, FoundTypes, UNCHANGED <<disk, registryDir, interrupted>>,
         GazeRemoved \/ GazeLeft \/ UNCHANGED <<gaze, foundVars>>
  PROVE  MachineTypes' /\ FoundTypes'
<1>1. gaze' \in BOOLEAN /\ legacyStart' = legacyStart
  BY Zenon DEF MachineTypes, GazeRemoved, GazeLeft, foundVars
<1>2. hadGaze' \in BOOLEAN /\ original' \in {"plain", "gaze"}
  <2>1. CASE GazeLeft
    BY <2>1, Zenon DEF GazeLeft
  <2>2. CASE UNCHANGED foundVars
    BY <2>2, Zenon DEF FoundTypes, foundVars
  <2> QED
    BY <2>1, <2>2, Zenon DEF GazeRemoved
<1> QED
  BY <1>1, <1>2, Zenon DEF MachineTypes, FoundTypes

LEMMA EmptySnapshot == NoSnapshot \in Disks
BY SMT DEF NoSnapshot, Disks, Paths, SharedPaths, Artifacts, Receipts, Entries,
   SudoContents, FileContents, ReceiptContents

LEMMA RootEndsTypes ==
  ASSUME RootTypes, NEW u \in Users, RootEnds(u)
  PROVE  RootTypes'
<1>1. lock' \in Users \cup {Nobody}
  BY Zenon DEF RootEnds, RootTypes
<1>2. at' \in [Users -> Nat]
  BY SMT DEF RootEnds, RootTypes
<1>3. copying' \in [Users -> BOOLEAN]
  BY Zenon DEF RootEnds, RootTypes
<1>4. backup' \in [Users -> Disks]
  BY EmptySnapshot, Zenon DEF RootEnds, RootTypes
<1>5. QED
  BY <1>1, <1>2, <1>3, <1>4, Zenon DEF RootTypes

LEMMA GoToTypes ==
  ASSUME CommandTypes, NEW u \in Users, NEW label \in Labels, GoTo(u, label), UNCHANGED plan
  PROVE  CommandTypes'
BY Zenon DEF CommandTypes, GoTo

LEMMA CommandEndsTypes ==
  ASSUME CommandTypes, NEW u \in Users, CommandEnds(u)
  PROVE  CommandTypes'
<1>1. NoPlan \in Plans
  BY SMT DEF NoPlan, Plans
<1>2. QED
  BY <1>1, Zenon DEF CommandTypes, CommandEnds, GoTo, Labels

LEMMA PlanTyped ==
  ASSUME NEW i \in {"none", "added", "replaced"},
         NEW a \in BOOLEAN, NEW b \in BOOLEAN, NEW k \in {"none", "install", "remove"}
  PROVE  [kind |-> k, integration |-> i, ownsGaze |-> a, last |-> b, legacy |-> FALSE] \in Plans
BY Zenon DEF Plans

LEMMA BeginInstallTypes ==
  ASSUME TypeOK, NEW u \in Users, BeginInstall(u)
  PROVE  MachineTypes' /\ CommandTypes'
<1> USE DEF BeginInstall
<1>1. MachineTypes /\ CommandTypes
  BY TypeParts
<1>2. disk' \in Disks
  <2>1. CASE UNCHANGED disk
    BY <1>1, <2>1 DEF MachineTypes
  <2>2. CASE Write("sudo", "gaze")
    <3>1. "sudo" \in Paths
      BY Zenon DEF Paths, SharedPaths
    <3>2. "gaze" \in SudoContents
      BY Zenon DEF SudoContents
    <3>3. QED
      BY <1>1, <2>2, <3>1, <3>2, WriteTyped, SMT DEF MachineTypes
  <2>3. QED
    BY <2>1, <2>2, Zenon
<1>3. MachineTypes'
  BY <1>1, <1>2, Zenon DEF MachineTypes
<1>4. (~gaze) \in BOOLEAN
  BY Zenon
<1>5. CommandTypes'
  BY <1>1, <1>4, PlanTyped, Zenon DEF CommandTypes, GoTo, Labels
<1>6. QED
  BY <1>3, <1>5

LEMMA ReadReceiptsTypes ==
  ASSUME TypeOK, NEW u \in Users, ReadReceipts(u)
  PROVE  CommandTypes'
<1> DEFINE word == IF disk["receipt"] # "absent" THEN disk["receipt"]
                   ELSE IF disk["sudo"] = "gaze" /\ ~(plan[u].ownsGaze \/ disk["gazeReceipt"] = "managed")
                        THEN "replaced" ELSE "added"
<1>1. CommandTypes /\ MachineTypes
  BY TypeParts
<1>2. word \in {"added", "replaced"}
  BY <1>1, Zenon DEF MachineTypes, Disks, ReceiptContents
<1>3. plan' = [plan EXCEPT ![u].integration = word]
  BY Zenon DEF ReadReceipts
<1>4. plan' \in [Users -> Plans]
  <2> HIDE DEF word
  <2>1. [plan[u] EXCEPT !.integration = word] \in Plans
    BY <1>1, <1>2, SMT DEF CommandTypes, Plans
  <2>2. QED
    BY <1>1, <1>3, <2>1, Zenon DEF CommandTypes
<1>5. pc' \in [Users -> Labels]
  BY <1>1, Zenon DEF CommandTypes, ReadReceipts, GoTo, Labels
<1>6. QED
  BY <1>4, <1>5 DEF CommandTypes

LEMMA BeginRemoveTypes ==
  ASSUME TypeOK, NEW u \in Users, BeginRemove(u)
  PROVE  CommandTypes'
<1> DEFINE word == IF disk["receipt"] = "absent" THEN "none" ELSE disk["receipt"]
<1>1. CommandTypes /\ MachineTypes
  BY TypeParts
<1>2. word \in {"none", "added", "replaced"}
  BY <1>1, Zenon DEF MachineTypes, Disks, ReceiptContents
<1>3. (disk["gazeReceipt"] = "managed") \in BOOLEAN /\ (~OthersRemain(u)) \in BOOLEAN
  BY Zenon
<1>4. plan' = [plan EXCEPT ![u] =
                [kind |-> "remove", integration |-> word,
                 ownsGaze |-> disk["gazeReceipt"] = "managed",
                 last |-> ~OthersRemain(u), legacy |-> FALSE]]
  BY Zenon DEF BeginRemove
<1>5. plan' \in [Users -> Plans]
  <2> HIDE DEF word
  <2>1. QED
    BY <1>1, <1>2, <1>3, <1>4, PlanTyped, Zenon DEF CommandTypes
<1>6. pc' \in [Users -> Labels]
  BY <1>1, Zenon DEF CommandTypes, BeginRemove, GoTo, Labels
<1>7. QED
  BY <1>5, <1>6 DEF CommandTypes

LEMMA LockTypes ==
  ASSUME TypeOK, NEW u \in Users, Lock(u)
  PROVE  RootTypes' /\ CommandTypes'
<1> DEFINE mark == /\ plan[u].kind = "install" /\ ~registryDir
                   /\ disk["receipt"] # "absent" \/ disk["sudo"] = "hook"
<1>1. CommandTypes /\ MachineTypes /\ RootTypes
  BY TypeParts
<1>2. mark \in BOOLEAN
  BY Zenon
<1>3. CASE lock' = u
  <2>1. at' = [at EXCEPT ![u] = 1] /\ backup' = [backup EXCEPT ![u] = disk]
    BY <1>3, SystemTransactionAssumption, Zenon DEF Lock
  <2>2. plan' = [plan EXCEPT ![u].legacy = mark]
    BY <1>3, SystemTransactionAssumption, Zenon DEF Lock
  <2>3. pc' = [pc EXCEPT ![u] = "active"] \/ pc' = [pc EXCEPT ![u] = "undoing"]
    BY <1>3, SystemTransactionAssumption, Zenon DEF Lock, GoTo
  <2>4. at' \in [Users -> Nat]
    BY <1>1, <2>1, SMT DEF RootTypes
  <2>5. RootTypes'
    BY <1>1, <1>3, <2>1, <2>4, Zenon DEF RootTypes, MachineTypes, Lock
  <2>6. [plan[u] EXCEPT !.legacy = mark] \in Plans
    <3> HIDE DEF mark
    <3>1. plan[u] \in Plans
      BY <1>1, Zenon DEF CommandTypes
    <3>2. QED
      BY <3>1, <1>2, Zenon DEF Plans
  <2>7. plan' \in [Users -> Plans]
    <3> HIDE DEF mark
    <3>1. QED
      BY <1>1, <2>2, <2>6, Zenon DEF CommandTypes
  <2>8. QED
    BY <1>1, <2>3, <2>5, <2>7, Zenon DEF CommandTypes, Labels
<1>4. CASE lock' # u
  <2>1. GoTo(u, "failed") /\ UNCHANGED <<lock, plan, backup, at, copying>>
    BY <1>4, Zenon DEF Lock
  <2>2. QED
    BY <1>1, <2>1, Zenon DEF RootTypes, CommandTypes, GoTo, Labels
<1>5. QED
  BY <1>3, <1>4

LEMMA InstallNextTypes ==
  ASSUME TypeInv, NEW u \in Users, InstallNext(u)
  PROVE  MachineTypes' /\ RootTypes'
<1>1. MachineTypes /\ RootTypes /\ CommandTypes
  BY TypeParts DEF TypeInv
<1> DEFINE name == InstallOrder[at[u]]
<1>2. at[u] \in 1..9
  <2>1. at[u] \in Nat /\ at[u] <= 9
    BY <1>1, InstallLength, Zenon DEF RootTypes, InstallNext
  <2>2. at[u] >= 1
    BY Zenon DEF TypeInv, LockHeld, InstallNext, InRoot
  <2>3. QED
    BY <2>1, <2>2, SMT
<1>3. name \in Names
  BY <1>2, InstallNames
<1>4. disk' \in Disks
  <2> HIDE DEF name
  <2>1. CASE Write(PathOf(u, name), InstalledContent(u, name))
    <3>1. plan[u].integration \in {"added", "replaced"}
      <4>1. plan[u].integration # "none"
        BY Zenon DEF TypeInv, ReceiptDecided, InstallNext
      <4>2. plan[u].integration \in {"none", "added", "replaced"}
        BY <1>1, SMT DEF CommandTypes, Plans
      <4>3. QED
        BY <4>1, <4>2, Zenon
    <3>2. InstalledContent(u, name) \in SudoContents \cup FileContents
      BY <3>1, SMT DEF InstalledContent, SudoContents, FileContents
    <3>3. name = "sudo" => InstalledContent(u, name) \in SudoContents
      BY SMT DEF InstalledContent, SudoContents
    <3>4. name = "receipt" => InstalledContent(u, name) \in ReceiptContents
      BY <3>1, SMT DEF InstalledContent, ReceiptContents
    <3>5. /\ PathOf(u, name) = "sudo" => name = "sudo"
          /\ PathOf(u, name) = "receipt" => name = "receipt"
      BY <1>3, PathTyped, Zenon DEF SharedPaths, Receipts
    <3>6. PathOf(u, name) \in Paths
      BY <1>3, PathTyped, Zenon
    <3> HIDE DEF name
    <3>7. QED
      BY <1>1, <2>1, <3>2, <3>3, <3>4, <3>5, <3>6, WriteTyped, Zenon DEF MachineTypes
  <2>2. CASE UNCHANGED disk
    BY <1>1, <2>2 DEF MachineTypes
  <2>3. QED
    BY <2>1, <2>2, Zenon DEF InstallNext, name
<1>5. MachineTypes'
  <2>1. (registryDir \/ name = "entry") \in BOOLEAN
    BY Zenon
  <2>2. QED
    BY <1>1, <1>4, <2>1, Zenon DEF MachineTypes, InstallNext
<1>6. RootTypes'
  <2>1. at' \in [Users -> Nat]
    BY <1>1, SMT DEF InstallNext, RootTypes
  <2>2. QED
    BY <1>1, <2>1, Zenon DEF InstallNext, RootTypes
<1>7. QED
  BY <1>5, <1>6

LEMMA RemoveNextTypes ==
  ASSUME TypeInv, NEW u \in Users, RemoveNext(u)
  PROVE  MachineTypes' /\ RootTypes'
<1>1. MachineTypes /\ RootTypes /\ CommandTypes
  BY TypeParts DEF TypeInv
<1> DEFINE name == RemovalOrder(plan[u].last)[at[u]]
<1>2. plan[u].last \in BOOLEAN
  BY <1>1, SMT DEF CommandTypes, Plans
<1>3. at[u] \in 1..Len(RemovalOrder(plan[u].last))
  <2>1. at[u] \in Nat /\ at[u] <= Len(RemovalOrder(plan[u].last))
    BY <1>1, Zenon DEF RootTypes, RemoveNext
  <2>2. at[u] >= 1
    BY Zenon DEF TypeInv, LockHeld, RemoveNext, InRoot
  <2>3. Len(RemovalOrder(plan[u].last)) \in Nat
    BY SMT DEF RemovalOrder
  <2>4. QED
    BY <2>1, <2>2, <2>3, SMT
<1>4. name \in Names
  BY <1>2, <1>3, RemovalNames
<1>5. disk' \in Disks
  <2> HIDE DEF name
  <2>1. CASE Write(PathOf(u, name), RemovedContent(u, name))
    <3>1. disk["sudo"] \in SudoContents
      BY <1>1 DEF MachineTypes, Disks
    <3>2. RemovedContent(u, name) \in SudoContents
      <4>1. SudoRestored(u) \in SudoContents
        BY <3>1, SMT DEF SudoRestored, SudoContents
      <4>2. "absent" \in SudoContents
        BY Zenon DEF SudoContents
      <4>3. QED
        BY <4>1, <4>2, Zenon DEF RemovedContent
    <3>3. name = "receipt" => RemovedContent(u, name) \in ReceiptContents
      BY SMT DEF RemovedContent, ReceiptContents
    <3>4. PathOf(u, name) = "receipt" => name = "receipt"
      BY <1>4, PathTyped, Zenon DEF SharedPaths, Receipts
    <3>5. PathOf(u, name) \in Paths
      BY <1>4, PathTyped, Zenon
    <3>6. RemovedContent(u, name) \in SudoContents \cup FileContents
      BY <3>2
    <3>7. QED
      BY <1>1, <2>1, <3>2, <3>3, <3>4, <3>5, <3>6, WriteTyped, Zenon DEF MachineTypes
  <2>2. CASE UNCHANGED disk
    BY <1>1, <2>2 DEF MachineTypes
  <2>3. QED
    BY <2>1, <2>2, Zenon DEF RemoveNext, name
<1>6. MachineTypes'
  BY <1>1, <1>5, Zenon DEF MachineTypes, RemoveNext
<1>7. RootTypes'
  <2>1. at' \in [Users -> Nat]
    BY <1>1, SMT DEF RemoveNext, RootTypes
  <2>2. QED
    BY <1>1, <2>1, Zenon DEF RemoveNext, RootTypes
<1>8. QED
  BY <1>6, <1>7

(* The path a rollback is at.                                              *)
LEMMA UndoPath ==
  ASSUME TypeInv, NEW u \in Users, pc[u] = "undoing", at[u] <= Len(UndoOf(u))
  PROVE  /\ at[u] \in 1..Len(UndoOf(u))
         /\ UndoOf(u)[at[u]] \in Names
         /\ PathOf(u, UndoOf(u)[at[u]]) \in Paths
<1>1. plan[u].last \in BOOLEAN /\ at[u] \in Nat
  BY SMT DEF TypeInv, TypeOK, Plans
<1>2. at[u] >= 1
  BY Zenon DEF TypeInv, LockHeld, InRoot
<1>3. Len(UndoOf(u)) \in Nat
  BY SMT DEF UndoOf, UndoOrder
<1>4. at[u] \in 1..Len(UndoOf(u))
  BY <1>1, <1>2, <1>3, SMT
<1>5. UndoOf(u)[at[u]] \in Names
  BY <1>1, <1>4, UndoNames, Zenon DEF UndoOf
<1>6. QED
  BY <1>4, <1>5, PathTyped, Zenon

LEMMA UndoRemoveTypes ==
  ASSUME TypeInv, NEW u \in Users, UndoRemove(u)
  PROVE  MachineTypes' /\ RootTypes'
<1> DEFINE path == PathOf(u, UndoOf(u)[at[u]])
<1>1. MachineTypes /\ RootTypes
  BY TypeParts DEF TypeInv
<1>2. path \in Paths
  BY UndoPath, Zenon DEF UndoRemove
<1>3. Write(path, "absent")
  BY Zenon DEF UndoRemove
<1>4. "absent" \in SudoContents /\ "absent" \in ReceiptContents
  BY Zenon DEF SudoContents, ReceiptContents
<1>5. disk' \in Disks
  <2> HIDE DEF path
  <2>1. QED
    BY <1>1, <1>2, <1>3, <1>4, WriteTyped, Zenon DEF MachineTypes
<1>6. MachineTypes'
  BY <1>1, <1>5, Zenon DEF MachineTypes, UndoRemove
<1>7. at' \in [Users -> Nat]
  <2>1. at' = [at EXCEPT ![u] = @ + 1] \/ at' = at
    BY Zenon DEF UndoRemove
  <2>2. QED
    BY <1>1, <2>1, SMT DEF RootTypes
<1>8. copying' \in [Users -> BOOLEAN]
  <2>1. copying' = [copying EXCEPT ![u] = TRUE] \/ copying' = copying
    BY Zenon DEF UndoRemove
  <2>2. QED
    BY <1>1, <2>1, Zenon DEF RootTypes
<1>9. QED
  BY <1>1, <1>6, <1>7, <1>8, Zenon DEF RootTypes, UndoRemove

LEMMA UndoCopyTypes ==
  ASSUME TypeInv, NEW u \in Users, UndoCopy(u)
  PROVE  MachineTypes' /\ RootTypes'
<1> DEFINE path == PathOf(u, UndoOf(u)[at[u]])
<1>1. MachineTypes /\ RootTypes
  BY TypeParts DEF TypeInv
<1>2. path \in Paths
  BY UndoPath, Zenon DEF UndoCopy
<1>3. PICK c \in {backup[u][path], "absent"} : Write(path, c)
  BY Zenon DEF UndoCopy
<1>4. backup[u] \in Disks
  BY <1>1, Zenon DEF RootTypes
<1>5. disk' \in Disks
  <2> HIDE DEF path
  <2>1. /\ c \in SudoContents \cup FileContents
        /\ path = "sudo" => c \in SudoContents
        /\ path = "receipt" => c \in ReceiptContents
    BY <1>2, <1>4, SMT DEF Disks, SudoContents, FileContents, ReceiptContents
  <2>2. QED
    BY <1>1, <1>2, <1>3, <2>1, WriteTyped, Zenon DEF MachineTypes
<1>6. MachineTypes'
  BY <1>1, <1>5, Zenon DEF MachineTypes, UndoCopy
<1>7. at' \in [Users -> Nat]
  BY <1>1, SMT DEF RootTypes, UndoCopy
<1>8. QED
  BY <1>1, <1>6, <1>7, Zenon DEF RootTypes, UndoCopy

(* The writers outside the commands.                                       *)
LEMMA OutsideWriteTypes ==
  ASSUME TypeInv, NEW path \in Paths \ {"sudo", "receipt"},
         NEW c \in FileContents, Write(path, c), UNCHANGED <<registryDir, gaze>>
  PROVE  MachineTypes'
<1>1. MachineTypes
  BY TypeParts DEF TypeInv
<1>2. QED
  BY <1>1, WriteTyped, Zenon DEF MachineTypes

(* A step of one user's command keeps LockHeld if the user is in no root   *)
(* part afterwards.                                                        *)
LEMMA LockKept ==
  ASSUME TypeInv, NEW u \in Users, pc'[u] \notin InRoot,
         \A v \in Users \ {u} : pc'[v] = pc[v] /\ at'[v] = at[v],
         lock' = lock \/ lock = u
  PROVE  LockHeld'
BY Zenon DEF TypeInv, LockHeld

(* The same if it is in one and was before.                                *)
LEMMA LockKeptInside ==
  ASSUME TypeInv, NEW u \in Users, pc[u] \in InRoot, at'[u] >= 1,
         \A v \in Users \ {u} : pc'[v] = pc[v] /\ at'[v] = at[v],
         lock' = lock
  PROVE  LockHeld'
BY Zenon DEF TypeInv, LockHeld

LEMMA ReceiptKept ==
  ASSUME TypeInv, NEW u \in Users,
         \A v \in Users \ {u} : pc'[v] = pc[v] /\ plan'[v] = plan[v],
         \/ pc'[u] \in {"idle", "reading"}
         \/ plan'[u].kind # "install"
         \/ plan'[u].integration # "none"
         \/ /\ plan'[u].kind = plan[u].kind /\ plan'[u].integration = plan[u].integration
            /\ pc[u] \notin {"idle", "reading"}
  PROVE  ReceiptDecided'
BY Zenon DEF TypeInv, ReceiptDecided

(* The frame of an action: what it leaves alone for the other users.       *)
LEMMA EndFrame ==
  ASSUME TypeOK, NEW u \in Users, CommandEnds(u)
  PROVE  /\ pc'[u] = "idle"
         /\ \A v \in Users \ {u} : pc'[v] = pc[v] /\ plan'[v] = plan[v]
BY Zenon DEF TypeOK, CommandEnds, GoTo

LEMMA GoToFrame ==
  ASSUME TypeOK, NEW u \in Users, NEW label, GoTo(u, label)
  PROVE  pc'[u] = label /\ \A v \in Users \ {u} : pc'[v] = pc[v]
BY Zenon DEF TypeOK, GoTo

LEMMA PlanFrame ==
  ASSUME TypeOK, NEW u \in Users, NEW x, plan' = [plan EXCEPT ![u] = x]
  PROVE  plan'[u] = x /\ \A v \in Users \ {u} : plan'[v] = plan[v]
BY Zenon DEF TypeOK

LEMMA RootEndsFrame ==
  ASSUME TypeOK, NEW u \in Users, RootEnds(u)
  PROVE  /\ lock' = lock \/ lock = u
         /\ \A v \in Users \ {u} : at'[v] = at[v] /\ backup'[v] = backup[v]
BY Zenon DEF TypeOK, RootEnds

LEMMA AtFrame ==
  ASSUME TypeInv, NEW u \in Users, NEW n \in Nat, at' = [at EXCEPT ![u] = n]
  PROVE  at'[u] = n /\ \A v \in Users \ {u} : at'[v] = at[v]
BY Zenon DEF TypeInv, TypeOK

LEMMA TypesNext ==
  ASSUME TypeInv, [Next]_vars
  PROVE  TypeOK'
<1>0. TypeInv /\ TypeOK /\ MachineTypes /\ RootTypes /\ CommandTypes /\ FoundTypes
  BY TypeParts DEF TypeInv
<1>1. ASSUME NEW u \in Users, BeginInstall(u) PROVE TypeOK'
  <2> USE <1>1
  <2>1. MachineTypes'
    BY <1>0, BeginInstallTypes, Zenon
  <2>2. RootTypes'
    BY <1>0, RootSame, Zenon DEF BeginInstall
  <2>3. CommandTypes'
    BY <1>0, BeginInstallTypes, Zenon
  <2>4. FoundTypes'
    BY <1>0, FoundSame, Zenon DEF BeginInstall, pastVars
  <2>5. QED
    BY <2>1, <2>2, <2>3, <2>4, TypePartsNext
<1>2. ASSUME NEW u \in Users, ReadReceipts(u) PROVE TypeOK'
  <2> USE <1>2
  <2>1. MachineTypes'
    BY <1>0, MachineSame, Zenon DEF ReadReceipts
  <2>2. RootTypes'
    BY <1>0, RootSame, Zenon DEF ReadReceipts
  <2>3. CommandTypes'
    BY <1>0, ReadReceiptsTypes, Zenon
  <2>4. FoundTypes'
    BY <1>0, FoundSame, Zenon DEF ReadReceipts, pastVars
  <2>5. QED
    BY <2>1, <2>2, <2>3, <2>4, TypePartsNext
<1>3. ASSUME NEW u \in Users, BeginRemove(u) PROVE TypeOK'
  <2> USE <1>3
  <2>1. MachineTypes'
    BY <1>0, MachineSame, Zenon DEF BeginRemove
  <2>2. RootTypes'
    BY <1>0, RootSame, Zenon DEF BeginRemove
  <2>3. CommandTypes'
    BY <1>0, BeginRemoveTypes, Zenon
  <2>4. FoundTypes'
    BY <1>0, FoundSame, Zenon DEF BeginRemove, pastVars
  <2>5. QED
    BY <2>1, <2>2, <2>3, <2>4, TypePartsNext
<1>4. ASSUME NEW u \in Users, EnterRoot(u) PROVE TypeOK'
  <2> USE <1>4
  <2>1. MachineTypes'
    BY <1>0, MachineSame, Zenon DEF EnterRoot
  <2>2. RootTypes'
    BY <1>0, RootSame, Zenon DEF EnterRoot
  <2>3. CommandTypes'
    BY <1>0, GoToTypes, Zenon DEF EnterRoot, Labels
  <2>4. FoundTypes'
    BY <1>0, FoundSame, Zenon DEF EnterRoot, pastVars
  <2>5. QED
    BY <2>1, <2>2, <2>3, <2>4, TypePartsNext
<1>5. ASSUME NEW u \in Users, FinishFailed(u) PROVE TypeOK'
  <2> USE <1>5
  <2>1. MachineTypes' /\ FoundTypes'
    BY <1>0, GazeTypes, Zenon DEF FinishFailed
  <2>2. RootTypes'
    BY <1>0, RootSame, Zenon DEF FinishFailed
  <2>3. CommandTypes'
    BY <1>0, CommandEndsTypes, Zenon DEF FinishFailed
  <2>4. QED
    BY <2>1, <2>2, <2>3, TypePartsNext
<1>6. ASSUME NEW u \in Users, RemovePackages(u) PROVE TypeOK'
  <2> USE <1>6
  <2>1. MachineTypes' /\ FoundTypes'
    BY <1>0, GazeTypes, Zenon DEF RemovePackages
  <2>2. RootTypes'
    BY <1>0, RootSame, Zenon DEF RemovePackages
  <2>3. CommandTypes'
    BY <1>0, GoToTypes, CommandEndsTypes, Zenon DEF RemovePackages, Labels
  <2>4. QED
    BY <2>1, <2>2, <2>3, TypePartsNext
<1>7. ASSUME NEW u \in Users, RemoveDirectories(u) PROVE TypeOK'
  <2> USE <1>7
  <2>1. MachineTypes'
    <3>1. registryDir' \in BOOLEAN
      BY Zenon DEF RemoveDirectories
    <3>2. QED
      BY <1>0, <3>1, Zenon DEF RemoveDirectories, MachineTypes
  <2>2. RootTypes'
    BY <1>0, RootSame, Zenon DEF RemoveDirectories
  <2>3. CommandTypes'
    BY <1>0, CommandEndsTypes, Zenon DEF RemoveDirectories
  <2>4. FoundTypes'
    BY <1>0, FoundSame, Zenon DEF RemoveDirectories, pastVars
  <2>5. QED
    BY <2>1, <2>2, <2>3, <2>4, TypePartsNext
<1>8. ASSUME NEW u \in Users, Lock(u) PROVE TypeOK'
  <2> USE <1>8
  <2>1. MachineTypes'
    BY <1>0, MachineSame, Zenon DEF Lock
  <2>2. RootTypes'
    BY <1>0, LockTypes, Zenon
  <2>3. CommandTypes'
    BY <1>0, LockTypes, Zenon
  <2>4. FoundTypes'
    BY <1>0, FoundSame, Zenon DEF Lock, pastVars
  <2>5. QED
    BY <2>1, <2>2, <2>3, <2>4, TypePartsNext
<1>9. ASSUME NEW u \in Users, InstallNext(u) PROVE TypeOK'
  <2> USE <1>9
  <2>1. MachineTypes'
    BY <1>0, InstallNextTypes, Zenon
  <2>2. RootTypes'
    BY <1>0, InstallNextTypes, Zenon
  <2>3. CommandTypes'
    BY <1>0, CommandSame, Zenon DEF InstallNext
  <2>4. FoundTypes'
    BY <1>0, FoundSame, Zenon DEF InstallNext, pastVars
  <2>5. QED
    BY <2>1, <2>2, <2>3, <2>4, TypePartsNext
<1>10. ASSUME NEW u \in Users, RemoveNext(u) PROVE TypeOK'
  <2> USE <1>10
  <2>1. MachineTypes'
    BY <1>0, RemoveNextTypes, Zenon
  <2>2. RootTypes'
    BY <1>0, RemoveNextTypes, Zenon
  <2>3. CommandTypes'
    BY <1>0, CommandSame, Zenon DEF RemoveNext
  <2>4. FoundTypes'
    BY <1>0, FoundSame, Zenon DEF RemoveNext, pastVars
  <2>5. QED
    BY <2>1, <2>2, <2>3, <2>4, TypePartsNext
<1>11. ASSUME NEW u \in Users, Commit(u) PROVE TypeOK'
  <2> USE <1>11
  <2>1. MachineTypes'
    BY <1>0, MachineSame, Zenon DEF Commit
  <2>2. RootTypes'
    BY <1>0, RootEndsTypes, Zenon DEF Commit
  <2>3. CommandTypes'
    BY <1>0, GoToTypes, CommandEndsTypes, Zenon DEF Commit, Labels
  <2>4. FoundTypes'
    BY <1>0, FoundSame, Zenon DEF Commit
  <2>5. QED
    BY <2>1, <2>2, <2>3, <2>4, TypePartsNext
<1>12. ASSUME NEW u \in Users, Fail(u) PROVE TypeOK'
  <2> USE <1>12
  <2>1. MachineTypes'
    BY <1>0, MachineSame, Zenon DEF Fail
  <2>2. RootTypes'
    <3>1. at' \in [Users -> Nat]
      BY <1>0, SMT DEF Fail, RootTypes
    <3>2. QED
      BY <1>0, <3>1, Zenon DEF Fail, RootTypes
  <2>3. CommandTypes'
    BY <1>0, GoToTypes, Zenon DEF Fail, Labels
  <2>4. FoundTypes'
    BY <1>0, FoundSame, Zenon DEF Fail, pastVars
  <2>5. QED
    BY <2>1, <2>2, <2>3, <2>4, TypePartsNext
<1>13. ASSUME NEW u \in Users, UndoRemove(u) PROVE TypeOK'
  <2> USE <1>13
  <2>1. MachineTypes'
    BY <1>0, UndoRemoveTypes, Zenon
  <2>2. RootTypes'
    BY <1>0, UndoRemoveTypes, Zenon
  <2>3. CommandTypes'
    BY <1>0, CommandSame, Zenon DEF UndoRemove
  <2>4. FoundTypes'
    BY <1>0, FoundSame, Zenon DEF UndoRemove, pastVars
  <2>5. QED
    BY <2>1, <2>2, <2>3, <2>4, TypePartsNext
<1>14. ASSUME NEW u \in Users, UndoCopy(u) PROVE TypeOK'
  <2> USE <1>14
  <2>1. MachineTypes'
    BY <1>0, UndoCopyTypes, Zenon
  <2>2. RootTypes'
    BY <1>0, UndoCopyTypes, Zenon
  <2>3. CommandTypes'
    BY <1>0, CommandSame, Zenon DEF UndoCopy
  <2>4. FoundTypes'
    BY <1>0, FoundSame, Zenon DEF UndoCopy, pastVars
  <2>5. QED
    BY <2>1, <2>2, <2>3, <2>4, TypePartsNext
<1>15. ASSUME NEW u \in Users, LeaveUndo(u) PROVE TypeOK'
  <2> USE <1>15
  <2>1. MachineTypes'
    BY <1>0, MachineSame, Zenon DEF LeaveUndo
  <2>2. RootTypes'
    BY <1>0, RootEndsTypes, Zenon DEF LeaveUndo
  <2>3. CommandTypes'
    BY <1>0, GoToTypes, Zenon DEF LeaveUndo, Labels
  <2>4. FoundTypes'
    BY <1>0, FoundSame, Zenon DEF LeaveUndo, pastVars
  <2>5. QED
    BY <2>1, <2>2, <2>3, <2>4, TypePartsNext
<1>16. ASSUME NEW u \in Users, Crash(u) PROVE TypeOK'
  <2> USE <1>16
  <2>1. MachineTypes'
    BY <1>0, MachineSame, Zenon DEF Crash
  <2>2. RootTypes'
    BY <1>0, RootEndsTypes, Zenon DEF Crash
  <2>3. CommandTypes'
    BY <1>0, CommandEndsTypes, Zenon DEF Crash
  <2>4. FoundTypes'
    BY <1>0, FoundSame, Zenon DEF Crash
  <2>5. QED
    BY <2>1, <2>2, <2>3, <2>4, TypePartsNext
<1>17. ASSUME NEW u \in Users, LockPamInstalled(u) PROVE TypeOK'
  <2> USE <1>17
  <2>1. "lockPam" \in Paths \ {"sudo", "receipt"} /\ "managed" \in FileContents
    BY SMT DEF Paths, SharedPaths, Artifacts, FileContents
  <2>2. MachineTypes'
    BY <1>0, <2>1, OutsideWriteTypes, Zenon DEF LockPamInstalled
  <2>3. RootTypes' /\ CommandTypes' /\ FoundTypes'
    BY <1>0, RootSame, CommandSame, FoundSame, Zenon DEF LockPamInstalled, pastVars
  <2>4. QED
    BY <2>2, <2>3, TypePartsNext
<1>18. ASSUME LockPamRemoved PROVE TypeOK'
  <2> USE <1>18
  <2>1. "lockPam" \in Paths \ {"sudo", "receipt"} /\ "absent" \in FileContents
    BY SMT DEF Paths, SharedPaths, Artifacts, FileContents
  <2>2. MachineTypes'
    BY <1>0, <2>1, OutsideWriteTypes, Zenon DEF LockPamRemoved
  <2>3. RootTypes' /\ CommandTypes' /\ FoundTypes'
    BY <1>0, RootSame, CommandSame, FoundSame, Zenon DEF LockPamRemoved, pastVars
  <2>4. QED
    BY <2>2, <2>3, TypePartsNext
<1>19. ASSUME NEW path \in Replaceable, Replaced(path) PROVE TypeOK'
  <2> USE <1>19
  <2>1. path \in Paths \ {"sudo", "receipt"} /\ "foreign" \in FileContents
    BY SystemTransactionAssumption, SMT DEF Paths, SharedPaths, Artifacts, FileContents
  <2>2. MachineTypes'
    BY <1>0, <2>1, OutsideWriteTypes, Zenon DEF Replaced
  <2>3. RootTypes' /\ CommandTypes' /\ FoundTypes'
    BY <1>0, RootSame, CommandSame, FoundSame, Zenon DEF Replaced, pastVars
  <2>4. QED
    BY <2>2, <2>3, TypePartsNext
<1>20. ASSUME UNCHANGED vars PROVE TypeOK'
  BY <1>20, <1>0, MachineSame, RootSame, CommandSame, FoundSame, TypePartsNext, Zenon DEF vars, pastVars
<1>21. QED
  BY <1>1, <1>2, <1>3, <1>4, <1>5, <1>6, <1>7, <1>8, <1>9, <1>10, <1>11, <1>12, <1>13, <1>14, <1>15, <1>16, <1>17, <1>18, <1>19, <1>20, Zenon DEF Next

LEMMA LockNext ==
  ASSUME TypeInv, [Next]_vars
  PROVE  LockHeld'
<1>0. TypeInv /\ TypeOK /\ at \in [Users -> Nat]
  BY DEF TypeInv, TypeOK
<1>1. ASSUME NEW u \in Users, BeginInstall(u) PROVE LockHeld'
  <2> USE <1>1
  <2>1. pc'[u] \notin InRoot /\ \A v \in Users \ {u} : pc'[v] = pc[v]
    <3>1. pc'[u] \in {"reading"} /\ \A v \in Users \ {u} : pc'[v] = pc[v]
      BY <1>0, GoToFrame, Zenon DEF BeginInstall
    <3>2. QED
      BY <3>1, SMT DEF InRoot
  <2>2. (lock' = lock \/ lock = u) /\ \A v \in Users \ {u} : at'[v] = at[v]
    BY Zenon DEF BeginInstall, rootVars
  <2>3. QED
    BY <1>0, <2>1, <2>2, LockKept, Zenon
<1>2. ASSUME NEW u \in Users, ReadReceipts(u) PROVE LockHeld'
  <2> USE <1>2
  <2>1. pc'[u] \notin InRoot /\ \A v \in Users \ {u} : pc'[v] = pc[v]
    <3>1. pc'[u] \in {"asking"} /\ \A v \in Users \ {u} : pc'[v] = pc[v]
      BY <1>0, GoToFrame, Zenon DEF ReadReceipts
    <3>2. QED
      BY <3>1, SMT DEF InRoot
  <2>2. (lock' = lock \/ lock = u) /\ \A v \in Users \ {u} : at'[v] = at[v]
    BY Zenon DEF ReadReceipts, rootVars
  <2>3. QED
    BY <1>0, <2>1, <2>2, LockKept, Zenon
<1>3. ASSUME NEW u \in Users, BeginRemove(u) PROVE LockHeld'
  <2> USE <1>3
  <2>1. pc'[u] \notin InRoot /\ \A v \in Users \ {u} : pc'[v] = pc[v]
    <3>1. pc'[u] \in {"asking"} /\ \A v \in Users \ {u} : pc'[v] = pc[v]
      BY <1>0, GoToFrame, Zenon DEF BeginRemove
    <3>2. QED
      BY <3>1, SMT DEF InRoot
  <2>2. (lock' = lock \/ lock = u) /\ \A v \in Users \ {u} : at'[v] = at[v]
    BY Zenon DEF BeginRemove, rootVars
  <2>3. QED
    BY <1>0, <2>1, <2>2, LockKept, Zenon
<1>4. ASSUME NEW u \in Users, EnterRoot(u) PROVE LockHeld'
  <2> USE <1>4
  <2>1. pc'[u] \notin InRoot /\ \A v \in Users \ {u} : pc'[v] = pc[v]
    <3>1. pc'[u] \in {"blocked", "failed"} /\ \A v \in Users \ {u} : pc'[v] = pc[v]
      BY <1>0, GoToFrame, Zenon DEF EnterRoot
    <3>2. QED
      BY <3>1, SMT DEF InRoot
  <2>2. (lock' = lock \/ lock = u) /\ \A v \in Users \ {u} : at'[v] = at[v]
    BY Zenon DEF EnterRoot, rootVars
  <2>3. QED
    BY <1>0, <2>1, <2>2, LockKept, Zenon
<1>5. ASSUME NEW u \in Users, FinishFailed(u) PROVE LockHeld'
  <2> USE <1>5
  <2>1. pc'[u] \notin InRoot /\ \A v \in Users \ {u} : pc'[v] = pc[v]
    <3>1. pc'[u] \in {"idle"} /\ \A v \in Users \ {u} : pc'[v] = pc[v]
      BY <1>0, EndFrame, Zenon DEF FinishFailed
    <3>2. QED
      BY <3>1, SMT DEF InRoot
  <2>2. (lock' = lock \/ lock = u) /\ \A v \in Users \ {u} : at'[v] = at[v]
    BY Zenon DEF FinishFailed, rootVars
  <2>3. QED
    BY <1>0, <2>1, <2>2, LockKept, Zenon
<1>6. ASSUME NEW u \in Users, RemovePackages(u) PROVE LockHeld'
  <2> USE <1>6
  <2>1. pc'[u] \notin InRoot /\ \A v \in Users \ {u} : pc'[v] = pc[v]
    <3>1. pc'[u] \in {"tidy", "idle"} /\ \A v \in Users \ {u} : pc'[v] = pc[v]
      BY <1>0, GoToFrame, EndFrame, Zenon DEF RemovePackages
    <3>2. QED
      BY <3>1, SMT DEF InRoot
  <2>2. (lock' = lock \/ lock = u) /\ \A v \in Users \ {u} : at'[v] = at[v]
    BY Zenon DEF RemovePackages, rootVars
  <2>3. QED
    BY <1>0, <2>1, <2>2, LockKept, Zenon
<1>7. ASSUME NEW u \in Users, RemoveDirectories(u) PROVE LockHeld'
  <2> USE <1>7
  <2>1. pc'[u] \notin InRoot /\ \A v \in Users \ {u} : pc'[v] = pc[v]
    <3>1. pc'[u] \in {"idle"} /\ \A v \in Users \ {u} : pc'[v] = pc[v]
      BY <1>0, EndFrame, Zenon DEF RemoveDirectories
    <3>2. QED
      BY <3>1, SMT DEF InRoot
  <2>2. (lock' = lock \/ lock = u) /\ \A v \in Users \ {u} : at'[v] = at[v]
    BY Zenon DEF RemoveDirectories, rootVars
  <2>3. QED
    BY <1>0, <2>1, <2>2, LockKept, Zenon
<1>8. ASSUME NEW u \in Users, Commit(u) PROVE LockHeld'
  <2> USE <1>8
  <2>1. pc'[u] \notin InRoot /\ \A v \in Users \ {u} : pc'[v] = pc[v]
    <3>1. pc'[u] \in {"idle", "packages"} /\ \A v \in Users \ {u} : pc'[v] = pc[v]
      BY <1>0, EndFrame, GoToFrame, RootEndsFrame, Zenon DEF Commit
    <3>2. QED
      BY <3>1, SMT DEF InRoot
  <2>2. (lock' = lock \/ lock = u) /\ \A v \in Users \ {u} : at'[v] = at[v]
    BY <1>0, RootEndsFrame, Zenon DEF Commit
  <2>3. QED
    BY <1>0, <2>1, <2>2, LockKept, Zenon
<1>9. ASSUME NEW u \in Users, LeaveUndo(u) PROVE LockHeld'
  <2> USE <1>9
  <2>1. pc'[u] \notin InRoot /\ \A v \in Users \ {u} : pc'[v] = pc[v]
    <3>1. pc'[u] \in {"failed"} /\ \A v \in Users \ {u} : pc'[v] = pc[v]
      BY <1>0, GoToFrame, RootEndsFrame, Zenon DEF LeaveUndo
    <3>2. QED
      BY <3>1, SMT DEF InRoot
  <2>2. (lock' = lock \/ lock = u) /\ \A v \in Users \ {u} : at'[v] = at[v]
    BY <1>0, RootEndsFrame, Zenon DEF LeaveUndo
  <2>3. QED
    BY <1>0, <2>1, <2>2, LockKept, Zenon
<1>10. ASSUME NEW u \in Users, Crash(u) PROVE LockHeld'
  <2> USE <1>10
  <2>1. pc'[u] \notin InRoot /\ \A v \in Users \ {u} : pc'[v] = pc[v]
    <3>1. pc'[u] \in {"idle"} /\ \A v \in Users \ {u} : pc'[v] = pc[v]
      BY <1>0, EndFrame, RootEndsFrame, Zenon DEF Crash
    <3>2. QED
      BY <3>1, SMT DEF InRoot
  <2>2. (lock' = lock \/ lock = u) /\ \A v \in Users \ {u} : at'[v] = at[v]
    BY <1>0, RootEndsFrame, Zenon DEF Crash
  <2>3. QED
    BY <1>0, <2>1, <2>2, LockKept, Zenon
<1>11. ASSUME NEW u \in Users, Lock(u) PROVE LockHeld'
  <2> USE <1>11
  <2>1. CASE GoTo(u, "failed") /\ UNCHANGED <<lock, at>>
    <3>1. pc'[u] \notin InRoot /\ \A v \in Users \ {u} : pc'[v] = pc[v]
      <4>1. pc'[u] = "failed" /\ \A v \in Users \ {u} : pc'[v] = pc[v]
        BY <1>0, <2>1, GoToFrame, Zenon
      <4>2. QED
        BY <4>1, SMT DEF InRoot
    <3>2. QED
      BY <1>0, <2>1, <3>1, LockKept, Zenon
  <2>2. CASE lock = Nobody /\ lock' = u /\ at' = [at EXCEPT ![u] = 1]
    <3>1. \A v \in Users : pc[v] \notin InRoot
      BY <1>0, <2>2, SystemTransactionAssumption, Zenon DEF TypeInv, LockHeld
    <3>2. \A v \in Users \ {u} : pc'[v] = pc[v]
      BY <1>0, GoToFrame, Zenon DEF Lock
    <3>3. at'[u] >= 1
      BY <1>0, <2>2, AtFrame, SMT
    <3>4. QED
      BY <2>2, <3>1, <3>2, <3>3, Zenon DEF LockHeld
  <2>3. QED
    BY <2>1, <2>2, Zenon DEF Lock
<1>12. ASSUME NEW u \in Users, InstallNext(u) PROVE LockHeld'
  <2> USE <1>12
  <2>1. pc[u] \in InRoot /\ lock' = lock /\ \A v \in Users \ {u} : pc'[v] = pc[v]
    BY <1>0, GoToFrame, Zenon DEF InstallNext, InRoot
  <2>2. at[u] >= 1
    BY <1>0, <2>1, Zenon DEF TypeInv, LockHeld
  <2>3. at' = [at EXCEPT ![u] = @ + 1]
    BY Zenon DEF InstallNext
  <2>4. at'[u] >= 1 /\ \A v \in Users \ {u} : at'[v] = at[v]
    BY <1>0, <2>2, <2>3, SMT
  <2>5. QED
    BY <1>0, <2>1, <2>4, LockKeptInside, Zenon
<1>13. ASSUME NEW u \in Users, RemoveNext(u) PROVE LockHeld'
  <2> USE <1>13
  <2>1. pc[u] \in InRoot /\ lock' = lock /\ \A v \in Users \ {u} : pc'[v] = pc[v]
    BY <1>0, GoToFrame, Zenon DEF RemoveNext, InRoot
  <2>2. at[u] >= 1
    BY <1>0, <2>1, Zenon DEF TypeInv, LockHeld
  <2>3. at' = [at EXCEPT ![u] = @ + 1]
    BY Zenon DEF RemoveNext
  <2>4. at'[u] >= 1 /\ \A v \in Users \ {u} : at'[v] = at[v]
    BY <1>0, <2>2, <2>3, SMT
  <2>5. QED
    BY <1>0, <2>1, <2>4, LockKeptInside, Zenon
<1>14. ASSUME NEW u \in Users, Fail(u) PROVE LockHeld'
  <2> USE <1>14
  <2>1. pc[u] \in InRoot /\ lock' = lock /\ \A v \in Users \ {u} : pc'[v] = pc[v]
    BY <1>0, GoToFrame, Zenon DEF Fail, InRoot
  <2>2. at[u] >= 1
    BY <1>0, <2>1, Zenon DEF TypeInv, LockHeld
  <2>3. at' = [at EXCEPT ![u] = 1]
    BY Zenon DEF Fail
  <2>4. at'[u] >= 1 /\ \A v \in Users \ {u} : at'[v] = at[v]
    BY <1>0, <2>2, <2>3, SMT
  <2>5. QED
    BY <1>0, <2>1, <2>4, LockKeptInside, Zenon
<1>15. ASSUME NEW u \in Users, UndoRemove(u) PROVE LockHeld'
  <2> USE <1>15
  <2>1. pc[u] \in InRoot /\ lock' = lock /\ \A v \in Users \ {u} : pc'[v] = pc[v]
    BY <1>0, GoToFrame, Zenon DEF UndoRemove, InRoot
  <2>2. at[u] >= 1
    BY <1>0, <2>1, Zenon DEF TypeInv, LockHeld
  <2>3. at' = [at EXCEPT ![u] = @ + 1] \/ at' = at
    BY Zenon DEF UndoRemove
  <2>4. at'[u] >= 1 /\ \A v \in Users \ {u} : at'[v] = at[v]
    BY <1>0, <2>2, <2>3, SMT
  <2>5. QED
    BY <1>0, <2>1, <2>4, LockKeptInside, Zenon
<1>16. ASSUME NEW u \in Users, UndoCopy(u) PROVE LockHeld'
  <2> USE <1>16
  <2>1. pc[u] \in InRoot /\ lock' = lock /\ \A v \in Users \ {u} : pc'[v] = pc[v]
    BY <1>0, GoToFrame, Zenon DEF UndoCopy, InRoot
  <2>2. at[u] >= 1
    BY <1>0, <2>1, Zenon DEF TypeInv, LockHeld
  <2>3. at' = [at EXCEPT ![u] = @ + 1]
    BY Zenon DEF UndoCopy
  <2>4. at'[u] >= 1 /\ \A v \in Users \ {u} : at'[v] = at[v]
    BY <1>0, <2>2, <2>3, SMT
  <2>5. QED
    BY <1>0, <2>1, <2>4, LockKeptInside, Zenon
<1>17. ASSUME NEW u \in Users, LockPamInstalled(u) PROVE LockHeld'
  BY <1>17, <1>0, Zenon DEF TypeInv, LockHeld, LockPamInstalled, rootVars
<1>18. ASSUME LockPamRemoved PROVE LockHeld'
  BY <1>18, <1>0, Zenon DEF TypeInv, LockHeld, LockPamRemoved, rootVars
<1>19. ASSUME NEW path \in Replaceable, Replaced(path) PROVE LockHeld'
  BY <1>19, <1>0, Zenon DEF TypeInv, LockHeld, Replaced, rootVars
<1>20. ASSUME UNCHANGED vars PROVE LockHeld'
  BY <1>20, <1>0, Zenon DEF TypeInv, LockHeld, vars, rootVars
<1>21. QED
  BY <1>1, <1>2, <1>3, <1>4, <1>5, <1>6, <1>7, <1>8, <1>9, <1>10, <1>11, <1>12, <1>13, <1>14, <1>15, <1>16, <1>17, <1>18, <1>19, <1>20, Zenon DEF Next

LEMMA MarkKeeps ==
  ASSUME NEW r \in Plans, NEW m
  PROVE  /\ [r EXCEPT !.legacy = m].kind = r.kind
         /\ [r EXCEPT !.legacy = m].integration = r.integration
BY SMT DEF Plans

LEMMA ReceiptNext ==
  ASSUME TypeInv, [Next]_vars
  PROVE  ReceiptDecided'
<1>0. TypeInv /\ TypeOK /\ plan \in [Users -> Plans]
  BY DEF TypeInv, TypeOK
<1>1. ASSUME NEW u \in Users, BeginInstall(u) PROVE ReceiptDecided'
  <2> USE <1>1
  <2>1. pc'[u] = "reading" /\ \A v \in Users \ {u} : pc'[v] = pc[v] /\ plan'[v] = plan[v]
    BY <1>0, GoToFrame, PlanFrame, Zenon DEF BeginInstall
  <2>2. QED
    BY <1>0, <2>1, ReceiptKept, Zenon
<1>2. ASSUME NEW u \in Users, ReadReceipts(u) PROVE ReceiptDecided'
  <2> USE <1>2
  <2> DEFINE word == IF disk["receipt"] # "absent" THEN disk["receipt"]
                     ELSE IF disk["sudo"] = "gaze"
                               /\ ~(plan[u].ownsGaze \/ disk["gazeReceipt"] = "managed")
                          THEN "replaced" ELSE "added"
  <2>1. word # "none"
    BY <1>0, Zenon DEF TypeOK, Disks, ReceiptContents
  <2>2. plan' = [plan EXCEPT ![u].integration = word]
    BY Zenon DEF ReadReceipts
  <2>3. plan'[u].integration # "none" /\ \A v \in Users \ {u} : plan'[v] = plan[v]
    <3> HIDE DEF word
    <3>1. plan[u] \in Plans
      BY <1>0, Zenon
    <3>2. [plan[u] EXCEPT !.integration = word].integration = word
      BY <3>1, SMT DEF Plans
    <3>3. QED
      BY <1>0, <2>1, <2>2, <3>2, PlanFrame, Zenon
  <2>4. \A v \in Users \ {u} : pc'[v] = pc[v]
    BY <1>0, GoToFrame, Zenon DEF ReadReceipts
  <2>5. QED
    BY <1>0, <2>3, <2>4, ReceiptKept, Zenon
<1>3. ASSUME NEW u \in Users, BeginRemove(u) PROVE ReceiptDecided'
  <2> USE <1>3
  <2>1. plan'[u].kind = "remove" /\ \A v \in Users \ {u} : pc'[v] = pc[v] /\ plan'[v] = plan[v]
    BY <1>0, GoToFrame, PlanFrame, Zenon DEF BeginRemove
  <2>2. QED
    BY <1>0, <2>1, ReceiptKept, Zenon
<1>4. ASSUME NEW u \in Users, EnterRoot(u) PROVE ReceiptDecided'
  <2> USE <1>4
  <2>1. /\ plan'[u].kind = plan[u].kind /\ plan'[u].integration = plan[u].integration
        /\ pc[u] \notin {"idle", "reading"}
        /\ \A v \in Users \ {u} : pc'[v] = pc[v] /\ plan'[v] = plan[v]
    BY <1>0, GoToFrame, Zenon DEF EnterRoot
  <2>2. QED
    BY <1>0, <2>1, ReceiptKept, Zenon
<1>5. ASSUME NEW u \in Users, RemovePackages(u) PROVE ReceiptDecided'
  <2> USE <1>5
  <2>1. /\ pc'[u] # "idle" => plan'[u] = plan[u]
        /\ pc[u] \notin {"idle", "reading"}
        /\ \A v \in Users \ {u} : pc'[v] = pc[v] /\ plan'[v] = plan[v]
    BY <1>0, GoToFrame, EndFrame, Zenon DEF RemovePackages
  <2>2. QED
    BY <1>0, <2>1, ReceiptKept, Zenon
<1>6. ASSUME NEW u \in Users, Fail(u) PROVE ReceiptDecided'
  <2> USE <1>6
  <2>1. /\ plan'[u].kind = plan[u].kind /\ plan'[u].integration = plan[u].integration
        /\ pc[u] \notin {"idle", "reading"}
        /\ \A v \in Users \ {u} : pc'[v] = pc[v] /\ plan'[v] = plan[v]
    BY <1>0, GoToFrame, Zenon DEF Fail
  <2>2. QED
    BY <1>0, <2>1, ReceiptKept, Zenon
<1>7. ASSUME NEW u \in Users, LeaveUndo(u) PROVE ReceiptDecided'
  <2> USE <1>7
  <2>1. /\ plan'[u].kind = plan[u].kind /\ plan'[u].integration = plan[u].integration
        /\ pc[u] \notin {"idle", "reading"}
        /\ \A v \in Users \ {u} : pc'[v] = pc[v] /\ plan'[v] = plan[v]
    BY <1>0, GoToFrame, Zenon DEF LeaveUndo
  <2>2. QED
    BY <1>0, <2>1, ReceiptKept, Zenon
<1>8. ASSUME NEW u \in Users, FinishFailed(u) PROVE ReceiptDecided'
  <2> USE <1>8
  <2>1. pc'[u] = "idle" /\ \A v \in Users \ {u} : pc'[v] = pc[v] /\ plan'[v] = plan[v]
    BY <1>0, EndFrame, Zenon DEF FinishFailed
  <2>2. QED
    BY <1>0, <2>1, ReceiptKept, Zenon
<1>9. ASSUME NEW u \in Users, RemoveDirectories(u) PROVE ReceiptDecided'
  <2> USE <1>9
  <2>1. pc'[u] = "idle" /\ \A v \in Users \ {u} : pc'[v] = pc[v] /\ plan'[v] = plan[v]
    BY <1>0, EndFrame, Zenon DEF RemoveDirectories
  <2>2. QED
    BY <1>0, <2>1, ReceiptKept, Zenon
<1>10. ASSUME NEW u \in Users, Crash(u) PROVE ReceiptDecided'
  <2> USE <1>10
  <2>1. pc'[u] = "idle" /\ \A v \in Users \ {u} : pc'[v] = pc[v] /\ plan'[v] = plan[v]
    BY <1>0, EndFrame, Zenon DEF Crash
  <2>2. QED
    BY <1>0, <2>1, ReceiptKept, Zenon
<1>11. ASSUME NEW u \in Users, InstallNext(u) PROVE ReceiptDecided'
  <2> USE <1>11
  <2>1. /\ plan'[u].kind = plan[u].kind /\ plan'[u].integration = plan[u].integration
        /\ pc[u] \notin {"idle", "reading"}
        /\ \A v \in Users \ {u} : pc'[v] = pc[v] /\ plan'[v] = plan[v]
    BY <1>0, Zenon DEF InstallNext
  <2>2. QED
    BY <1>0, <2>1, ReceiptKept, Zenon
<1>12. ASSUME NEW u \in Users, RemoveNext(u) PROVE ReceiptDecided'
  <2> USE <1>12
  <2>1. /\ plan'[u].kind = plan[u].kind /\ plan'[u].integration = plan[u].integration
        /\ pc[u] \notin {"idle", "reading"}
        /\ \A v \in Users \ {u} : pc'[v] = pc[v] /\ plan'[v] = plan[v]
    BY <1>0, Zenon DEF RemoveNext
  <2>2. QED
    BY <1>0, <2>1, ReceiptKept, Zenon
<1>13. ASSUME NEW u \in Users, UndoRemove(u) PROVE ReceiptDecided'
  <2> USE <1>13
  <2>1. /\ plan'[u].kind = plan[u].kind /\ plan'[u].integration = plan[u].integration
        /\ pc[u] \notin {"idle", "reading"}
        /\ \A v \in Users \ {u} : pc'[v] = pc[v] /\ plan'[v] = plan[v]
    BY <1>0, Zenon DEF UndoRemove
  <2>2. QED
    BY <1>0, <2>1, ReceiptKept, Zenon
<1>14. ASSUME NEW u \in Users, UndoCopy(u) PROVE ReceiptDecided'
  <2> USE <1>14
  <2>1. /\ plan'[u].kind = plan[u].kind /\ plan'[u].integration = plan[u].integration
        /\ pc[u] \notin {"idle", "reading"}
        /\ \A v \in Users \ {u} : pc'[v] = pc[v] /\ plan'[v] = plan[v]
    BY <1>0, Zenon DEF UndoCopy
  <2>2. QED
    BY <1>0, <2>1, ReceiptKept, Zenon
<1>15. ASSUME NEW u \in Users, Commit(u) PROVE ReceiptDecided'
  <2> USE <1>15
  <2>1. CASE CommandEnds(u)
    BY <1>0, <2>1, EndFrame, ReceiptKept, Zenon
  <2>2. CASE GoTo(u, "packages") /\ UNCHANGED plan
    BY <1>0, <2>2, GoToFrame, ReceiptKept, Zenon DEF Commit
  <2>3. QED
    BY <2>1, <2>2, Zenon DEF Commit
<1>16. ASSUME NEW u \in Users, Lock(u) PROVE ReceiptDecided'
  <2> USE <1>16
  <2> DEFINE mark == /\ plan[u].kind = "install" /\ ~registryDir
                     /\ disk["receipt"] # "absent" \/ disk["sudo"] = "hook"
  <2>1. pc[u] = "blocked" /\ \A v \in Users \ {u} : pc'[v] = pc[v]
    BY <1>0, GoToFrame, Zenon DEF Lock
  <2>2. plan' = plan \/ plan' = [plan EXCEPT ![u].legacy = mark]
    BY Zenon DEF Lock
  <2>3. /\ plan'[u].kind = plan[u].kind /\ plan'[u].integration = plan[u].integration
        /\ \A v \in Users \ {u} : plan'[v] = plan[v]
    <3> HIDE DEF mark
    <3>1. plan[u] \in Plans
      BY <1>0, Zenon
    <3>2. /\ [plan[u] EXCEPT !.legacy = mark].kind = plan[u].kind
          /\ [plan[u] EXCEPT !.legacy = mark].integration = plan[u].integration
      BY <3>1, MarkKeeps
    <3>3. QED
      BY <1>0, <2>2, <3>2, PlanFrame, Zenon
  <2>4. QED
    BY <1>0, <2>1, <2>3, ReceiptKept, Zenon
<1>17. ASSUME NEW u \in Users, LockPamInstalled(u) PROVE ReceiptDecided'
  BY <1>17, <1>0, Zenon DEF TypeInv, ReceiptDecided, LockPamInstalled
<1>18. ASSUME LockPamRemoved PROVE ReceiptDecided'
  BY <1>18, <1>0, Zenon DEF TypeInv, ReceiptDecided, LockPamRemoved
<1>19. ASSUME NEW path \in Replaceable, Replaced(path) PROVE ReceiptDecided'
  BY <1>19, <1>0, Zenon DEF TypeInv, ReceiptDecided, Replaced
<1>20. ASSUME UNCHANGED vars PROVE ReceiptDecided'
  BY <1>20, <1>0, Zenon DEF TypeInv, ReceiptDecided, vars
<1>21. QED
  BY <1>1, <1>2, <1>3, <1>4, <1>5, <1>6, <1>7, <1>8, <1>9, <1>10, <1>11, <1>12, <1>13, <1>14, <1>15, <1>16, <1>17, <1>18, <1>19, <1>20, Zenon DEF Next

(* Types hold in every reachable state, for any users and faults.          *)
THEOREM TypeCorrect == Spec => []TypeOK
<1>1. Init => TypeInv
  BY InitTypes
<1>2. TypeInv /\ [Next]_vars => TypeInv'
  BY TypesNext, LockNext, ReceiptNext DEF TypeInv
<1>3. TypeInv => TypeOK
  BY DEF TypeInv
<1>4. QED
  BY <1>1, <1>2, <1>3, PTL DEF Spec

-----------------------------------------------------------------------------
(* Every file a root part changes is one a rollback restores.              *)

LEMMA InstallCovered ==
  ASSUME NEW u \in Users, plan[u].kind = "install", NEW k \in 1..9
  PROVE  \E i \in 1..Len(UndoOf(u)) : UndoOf(u)[i] = InstallOrder[k]
<1>1. k \in {1, 2, 3, 4, 5, 6, 7, 8, 9}
  BY SMT
<1>2. UndoOf(u) = <<"sudo", "face", "verifier", "elevation", "consent", "receipt",
                    "entry", "legacy", "gazeReceipt">>
  BY SMT DEF UndoOf, UndoOrder
<1>3. \E i \in {1, 2, 3, 4, 5, 6, 7, 8, 9} : UndoOf(u)[i] = InstallOrder[k]
  BY <1>1, <1>2, SMT DEF InstallOrder
<1>4. Len(UndoOf(u)) = 9
  BY <1>2, SMT
<1>5. QED
  BY <1>3, <1>4, SMT

LEMMA RemovalCovered ==
  ASSUME NEW u \in Users, plan[u].kind = "remove", plan[u].last \in BOOLEAN,
         NEW k \in 1..Len(RemovalOrder(plan[u].last))
  PROVE  \E i \in 1..Len(UndoOf(u)) : UndoOf(u)[i] = RemovalOrder(plan[u].last)[k]
<1>1. CASE plan[u].last
  <2>1. k \in {1, 2, 3, 4, 5, 6, 7, 8, 9}
    BY <1>1, SMT DEF RemovalOrder
  <2>2. UndoOf(u) = <<"entry", "sudo", "face", "verifier", "elevation", "consent",
                      "receipt", "gazeReceipt", "lockPam">>
    BY <1>1, SMT DEF UndoOf, UndoOrder
  <2>3. \E i \in {1, 2, 3, 4, 5, 6, 7, 8, 9} : UndoOf(u)[i] = RemovalOrder(plan[u].last)[k]
    BY <1>1, <2>1, <2>2, SMT DEF RemovalOrder
  <2>4. Len(UndoOf(u)) = 9
    BY <2>2, SMT
  <2>5. QED
    BY <2>3, <2>4, SMT
<1>2. CASE ~plan[u].last
  <2>1. UndoOf(u) = <<"entry">> /\ RemovalOrder(plan[u].last) = <<"entry">>
    BY <1>2, SMT DEF UndoOf, UndoOrder, RemovalOrder
  <2>2. QED
    BY <2>1, SMT
<1>3. QED
  BY <1>1, <1>2

(* Pending depends on the user's own command only.                         *)
LEMMA PendingSame ==
  ASSUME NEW v \in Users, pc'[v] = pc[v], at'[v] = at[v], plan'[v] = plan[v], NEW p
  PROVE  Pending(v, p)' <=> Pending(v, p)
BY Zenon DEF Pending, UndoOf

LEMMA Outside ==
  ASSUME TypeInv, TransactionInv, NEW u \in Users,
         pc[u] # "undoing" \/ "tear" \in Faults, pc'[u] \notin InRoot, disk' = disk,
         \A v \in Users \ {u} : /\ pc'[v] = pc[v] /\ plan'[v] = plan[v]
                               /\ at'[v] = at[v] /\ backup'[v] = backup[v]
  PROVE  TransactionInv'
<1>1. SnapshotSafe'
  BY Zenon DEF TransactionInv, SnapshotSafe, Safe, Usable
<1>2. HookIsLast'
  <2>1. \A v \in Users : pc'[v] = "active" => v # u
    BY Zenon DEF InRoot
  <2>2. QED
    BY <2>1, Zenon DEF TransactionInv, HookIsLast, InstallOrder
<1>3. HookIsFirst'
  <2>1. \A v \in Users : pc'[v] = "active" => v # u
    BY Zenon DEF InRoot
  <2>2. QED
    BY <2>1, Zenon DEF TransactionInv, HookIsFirst
<1>4. OthersUntouched'
  <2> SUFFICES ASSUME NEW v \in Users, pc'[v] \in InRoot, NEW p \in Paths \ {"lockPam"}
               PROVE  disk'[p] = backup'[v][p] \/ Pending(v, p)'
    BY Zenon DEF OthersUntouched, Paths, SharedPaths, Artifacts, Receipts, Entries, InRoot
  <2>1. v # u
    BY Zenon
  <2>2. disk[p] = backup[v][p] \/ Pending(v, p)
    BY <2>1, Zenon DEF TransactionInv, OthersUntouched
  <2>3. Pending(v, p) => Pending(v, p)'
    BY <2>1, PendingSame, Zenon
  <2>4. QED
    BY <2>1, <2>2, <2>3, Zenon
<1>5. SudoSafe'
  <2>1. CASE pc[u] # "undoing"
    <3>1. RollingBack => RollingBack'
      BY <2>1, Zenon DEF RollingBack
    <3>2. QED
      BY <3>1, Zenon DEF TransactionInv, SudoSafe, Safe, Usable
  <2>2. CASE "tear" \in Faults
    BY <2>2, Zenon DEF SudoSafe, Safe
  <2>3. QED
    BY <2>1, <2>2
<1>6. QED
  BY <1>1, <1>2, <1>3, <1>4, <1>5 DEF TransactionInv

(* Nobody is in a root part.                                               *)
LEMMA AllOutside ==
  ASSUME \A v \in Users : pc'[v] \notin InRoot, Safe(disk')
  PROVE  TransactionInv'
<1>1. SnapshotSafe' /\ OthersUntouched'
  BY Zenon DEF SnapshotSafe, OthersUntouched, InRoot
<1>2. HookIsLast' /\ HookIsFirst'
  BY Zenon DEF HookIsLast, HookIsFirst, InRoot
<1>3. SudoSafe'
  BY Zenon DEF SudoSafe, Safe, Usable
<1>4. QED
  BY <1>1, <1>2, <1>3 DEF TransactionInv

(* One user is, so by the lock nobody else.                                *)
LEMMA Inside ==
  ASSUME LockHeld', NEW u \in Users, pc'[u] \in InRoot,
         Safe(backup'[u]),
         pc'[u] = "active" /\ plan'[u].kind = "install" =>
           \A k \in 1..4 : k < at'[u] => disk'[InstallOrder[k]] # "absent",
         pc'[u] = "active" /\ plan'[u].kind = "remove" /\ plan'[u].last /\ at'[u] > 1
           => disk'["sudo"] # "hook",
         \A p \in Paths \ {"lockPam"} : disk'[p] = backup'[u][p] \/ Pending(u, p)',
         pc'[u] = "active" => Safe(disk')
  PROVE  TransactionInv'
<1>1. \A v \in Users : pc'[v] \in InRoot => v = u
  BY Zenon DEF LockHeld
<1>2. SnapshotSafe'
  BY <1>1, Zenon DEF SnapshotSafe, Safe, Usable
<1>3. \A v \in Users : pc'[v] = "active" => v = u
  BY <1>1, Zenon DEF InRoot
<1>4. HookIsLast'
  BY <1>3, Zenon DEF HookIsLast, InstallOrder
<1>5. HookIsFirst'
  BY <1>3, Zenon DEF HookIsFirst
<1>6. OthersUntouched'
  BY <1>1, Zenon DEF OthersUntouched, Paths, SharedPaths, Artifacts, Receipts, Entries, InRoot
<1>7. SudoSafe'
  <2>1. ~RollingBack' => pc'[u] = "active"
    BY Zenon DEF RollingBack, InRoot
  <2>2. QED
    BY <2>1, Zenon DEF SudoSafe, Safe, Usable
<1>8. QED
  BY <1>2, <1>4, <1>5, <1>6, <1>7 DEF TransactionInv

-----------------------------------------------------------------------------
(* The root parts keep the invariant.                                      *)

LEMMA LockInv ==
  ASSUME TypeInv, TransactionInv, LockHeld', NEW u \in Users, Lock(u)
  PROVE  TransactionInv'
<1>0. TypeOK /\ LockHeld /\ pc[u] = "blocked" /\ disk' = disk
  BY Zenon DEF TypeInv, Lock, machineVars
<1>1. \A v \in Users \ {u} : pc'[v] = pc[v]
  BY <1>0, GoToFrame, Zenon DEF Lock
<1>2. CASE GoTo(u, "failed") /\ UNCHANGED <<lock, plan, backup, at>>
  <2>1. pc'[u] = "failed"
    BY <1>0, <1>2, GoToFrame, Zenon
  <2>2. pc'[u] \notin InRoot /\ pc[u] # "undoing"
    BY <1>0, <2>1, SMT DEF InRoot
  <2>3. QED
    BY <1>0, <1>1, <1>2, <2>2, Outside, Zenon
<1>3. CASE /\ lock = Nobody /\ backup' = [backup EXCEPT ![u] = disk]
           /\ at' = [at EXCEPT ![u] = 1]
           /\ GoTo(u, IF Acceptable(u) THEN "active" ELSE "undoing")
  <2>1. \A v \in Users : pc[v] \notin InRoot
    BY <1>0, <1>3, SystemTransactionAssumption, Zenon DEF LockHeld
  <2>2. Safe(disk)
    BY <2>1, Zenon DEF TransactionInv, SudoSafe, RollingBack, InRoot
  <2>3. backup'[u] = disk /\ at'[u] = 1
    BY <1>0, <1>3, Zenon DEF TypeOK
  <2>4. pc'[u] \in InRoot
    <3>1. pc'[u] = "active" \/ pc'[u] = "undoing"
      BY <1>0, <1>3, GoToFrame, Zenon
    <3>2. QED
      BY <3>1, Zenon DEF InRoot
  <2>5. ~(at'[u] > 1) /\ \A k \in 1..4 : ~(k < at'[u])
    BY <2>3, SMT
  <2>6. \A p \in Paths \ {"lockPam"} : disk'[p] = backup'[u][p]
    BY <1>0, <2>3, Zenon
  <2>7. Safe(backup'[u]) /\ Safe(disk')
    BY <1>0, <2>2, <2>3, Zenon DEF Safe, Usable
  <2>8. QED
    BY <2>4, <2>5, <2>6, <2>7, Inside, Zenon
<1>4. QED
  BY <1>2, <1>3, Zenon DEF Lock

(* What holds of a root part in its middle.                                *)
LEMMA ActiveFacts ==
  ASSUME TypeInv, TransactionInv, NEW u \in Users, pc[u] = "active"
  PROVE  /\ Safe(disk) /\ Safe(backup[u])
         /\ \A p \in Paths \ {"lockPam"} : disk[p] = backup[u][p] \/ Pending(u, p)
         /\ at[u] \in Nat /\ at[u] >= 1 /\ plan[u].last \in BOOLEAN
<1>1. pc[u] \in InRoot
  BY Zenon DEF InRoot
<1>2. \A v \in Users : pc[v] \in InRoot => v = u
  BY <1>1, Zenon DEF TypeInv, LockHeld
<1>3. ~RollingBack
  <2>1. \A v \in Users : pc[v] = "undoing" => v = u
    BY <1>2, Zenon DEF InRoot
  <2>2. pc[u] # "undoing"
    BY SMT
  <2>3. QED
    BY <2>1, <2>2, Zenon DEF RollingBack
<1>4. Safe(disk) /\ Safe(backup[u])
  BY <1>1, <1>3, Zenon DEF TransactionInv, SudoSafe, SnapshotSafe
<1>5. \A p \in Paths \ {"lockPam"} : disk[p] = backup[u][p] \/ Pending(u, p)
  BY <1>1, Zenon DEF TransactionInv, OthersUntouched, Paths, SharedPaths, Artifacts, Receipts, Entries
<1>6. at[u] \in Nat /\ plan[u].last \in BOOLEAN
  BY SMT DEF TypeInv, TypeOK, Plans
<1>7. at[u] >= 1
  BY <1>1, Zenon DEF TypeInv, LockHeld
<1>8. QED
  BY <1>4, <1>5, <1>6, <1>7

(* A path an active root part is about to change will be restored.         *)
LEMMA ActivePending ==
  ASSUME TypeInv, TransactionInv, NEW u \in Users, pc[u] = "active", pc' = pc, plan' = plan,
         NEW name, \E i \in 1..Len(UndoOf(u)) : UndoOf(u)[i] = name
  PROVE  /\ Pending(u, PathOf(u, name))'
         /\ \A p : Pending(u, p) => Pending(u, p)'
<1>1. pc[u] # "undoing"
  BY SMT
<1>2. QED
  BY <1>1, Zenon DEF Pending, UndoOf, PathOf

LEMMA InstallNextInv ==
  ASSUME TypeInv, TransactionInv, LockHeld', NEW u \in Users, InstallNext(u)
  PROVE  TransactionInv'
<1>0. /\ pc[u] = "active" /\ plan[u].kind = "install" /\ pc' = pc /\ plan' = plan
      /\ backup' = backup /\ at' = [at EXCEPT ![u] = @ + 1] /\ at[u] <= 9
  BY InstallLength, Zenon DEF InstallNext
<1>1. /\ Safe(disk) /\ Safe(backup[u])
      /\ \A p \in Paths \ {"lockPam"} : disk[p] = backup[u][p] \/ Pending(u, p)
      /\ at[u] \in Nat /\ at[u] >= 1
  BY <1>0, ActiveFacts, Zenon
<1>2. at[u] \in 1..9 /\ at'[u] = at[u] + 1
  BY <1>0, <1>1, SMT DEF TypeInv, TypeOK
<1>0a. PICK name \in Names : name = InstallOrder[at[u]]
  BY <1>2, InstallNames, Zenon
<1> DEFINE path == PathOf(u, name)
<1>3. path \in Paths
  BY PathTyped, Zenon
<1>4. \/ disk' = disk /\ ~Applies(u, name)
      \/ disk' = [disk EXCEPT ![path] = InstalledContent(u, name)]
  BY <1>0a, Zenon DEF InstallNext, Write
<1>5. disk \in [Paths -> SudoContents \cup FileContents]
  BY Zenon DEF TypeInv, TypeOK, Disks
<1>6. InstalledContent(u, name) # "absent"
  <2>1. plan[u].integration # "none" /\ plan[u].integration \in {"none", "added", "replaced"}
    <3>1. pc[u] \notin {"idle", "reading"}
      BY <1>0, SMT
    <3>2. plan[u] \in Plans
      BY Zenon DEF TypeInv, TypeOK
    <3>3. QED
      BY <1>0, <3>1, <3>2, SMT DEF TypeInv, ReceiptDecided, Plans
  <2>2. QED
    BY <2>1, SMT DEF InstalledContent
<1>7. \A q \in Paths : disk[q] # "absent" => disk'[q] # "absent"
  <2> HIDE DEF path
  <2>1. QED
    BY <1>4, <1>5, <1>6, Zenon
<1>8. \A k \in 1..4 : InstallOrder[k] \in Artifacts /\ InstallOrder[k] \in Paths
  BY SMT DEF InstallOrder, Artifacts, Paths, SharedPaths
<1>9. \A k \in 1..4 : k < at'[u] => disk'[InstallOrder[k]] # "absent"
  <2> SUFFICES ASSUME NEW k \in 1..4, k < at'[u] PROVE disk'[InstallOrder[k]] # "absent"
    OBVIOUS
  <2>1. CASE k < at[u]
    <3>1. disk[InstallOrder[k]] # "absent"
      BY <1>0, <2>1, Zenon DEF TransactionInv, HookIsLast
    <3>2. QED
      BY <1>7, <1>8, <3>1, Zenon
  <2>2. CASE k = at[u]
    <3>1. name \in Artifacts
      BY <1>0a, <1>8, <2>2, Zenon
    <3>2. name # "legacy" /\ name # "gazeReceipt" /\ name # "entry"
      BY <3>1, SMT DEF Artifacts
    <3>3. Applies(u, name) /\ path = name
      BY <3>2, Zenon DEF Applies, PathOf
    <3>4. disk'[path] = InstalledContent(u, name)
      <4> HIDE DEF path
      <4>1. QED
        BY <1>3, <1>4, <1>5, <3>3, Zenon
    <3>5. QED
      BY <1>0a, <1>6, <2>2, <3>3, <3>4, Zenon
  <2>3. k < at[u] \/ k = at[u]
    BY <1>1, <1>2, SMT
  <2>4. QED
    BY <2>1, <2>2, <2>3
<1>10. \A p \in Paths \ {"lockPam"} : disk'[p] = backup'[u][p] \/ Pending(u, p)'
  <2>1. \E i \in 1..Len(UndoOf(u)) : UndoOf(u)[i] = name
    BY <1>0a, <1>0, <1>2, InstallCovered, Zenon
  <2>2. Pending(u, path)' /\ \A p : Pending(u, p) => Pending(u, p)'
    BY <1>0, <2>1, ActivePending, Zenon
  <2>3. \A p \in Paths : p # path => disk'[p] = disk[p]
    <3> HIDE DEF path
    <3>1. QED
      BY <1>4, <1>5, Zenon
  <2> HIDE DEF path
  <2>4. QED
    BY <1>0, <1>1, <2>2, <2>3, Zenon
<1>11. Safe(disk')
  <2> SUFFICES ASSUME "tear" \notin Faults PROVE Usable(disk')
    BY DEF Safe
  <2>1. "sudo" \in Paths /\ Artifacts \subseteq Paths
    BY SMT DEF Paths, SharedPaths
  <2>2. disk'["sudo"] # "absent"
    BY <1>1, <1>7, <2>1, Zenon DEF Safe, Usable
  <2>3. ASSUME disk'["sudo"] = "hook", NEW q \in Artifacts PROVE disk'[q] # "absent"
    <3>1. CASE disk["sudo"] = "hook"
      BY <1>1, <1>7, <2>1, <3>1, Zenon DEF Safe, Usable
    <3>2. CASE disk["sudo"] # "hook"
      <4>1. path = "sudo"
        <5> HIDE DEF path
        <5>1. QED
          BY <1>4, <1>5, <2>1, <2>3, <3>2, Zenon
      <4>2. name = "sudo"
        BY <4>1, PathTyped, Zenon DEF SharedPaths
      <4>3. at[u] = 9
        BY <1>0a, <1>2, <4>2, SMT DEF InstallOrder
      <4>4. \E k \in 1..4 : q = InstallOrder[k]
        BY SMT DEF InstallOrder, Artifacts
      <4>5. \A k \in 1..4 : k < at'[u]
        BY <1>2, <4>3, SMT
      <4>6. QED
        BY <1>9, <4>4, <4>5, Zenon
    <3>3. QED
      BY <3>1, <3>2
  <2>4. QED
    BY <2>2, <2>3, Zenon DEF Safe, Usable
<1>12. pc'[u] \in InRoot /\ plan'[u].kind # "remove"
  <2>1. pc'[u] = "active" /\ plan'[u].kind = "install"
    BY <1>0, Zenon
  <2>2. QED
    BY <2>1, SMT DEF InRoot
<1>13. Safe(backup'[u])
  BY <1>0, <1>1, Zenon
<1>14. QED
  BY <1>9, <1>10, <1>11, <1>12, <1>13, Inside, Zenon

LEMMA RemoveNextInv ==
  ASSUME TypeInv, TransactionInv, LockHeld', NEW u \in Users, RemoveNext(u)
  PROVE  TransactionInv'
<1>1. /\ pc[u] = "active" /\ plan[u].kind = "remove" /\ pc' = pc /\ plan' = plan
      /\ backup' = backup /\ at' = [at EXCEPT ![u] = @ + 1]
      /\ at[u] <= Len(RemovalOrder(plan[u].last))
  BY Zenon DEF RemoveNext
<1>2. /\ Safe(disk) /\ Safe(backup[u])
      /\ \A p \in Paths \ {"lockPam"} : disk[p] = backup[u][p] \/ Pending(u, p)
      /\ at[u] \in Nat /\ at[u] >= 1 /\ plan[u].last \in BOOLEAN
  BY <1>1, ActiveFacts, Zenon
<1>3. at[u] \in 1..Len(RemovalOrder(plan[u].last)) /\ at'[u] = at[u] + 1
  <2>1. Len(RemovalOrder(plan[u].last)) \in Nat
    BY SMT DEF RemovalOrder
  <2>2. at'[u] = at[u] + 1
    BY <1>1, Zenon DEF TypeInv, TypeOK
  <2>3. QED
    BY <1>1, <1>2, <2>1, <2>2, SMT
<1>4. PICK name \in Names : name = RemovalOrder(plan[u].last)[at[u]]
  BY <1>2, <1>3, RemovalNames, Zenon
<1> DEFINE path == PathOf(u, name)
<1>5. path \in Paths
  BY PathTyped, Zenon
<1>6. \/ disk' = disk /\ ~Applies(u, name)
      \/ disk' = [disk EXCEPT ![path] = RemovedContent(u, name)]
  BY <1>4, Zenon DEF RemoveNext, Write
<1>7. disk \in [Paths -> SudoContents \cup FileContents]
  BY Zenon DEF TypeInv, TypeOK, Disks
<1>8. \A p \in Paths : p # path => disk'[p] = disk[p]
  <2> HIDE DEF path
  <2>1. QED
    BY <1>6, <1>7, Zenon
<1>9. path = "sudo" => name = "sudo"
  BY PathTyped, Zenon DEF SharedPaths
<1>10. "sudo" \in Paths /\ Artifacts \subseteq Paths
  BY SMT DEF Paths, SharedPaths
<1>11. disk'["sudo"] = disk["sudo"] \/ (path = "sudo" /\ disk'["sudo"] = SudoRestored(u))
  <2>1. CASE path = "sudo"
    <3>1. RemovedContent(u, name) = SudoRestored(u)
      BY <1>9, <2>1, Zenon DEF RemovedContent
    <3> HIDE DEF path
    <3>2. QED
      BY <1>6, <1>7, <1>10, <2>1, <3>1, Zenon
  <2>2. CASE path # "sudo"
    BY <1>8, <1>10, <2>2, Zenon
  <2>3. QED
    BY <2>1, <2>2
<1>12. /\ SudoRestored(u) # "hook"
       /\ disk["sudo"] # "absent" => SudoRestored(u) # "absent"
  BY SMT DEF SudoRestored
<1>13. plan[u].last => disk'["sudo"] # "hook"
  <2> SUFFICES ASSUME plan[u].last PROVE disk'["sudo"] # "hook"
    OBVIOUS
  <2>1. CASE at[u] > 1
    <3>1. disk["sudo"] # "hook"
      BY <1>1, <2>1, Zenon DEF TransactionInv, HookIsFirst
    <3>2. QED
      BY <1>11, <1>12, <3>1, Zenon
  <2>2. CASE at[u] = 1
    <3>1. name = "sudo"
      BY <1>4, <2>2, SMT DEF RemovalOrder
    <3>2. path = "sudo" /\ Applies(u, name)
      <4>1. name # "entry" /\ name # "legacy" /\ name # "gazeReceipt"
        BY <3>1, SMT
      <4>2. QED
        BY <3>1, <4>1, Zenon DEF PathOf, Applies
    <3>3. disk'["sudo"] = RemovedContent(u, name)
      <4> HIDE DEF path
      <4>1. QED
        BY <1>5, <1>6, <1>7, <3>2, Zenon
    <3>4. RemovedContent(u, name) = SudoRestored(u)
      BY <3>1, Zenon DEF RemovedContent
    <3>5. QED
      BY <1>12, <3>3, <3>4, Zenon
  <2>3. at[u] > 1 \/ at[u] = 1
    BY <1>2, SMT
  <2>4. QED
    BY <2>1, <2>2, <2>3
<1>14. ~plan[u].last => \A q \in Artifacts \cup {"sudo"} : disk'[q] = disk[q]
  <2> SUFFICES ASSUME ~plan[u].last, NEW q \in Artifacts \cup {"sudo"}
               PROVE  disk'[q] = disk[q]
    OBVIOUS
  <2>1. name = "entry"
    <3>1. RemovalOrder(plan[u].last) = <<"entry">>
      BY SMT DEF RemovalOrder
    <3>2. at[u] = 1
      BY <1>3, <3>1, SMT
    <3>3. QED
      BY <1>4, <3>1, <3>2, SMT
  <2>2. path # q
    <3>1. path = u /\ u \notin SharedPaths
      BY <2>1, PathTyped, Zenon
    <3>2. q \in SharedPaths
      BY Zenon DEF SharedPaths
    <3>3. QED
      BY <3>1, <3>2, Zenon
  <2>3. QED
    BY <1>8, <1>10, <2>2, Zenon
<1>15. Safe(disk')
  <2> SUFFICES ASSUME "tear" \notin Faults PROVE Usable(disk')
    BY DEF Safe
  <2>1. disk'["sudo"] # "absent"
    BY <1>2, <1>11, <1>12, Zenon DEF Safe, Usable
  <2>2. CASE plan[u].last
    BY <1>13, <2>1, <2>2, Zenon DEF Safe, Usable
  <2>3. CASE ~plan[u].last
    BY <1>2, <1>14, <2>1, <2>3, Zenon DEF Safe, Usable
  <2>4. QED
    BY <2>2, <2>3
<1>16. \A p \in Paths \ {"lockPam"} : disk'[p] = backup'[u][p] \/ Pending(u, p)'
  <2>1. \E i \in 1..Len(UndoOf(u)) : UndoOf(u)[i] = name
    BY <1>1, <1>2, <1>3, <1>4, RemovalCovered, Zenon
  <2>2. Pending(u, path)' /\ \A p : Pending(u, p) => Pending(u, p)'
    BY <1>1, <2>1, ActivePending, Zenon
  <2> HIDE DEF path
  <2>3. QED
    BY <1>1, <1>2, <1>8, <2>2, Zenon
<1>17. pc'[u] \in InRoot /\ plan'[u].kind # "install"
  <2>1. pc'[u] = "active" /\ plan'[u].kind = "remove"
    BY <1>1, Zenon
  <2>2. QED
    BY <2>1, SMT DEF InRoot
<1>18. Safe(backup'[u]) /\ (plan'[u].last => disk'["sudo"] # "hook")
  BY <1>1, <1>2, <1>13, Zenon
<1>19. QED
  BY <1>15, <1>16, <1>17, <1>18, Inside, Zenon

LEMMA FailInv ==
  ASSUME TypeInv, TransactionInv, LockHeld', NEW u \in Users, Fail(u)
  PROVE  TransactionInv'
<1>1. /\ pc[u] = "active" /\ plan' = plan /\ disk' = disk /\ backup' = backup
      /\ at' = [at EXCEPT ![u] = 1]
  BY Zenon DEF Fail, machineVars
<1>2. /\ Safe(backup[u])
      /\ \A p \in Paths \ {"lockPam"} : disk[p] = backup[u][p] \/ Pending(u, p)
  BY <1>1, ActiveFacts, Zenon
<1>3. pc'[u] = "undoing" /\ at'[u] = 1
  <2>1. TypeOK
    BY DEF TypeInv
  <2>2. QED
    BY <1>1, <2>1, GoToFrame, Zenon DEF Fail, TypeOK
<1>4. \A p : Pending(u, p) => Pending(u, p)'
  <2> SUFFICES ASSUME NEW p, Pending(u, p) PROVE Pending(u, p)'
    OBVIOUS
  <2>1. PICK i \in 1..Len(UndoOf(u)) : PathOf(u, UndoOf(u)[i]) = p
    BY Zenon DEF Pending
  <2>2. at'[u] <= i
    BY <1>3, SMT
  <2>3. QED
    BY <1>1, <2>1, <2>2, Zenon DEF Pending, UndoOf
<1>5. pc'[u] \in InRoot /\ pc'[u] # "active"
  BY <1>3, SMT DEF InRoot
<1>6. QED
  BY <1>1, <1>2, <1>4, <1>5, Inside, Zenon

(* What holds of a rollback in its middle.                                 *)
LEMMA UndoFacts ==
  ASSUME TypeInv, TransactionInv, NEW u \in Users, pc[u] = "undoing"
  PROVE  /\ Safe(backup[u]) /\ at[u] \in Nat
         /\ \A p \in Paths \ {"lockPam"} : disk[p] = backup[u][p] \/ Pending(u, p)
<1>1. pc[u] \in InRoot
  BY Zenon DEF InRoot
<1>2. Safe(backup[u])
  BY <1>1, Zenon DEF TransactionInv, SnapshotSafe
<1>3. \A p \in Paths \ {"lockPam"} : disk[p] = backup[u][p] \/ Pending(u, p)
  BY <1>1, Zenon DEF TransactionInv, OthersUntouched, Paths, SharedPaths, Artifacts, Receipts, Entries
<1>4. at[u] \in Nat
  BY Zenon DEF TypeInv, TypeOK
<1>5. QED
  BY <1>2, <1>3, <1>4

(* A rollback that goes on keeps the invariant if each path it no longer   *)
(* has before it is restored.                                              *)
LEMMA UndoInv ==
  ASSUME TypeInv, TransactionInv, LockHeld', NEW u \in Users, pc[u] = "undoing",
         pc' = pc, plan' = plan, backup' = backup,
         NEW path \in Paths, path = PathOf(u, UndoOf(u)[at[u]]),
         at[u] \in 1..Len(UndoOf(u)),
         \A p \in Paths : p # path => disk'[p] = disk[p],
         at'[u] = at[u] \/ (at'[u] = at[u] + 1 /\ disk'[path] = backup[u][path])
  PROVE  TransactionInv'
<1>1. /\ Safe(backup[u]) /\ at[u] \in Nat
      /\ \A p \in Paths \ {"lockPam"} : disk[p] = backup[u][p] \/ Pending(u, p)
  BY UndoFacts, Zenon
<1>2. pc'[u] \in InRoot /\ pc'[u] # "active"
  BY SMT DEF InRoot
<1>3. ASSUME NEW p \in Paths, p # path, Pending(u, p) PROVE Pending(u, p)'
  <2>1. PICK i \in 1..Len(UndoOf(u)) : at[u] <= i /\ PathOf(u, UndoOf(u)[i]) = p
    BY <1>3, Zenon DEF Pending
  <2>2. i # at[u]
    BY <1>3, <2>1, Zenon
  <2>3. at'[u] <= i
    BY <1>1, <2>1, <2>2, SMT
  <2>4. QED
    BY <2>1, <2>3, Zenon DEF Pending, UndoOf
<1>4. at'[u] = at[u] => Pending(u, path)'
  <2> SUFFICES ASSUME at'[u] = at[u] PROVE Pending(u, path)'
    OBVIOUS
  <2>1. PICK i \in 1..Len(UndoOf(u)) : i = at[u]
    BY Zenon
  <2>2. at'[u] <= i
    BY <1>1, <2>1, SMT
  <2>3. PathOf(u, UndoOf(u)[i]) = path
    BY <2>1, Zenon
  <2>4. QED
    BY <2>1, <2>2, <2>3, Zenon DEF Pending, UndoOf
<1>5. \A p \in Paths \ {"lockPam"} : disk'[p] = backup'[u][p] \/ Pending(u, p)'
  <2> SUFFICES ASSUME NEW p \in Paths \ {"lockPam"}
               PROVE  disk'[p] = backup'[u][p] \/ Pending(u, p)'
    BY Zenon
  <2>1. CASE p = path
    BY <1>4, <2>1, Zenon
  <2>2. CASE p # path
    BY <1>1, <1>3, <2>2, Zenon
  <2>3. QED
    BY <2>1, <2>2
<1>6. QED
  BY <1>1, <1>2, <1>5, Inside, Zenon

LEMMA UndoRemoveInv ==
  ASSUME TypeInv, TransactionInv, LockHeld', NEW u \in Users, UndoRemove(u)
  PROVE  TransactionInv'
<1>1. /\ pc[u] = "undoing" /\ at[u] <= Len(UndoOf(u))
      /\ pc' = pc /\ plan' = plan /\ backup' = backup
  BY Zenon DEF UndoRemove
<1>2. at[u] \in 1..Len(UndoOf(u)) /\ PathOf(u, UndoOf(u)[at[u]]) \in Paths
  BY <1>1, UndoPath, Zenon
<1>3. PICK path \in Paths : path = PathOf(u, UndoOf(u)[at[u]])
  BY <1>2, Zenon
<1>4. disk' = [disk EXCEPT ![path] = "absent"]
  BY <1>3, Zenon DEF UndoRemove, Write
<1>5. disk'[path] = "absent" /\ \A p \in Paths : p # path => disk'[p] = disk[p]
  BY <1>4, Zenon DEF TypeInv, TypeOK, Disks
<1>6. \/ at' = at
      \/ backup[u][path] = "absent" /\ at' = [at EXCEPT ![u] = @ + 1]
  BY <1>3, Zenon DEF UndoRemove
<1>7. at'[u] = at[u] \/ (at'[u] = at[u] + 1 /\ disk'[path] = backup[u][path])
  BY <1>5, <1>6, Zenon DEF TypeInv, TypeOK
<1>8. QED
  BY <1>1, <1>2, <1>3, <1>5, <1>7, UndoInv, Zenon

LEMMA UndoCopyInv ==
  ASSUME "lose" \notin Faults, TypeInv, TransactionInv, LockHeld', NEW u \in Users, UndoCopy(u)
  PROVE  TransactionInv'
<1>1. /\ pc[u] = "undoing" /\ at[u] <= Len(UndoOf(u))
      /\ pc' = pc /\ plan' = plan /\ backup' = backup
  BY Zenon DEF UndoCopy
<1>2. at[u] \in 1..Len(UndoOf(u)) /\ PathOf(u, UndoOf(u)[at[u]]) \in Paths
  BY <1>1, UndoPath, Zenon
<1>3. PICK path \in Paths : path = PathOf(u, UndoOf(u)[at[u]])
  BY <1>2, Zenon
<1>4. disk' = [disk EXCEPT ![path] = backup[u][path]]
  BY <1>3, Zenon DEF UndoCopy, Write
<1>5. disk'[path] = backup[u][path] /\ \A p \in Paths : p # path => disk'[p] = disk[p]
  BY <1>4, Zenon DEF TypeInv, TypeOK, Disks
<1>6. at'[u] = at[u] + 1
  BY Zenon DEF UndoCopy, TypeInv, TypeOK
<1>7. QED
  BY <1>1, <1>2, <1>3, <1>5, <1>6, UndoInv, Zenon

(* A rollback that is done has restored everything.                        *)
LEMMA UndoDone ==
  ASSUME TypeInv, TransactionInv, NEW u \in Users, LeaveUndo(u)
  PROVE  \A p \in Paths \ {"lockPam"} : disk'[p] = backup[u][p]
<1>1. pc[u] = "undoing" /\ at[u] > Len(UndoOf(u)) /\ disk' = disk
  BY Zenon DEF LeaveUndo, machineVars
<1>2. /\ at[u] \in Nat
      /\ \A p \in Paths \ {"lockPam"} : disk[p] = backup[u][p] \/ Pending(u, p)
  BY <1>1, UndoFacts, Zenon
<1>3. Len(UndoOf(u)) \in Nat
  BY SMT DEF UndoOf, UndoOrder
<1>4. \A i \in 1..Len(UndoOf(u)) : ~(at[u] <= i)
  BY <1>1, <1>2, <1>3, SMT
<1>5. \A p : ~Pending(u, p)
  BY <1>1, <1>4, Zenon DEF Pending
<1>6. QED
  BY <1>1, <1>2, <1>5, Zenon

LEMMA LeaveUndoInv ==
  ASSUME TypeInv, TransactionInv, NEW u \in Users, LeaveUndo(u)
  PROVE  TransactionInv'
<1>1. pc[u] = "undoing" /\ TypeOK
  BY Zenon DEF LeaveUndo, TypeInv
<1>2. pc'[u] = "failed" /\ \A v \in Users \ {u} : pc'[v] = pc[v]
  BY <1>1, GoToFrame, Zenon DEF LeaveUndo
<1>3. \A v \in Users \ {u} : pc[v] \notin InRoot
  BY <1>1, Zenon DEF TypeInv, LockHeld, InRoot
<1>4. \A v \in Users : pc'[v] \notin InRoot
  <2>1. pc'[u] \notin InRoot
    BY <1>2, SMT DEF InRoot
  <2>2. QED
    BY <1>2, <1>3, <2>1, Zenon
<1>5. Safe(disk')
  <2>1. Safe(backup[u])
    BY <1>1, UndoFacts, Zenon
  <2>2. \A q \in Artifacts \cup {"sudo"} : q \in Paths \ {"lockPam"}
    BY SMT DEF Paths, SharedPaths, Artifacts
  <2>3. \A q \in Artifacts \cup {"sudo"} : disk'[q] = backup[u][q]
    BY <2>2, UndoDone, Zenon
  <2>4. QED
    BY <2>1, <2>3, Zenon DEF Safe, Usable
<1>6. QED
  BY <1>4, <1>5, AllOutside, Zenon

LEMMA BeginInstallInv ==
  ASSUME TypeInv, TransactionInv, NEW u \in Users, BeginInstall(u)
  PROVE  TransactionInv'
<1>1. /\ TypeOK /\ pc[u] = "idle" /\ UNCHANGED <<lock, at, backup>>
      /\ pc'[u] = "reading" /\ \A v \in Users \ {u} : pc'[v] = pc[v] /\ plan'[v] = plan[v]
  <2>1. TypeOK
    BY DEF TypeInv
  <2>2. QED
    BY <2>1, GoToFrame, PlanFrame, Zenon DEF BeginInstall, MayBegin, rootVars
<1>2. pc[u] # "undoing" /\ pc'[u] \notin InRoot /\ pc[u] \notin InRoot
  BY <1>1, SMT DEF InRoot
<1>3. CASE UNCHANGED disk
  BY <1>1, <1>2, <1>3, Outside, Zenon
<1>4. CASE lock = Nobody /\ Write("sudo", "gaze")
  <2>1. \A v \in Users : pc[v] \notin InRoot
    BY <1>4, SystemTransactionAssumption, Zenon DEF TypeInv, LockHeld
  <2>2. \A v \in Users : pc'[v] \notin InRoot
    BY <1>1, <1>2, <2>1, Zenon
  <2>3. disk'["sudo"] = "gaze"
    BY <1>4, <1>1, SMT DEF Write, TypeOK, Disks, Paths, SharedPaths
  <2>4. Safe(disk')
    BY <2>3, SMT DEF Safe, Usable
  <2>5. QED
    BY <2>2, <2>4, AllOutside, Zenon
<1>5. QED
  BY <1>3, <1>4, Zenon DEF BeginInstall

(* The lock screen's PAM service is no business of sudo's.                 *)
LEMMA LockPamInv ==
  ASSUME TypeInv, TransactionInv, NEW c, Write("lockPam", c),
         UNCHANGED <<pc, plan, at, backup>>
  PROVE  TransactionInv'
<1>1. \A p \in Paths \ {"lockPam"} : disk'[p] = disk[p]
  BY Zenon DEF Write, TypeInv, TypeOK, Disks
<1>2. \A q \in Artifacts \cup {"sudo"} : disk'[q] = disk[q]
  <2>1. \A q \in Artifacts \cup {"sudo"} : q \in Paths \ {"lockPam"}
    BY SMT DEF Paths, SharedPaths, Artifacts
  <2>2. QED
    BY <1>1, <2>1, Zenon
<1>3. SnapshotSafe'
  BY Zenon DEF TransactionInv, SnapshotSafe, Safe, Usable
<1>4. \A k \in 1..4 : InstallOrder[k] \in Artifacts
  BY SMT DEF InstallOrder, Artifacts
<1>5. HookIsLast'
  BY <1>2, <1>4, Zenon DEF TransactionInv, HookIsLast, InstallOrder
<1>6. HookIsFirst'
  BY <1>2, Zenon DEF TransactionInv, HookIsFirst
<1>7. OthersUntouched'
  <2> SUFFICES ASSUME NEW v \in Users, pc'[v] \in InRoot, NEW p \in Paths \ {"lockPam"}
               PROVE  disk'[p] = backup'[v][p] \/ Pending(v, p)'
    BY Zenon DEF OthersUntouched, Paths, SharedPaths, Artifacts, Receipts, Entries, InRoot
  <2>1. disk[p] = backup[v][p] \/ Pending(v, p)
    BY Zenon DEF TransactionInv, OthersUntouched
  <2>2. Pending(v, p) => Pending(v, p)'
    BY PendingSame, Zenon
  <2>3. QED
    BY <1>1, <2>1, <2>2, Zenon
<1>8. SudoSafe'
  BY <1>2, Zenon DEF TransactionInv, SudoSafe, Safe, Usable, RollingBack
<1>9. QED
  BY <1>3, <1>5, <1>6, <1>7, <1>8 DEF TransactionInv

LEMMA ReplacedInv ==
  ASSUME TypeInv, TransactionInv, NEW path \in Replaceable, Replaced(path)
  PROVE  TransactionInv'
<1>1. \A v \in Users : pc[v] = "idle" /\ pc'[v] = "idle"
  BY Zenon DEF Replaced
<1>2. \A v \in Users : pc[v] \notin InRoot /\ pc'[v] \notin InRoot /\ pc[v] # "undoing"
  BY <1>1, SMT DEF InRoot
<1>3. Safe(disk)
  BY <1>2, Zenon DEF TransactionInv, SudoSafe, RollingBack
<1>4. path \in Artifacts /\ path # "sudo"
  BY SystemTransactionAssumption, SMT DEF Artifacts
<1>5. /\ disk'[path] # "absent"
      /\ \A p \in Paths : p # path => disk'[p] = disk[p]
  <2>1. path \in Paths
    BY <1>4, Zenon DEF Paths, SharedPaths
  <2>2. disk' = [disk EXCEPT ![path] = "foreign"]
    BY Zenon DEF Replaced, Write
  <2>3. disk'[path] = "foreign" /\ \A p \in Paths : p # path => disk'[p] = disk[p]
    BY <2>1, <2>2, Zenon DEF TypeInv, TypeOK, Disks
  <2>4. QED
    BY <2>3, SMT
<1>6. Safe(disk')
  <2>1. "sudo" \in Paths /\ Artifacts \subseteq Paths
    BY SMT DEF Paths, SharedPaths
  <2>2. QED
    BY <1>3, <1>4, <1>5, <2>1, Zenon DEF Safe, Usable
<1>7. QED
  BY <1>2, <1>6, AllOutside, Zenon

(* Every step that is neither in a root part nor within a rollback.        *)
LEMMA CommandPartInv ==
  ASSUME TypeInv, TransactionInv, NEW u \in Users,
         \/ ReadReceipts(u) \/ BeginRemove(u) \/ EnterRoot(u) \/ FinishFailed(u)
         \/ RemovePackages(u) \/ RemoveDirectories(u) \/ Commit(u) \/ Crash(u)
  PROVE  TransactionInv'
<1>0. TypeOK
  BY DEF TypeInv
<1> DEFINE Frame ==
      /\ pc[u] # "undoing" \/ "tear" \in Faults
      /\ pc'[u] \notin InRoot /\ disk' = disk
      /\ \A v \in Users \ {u} : /\ pc'[v] = pc[v] /\ plan'[v] = plan[v]
                                /\ at'[v] = at[v] /\ backup'[v] = backup[v]
<1>1. ASSUME ReadReceipts(u) PROVE Frame
  <2>1. pc[u] = "reading" /\ disk' = disk
    BY <1>1, Zenon DEF ReadReceipts, machineVars
  <2>2. pc'[u] \in {"asking"} /\ \A v \in Users \ {u} : pc'[v] = pc[v]
    BY <1>0, <1>1, GoToFrame, Zenon DEF ReadReceipts
  <2>3. \A v \in Users \ {u} : plan'[v] = plan[v]
    BY <1>0, <1>1, PlanFrame, Zenon DEF ReadReceipts
  <2>4. \A v \in Users \ {u} : at'[v] = at[v] /\ backup'[v] = backup[v]
    BY <1>0, <1>1, Zenon DEF ReadReceipts, rootVars
  <2>5. pc'[u] \notin InRoot /\ pc[u] # "undoing"
    BY <2>1, <2>2, SMT DEF InRoot
  <2>6. QED
    BY <2>1, <2>2, <2>3, <2>4, <2>5, Zenon
<1>2. ASSUME BeginRemove(u) PROVE Frame
  <2>1. pc[u] = "idle" /\ disk' = disk
    BY <1>2, Zenon DEF BeginRemove, MayBegin, machineVars
  <2>2. pc'[u] \in {"asking"} /\ \A v \in Users \ {u} : pc'[v] = pc[v]
    BY <1>0, <1>2, GoToFrame, Zenon DEF BeginRemove
  <2>3. \A v \in Users \ {u} : plan'[v] = plan[v]
    BY <1>0, <1>2, PlanFrame, Zenon DEF BeginRemove
  <2>4. \A v \in Users \ {u} : at'[v] = at[v] /\ backup'[v] = backup[v]
    BY <1>0, <1>2, Zenon DEF BeginRemove, rootVars
  <2>5. pc'[u] \notin InRoot /\ pc[u] # "undoing"
    BY <2>1, <2>2, SMT DEF InRoot
  <2>6. QED
    BY <2>1, <2>2, <2>3, <2>4, <2>5, Zenon
<1>3. ASSUME EnterRoot(u) PROVE Frame
  <2>1. pc[u] = "asking" /\ disk' = disk
    BY <1>3, Zenon DEF EnterRoot, machineVars
  <2>2. pc'[u] \in {"blocked", "failed"} /\ \A v \in Users \ {u} : pc'[v] = pc[v]
    BY <1>0, <1>3, GoToFrame, Zenon DEF EnterRoot
  <2>3. \A v \in Users \ {u} : plan'[v] = plan[v]
    BY <1>0, <1>3, GoToFrame, Zenon DEF EnterRoot
  <2>4. \A v \in Users \ {u} : at'[v] = at[v] /\ backup'[v] = backup[v]
    BY <1>0, <1>3, Zenon DEF EnterRoot, rootVars
  <2>5. pc'[u] \notin InRoot /\ pc[u] # "undoing"
    BY <2>1, <2>2, SMT DEF InRoot
  <2>6. QED
    BY <2>1, <2>2, <2>3, <2>4, <2>5, Zenon
<1>4. ASSUME FinishFailed(u) PROVE Frame
  <2>1. pc[u] = "failed" /\ disk' = disk
    BY <1>4, Zenon DEF FinishFailed, machineVars
  <2>2. pc'[u] \in {"idle"} /\ \A v \in Users \ {u} : pc'[v] = pc[v]
    BY <1>0, <1>4, EndFrame, Zenon DEF FinishFailed
  <2>3. \A v \in Users \ {u} : plan'[v] = plan[v]
    BY <1>0, <1>4, EndFrame, Zenon DEF FinishFailed
  <2>4. \A v \in Users \ {u} : at'[v] = at[v] /\ backup'[v] = backup[v]
    BY <1>0, <1>4, Zenon DEF FinishFailed, rootVars
  <2>5. pc'[u] \notin InRoot /\ pc[u] # "undoing"
    BY <2>1, <2>2, SMT DEF InRoot
  <2>6. QED
    BY <2>1, <2>2, <2>3, <2>4, <2>5, Zenon
<1>5. ASSUME RemovePackages(u) PROVE Frame
  <2>1. pc[u] = "packages" /\ disk' = disk
    BY <1>5, Zenon DEF RemovePackages, machineVars
  <2>2. pc'[u] \in {"tidy", "idle"} /\ \A v \in Users \ {u} : pc'[v] = pc[v]
    BY <1>0, <1>5, GoToFrame, EndFrame, Zenon DEF RemovePackages
  <2>3. \A v \in Users \ {u} : plan'[v] = plan[v]
    BY <1>0, <1>5, EndFrame, Zenon DEF RemovePackages
  <2>4. \A v \in Users \ {u} : at'[v] = at[v] /\ backup'[v] = backup[v]
    BY <1>0, <1>5, Zenon DEF RemovePackages, rootVars
  <2>5. pc'[u] \notin InRoot /\ pc[u] # "undoing"
    BY <2>1, <2>2, SMT DEF InRoot
  <2>6. QED
    BY <2>1, <2>2, <2>3, <2>4, <2>5, Zenon
<1>6. ASSUME RemoveDirectories(u) PROVE Frame
  <2>1. pc[u] = "tidy" /\ disk' = disk
    BY <1>6, Zenon DEF RemoveDirectories, machineVars
  <2>2. pc'[u] \in {"idle"} /\ \A v \in Users \ {u} : pc'[v] = pc[v]
    BY <1>0, <1>6, EndFrame, Zenon DEF RemoveDirectories
  <2>3. \A v \in Users \ {u} : plan'[v] = plan[v]
    BY <1>0, <1>6, EndFrame, Zenon DEF RemoveDirectories
  <2>4. \A v \in Users \ {u} : at'[v] = at[v] /\ backup'[v] = backup[v]
    BY <1>0, <1>6, Zenon DEF RemoveDirectories, rootVars
  <2>5. pc'[u] \notin InRoot /\ pc[u] # "undoing"
    BY <2>1, <2>2, SMT DEF InRoot
  <2>6. QED
    BY <2>1, <2>2, <2>3, <2>4, <2>5, Zenon
<1>7. ASSUME Commit(u) PROVE Frame
  <2>1. pc[u] = "active" /\ disk' = disk
    BY <1>7, Zenon DEF Commit, machineVars
  <2>2. pc'[u] \in {"idle", "packages"} /\ \A v \in Users \ {u} : pc'[v] = pc[v]
    BY <1>0, <1>7, EndFrame, GoToFrame, Zenon DEF Commit
  <2>3. \A v \in Users \ {u} : plan'[v] = plan[v]
    BY <1>0, <1>7, EndFrame, Zenon DEF Commit
  <2>4. \A v \in Users \ {u} : at'[v] = at[v] /\ backup'[v] = backup[v]
    BY <1>0, <1>7, RootEndsFrame, Zenon DEF Commit
  <2>5. pc'[u] \notin InRoot /\ pc[u] # "undoing"
    BY <2>1, <2>2, SMT DEF InRoot
  <2>6. QED
    BY <2>1, <2>2, <2>3, <2>4, <2>5, Zenon
<1>8. ASSUME Crash(u) PROVE Frame
  <2>1. (pc[u] # "undoing" \/ "tear" \in Faults) /\ disk' = disk
    BY <1>8, Zenon DEF Crash, machineVars
  <2>2. pc'[u] \in {"idle"} /\ \A v \in Users \ {u} : pc'[v] = pc[v]
    BY <1>0, <1>8, EndFrame, Zenon DEF Crash
  <2>3. \A v \in Users \ {u} : plan'[v] = plan[v]
    BY <1>0, <1>8, EndFrame, Zenon DEF Crash
  <2>4. \A v \in Users \ {u} : at'[v] = at[v] /\ backup'[v] = backup[v]
    BY <1>0, <1>8, RootEndsFrame, Zenon DEF Crash
  <2>5. pc'[u] \notin InRoot
    BY <2>2, SMT DEF InRoot
  <2>6. QED
    BY <2>1, <2>2, <2>3, <2>4, <2>5, Zenon
<1>9. Frame
  BY <1>1, <1>2, <1>3, <1>4, <1>5, <1>6, <1>7, <1>8, Zenon
<1>10. QED
  BY <1>9, Outside, Zenon

LEMMA TransactionNext ==
  ASSUME "lose" \notin Faults, TypeInv, TransactionInv, LockHeld', [Next]_vars
  PROVE  TransactionInv'
<1>1. ASSUME NEW u \in Users,
             \/ BeginInstall(u) \/ ReadReceipts(u) \/ BeginRemove(u) \/ EnterRoot(u)
             \/ Lock(u) \/ InstallNext(u) \/ RemoveNext(u) \/ Commit(u) \/ Fail(u)
             \/ UndoRemove(u) \/ UndoCopy(u) \/ LeaveUndo(u)
             \/ FinishFailed(u) \/ RemovePackages(u) \/ RemoveDirectories(u)
             \/ Crash(u)
      PROVE  TransactionInv'
  BY <1>1, CommandPartInv, BeginInstallInv, LockInv, InstallNextInv, RemoveNextInv, FailInv,
     UndoRemoveInv, UndoCopyInv, LeaveUndoInv, Zenon
<1>2. ASSUME NEW u \in Users, LockPamInstalled(u) PROVE TransactionInv'
  BY <1>2, LockPamInv, Zenon DEF LockPamInstalled, rootVars
<1>3. ASSUME LockPamRemoved PROVE TransactionInv'
  BY <1>3, LockPamInv, Zenon DEF LockPamRemoved, rootVars
<1>4. ASSUME NEW path \in Replaceable, Replaced(path) PROVE TransactionInv'
  BY <1>4, ReplacedInv, Zenon
<1>5. ASSUME UNCHANGED vars PROVE TransactionInv'
  <2>1. \A v \in Users : \A p : Pending(v, p)' <=> Pending(v, p)
    BY <1>5, PendingSame, Zenon DEF vars, rootVars
  <2>2. UNCHANGED <<disk, pc, plan, at, backup>>
    BY <1>5, Zenon DEF vars, machineVars, rootVars
  <2>3. OthersUntouched'
    BY <2>1, <2>2, Zenon DEF TransactionInv, OthersUntouched, Paths, SharedPaths, Artifacts,
       Receipts, Entries, InRoot
  <2>4. SnapshotSafe' /\ HookIsLast' /\ HookIsFirst' /\ SudoSafe'
    BY <2>2, Zenon DEF TransactionInv, SnapshotSafe, HookIsLast, HookIsFirst, SudoSafe,
       Usable, RollingBack, InstallOrder, InRoot
  <2>5. QED
    BY <2>3, <2>4 DEF TransactionInv
<1>6. QED
  BY <1>1, <1>2, <1>3, <1>4, <1>5, Zenon DEF Next

LEMMA InitTransaction ==
  ASSUME Init
  PROVE  TransactionInv
<1>1. \A v \in Users : pc[v] = "idle"
  BY Zenon DEF Init
<1>2. \A v \in Users : pc[v] \notin InRoot /\ pc[v] # "active"
  <2> SUFFICES ASSUME NEW v \in Users PROVE pc[v] \notin InRoot /\ pc[v] # "active"
    OBVIOUS
  <2>1. pc[v] = "idle"
    BY <1>1
  <2>2. QED
    BY <2>1, SMT DEF InRoot
<1>3. Safe(disk)
  <2>1. "sudo" \in Paths /\ \A q \in Artifacts : q \in Paths /\ q # "sudo"
    BY SMT DEF Paths, SharedPaths, Artifacts
  <2>2. disk["sudo"] = IF legacyStart THEN "hook" ELSE original
    BY <2>1, Zenon DEF Init
  <2>3. original = "plain" \/ original = "gaze"
    BY Zenon DEF Init
  <2>4. legacyStart => \A q \in Artifacts : disk[q] = "managed"
    BY <2>1, Zenon DEF Init
  <2>5. QED
    BY <2>2, <2>3, <2>4, SMT DEF Safe, Usable
<1>4. SnapshotSafe /\ OthersUntouched
  BY <1>2, Zenon DEF SnapshotSafe, OthersUntouched
<1>5. HookIsLast /\ HookIsFirst
  BY <1>2, Zenon DEF HookIsLast, HookIsFirst
<1>6. SudoSafe
  BY <1>3, Zenon DEF SudoSafe
<1>7. QED
  BY <1>4, <1>5, <1>6 DEF TransactionInv

(* Only LeaveUndo ends a rollback that is not killed.                      *)
LEMMA RestoreStep ==
  ASSUME TypeInv, TransactionInv, "tear" \notin Faults, [Next]_vars
  PROVE  \A u \in Users :
           pc[u] = "undoing" /\ pc'[u] # "undoing"
             => \A p \in Paths \ {"lockPam"} : disk'[p] = backup[u][p]
<1> SUFFICES ASSUME NEW u \in Users, pc[u] = "undoing", pc'[u] # "undoing"
             PROVE  \A p \in Paths \ {"lockPam"} : disk'[p] = backup[u][p]
  OBVIOUS
<1>0. TypeOK
  BY DEF TypeInv
<1>1. ~UNCHANGED pc
  BY Zenon
<1>2. ASSUME NEW v \in Users,
             \/ BeginInstall(v) \/ ReadReceipts(v) \/ BeginRemove(v) \/ EnterRoot(v)
             \/ Lock(v) \/ InstallNext(v) \/ RemoveNext(v) \/ Commit(v) \/ Fail(v)
             \/ UndoRemove(v) \/ UndoCopy(v)
             \/ FinishFailed(v) \/ RemovePackages(v) \/ RemoveDirectories(v)
             \/ Crash(v) \/ LockPamInstalled(v)
      PROVE  FALSE
  <2>1. CASE UNCHANGED pc
    BY <1>1, <2>1
  <2>2. CASE v = u /\ ~UNCHANGED pc
    <3>1. pc[v] = "undoing"
      BY <2>2
    <3>2. pc[v] \notin {"idle", "reading", "asking", "blocked", "active", "failed", "packages", "tidy"}
      BY <3>1, SMT
    <3>3. QED
      BY <1>2, <2>2, <3>1, <3>2, Zenon
         DEF BeginInstall, MayBegin, ReadReceipts, BeginRemove, EnterRoot, Lock, InstallNext,
             RemoveNext, Commit, Fail, UndoRemove, UndoCopy, FinishFailed, RemovePackages,
             RemoveDirectories, Crash, LockPamInstalled
  <2>3. CASE v # u /\ ~UNCHANGED pc
    <3>1. \/ CommandEnds(v)
          \/ \E label \in Labels : GoTo(v, label)
      BY <1>2, <2>3, Zenon
         DEF BeginInstall, ReadReceipts, BeginRemove, EnterRoot, Lock, InstallNext,
             RemoveNext, Commit, Fail, UndoRemove, UndoCopy, FinishFailed, RemovePackages,
             RemoveDirectories, Crash, LockPamInstalled, Labels
    <3>2. pc'[u] = pc[u]
      BY <1>0, <2>3, <3>1, EndFrame, GoToFrame, Zenon
    <3>3. QED
      BY <3>2, Zenon
  <2>4. QED
    BY <2>1, <2>2, <2>3
<1>3. ASSUME NEW v \in Users, LeaveUndo(v)
      PROVE  \A p \in Paths \ {"lockPam"} : disk'[p] = backup[u][p]
  <2>1. v = u
    <3>1. \A w \in Users \ {v} : pc'[w] = pc[w]
      BY <1>0, <1>3, GoToFrame, Zenon DEF LeaveUndo
    <3>2. QED
      BY <3>1, Zenon
  <2>2. QED
    BY <1>3, <2>1, UndoDone, Zenon
<1>4. ASSUME LockPamRemoved \/ (\E path \in Replaceable : Replaced(path)) \/ UNCHANGED vars
      PROVE  FALSE
  BY <1>1, <1>4, Zenon DEF LockPamRemoved, Replaced, vars
<1>5. QED
  BY <1>2, <1>3, <1>4, Zenon DEF Next

(* Whatever installs and uninstalls overlap, fail or are killed outside a  *)
(* rollback, sudo's PAM file and all that its hook refers to exist, if     *)
(* rollbacks copy back what they remove.                                   *)
THEOREM SudoStaysUsable ==
  ASSUME "tear" \notin Faults, "lose" \notin Faults
  PROVE  Spec => []SudoUsable
<1> DEFINE Inv == TypeInv /\ TransactionInv
<1>1. Init => Inv
  BY InitTypes, InitTransaction
<1>2. Inv /\ [Next]_vars => Inv'
  BY TypesNext, LockNext, ReceiptNext, TransactionNext DEF TypeInv
<1>3. Inv => SudoUsable
  BY DEF TransactionInv, SudoSafe, Safe, SudoUsable
<1>4. QED
  BY <1>1, <1>2, <1>3, PTL DEF Spec

(* Every rollback that is not killed, and whose copies succeed, has also   *)
(* removed what was not there and put the rest back as it was.             *)
THEOREM RollbackIsComplete ==
  ASSUME "tear" \notin Faults, "lose" \notin Faults
  PROVE  Spec => RollbackRestores
<1> DEFINE Inv == TypeInv /\ TransactionInv
<1>1. Init => Inv
  BY InitTypes, InitTransaction
<1>2. Inv /\ [Next]_vars => Inv'
  BY TypesNext, LockNext, ReceiptNext, TransactionNext DEF TypeInv
<1>3. Inv /\ [Next]_vars
        => [\A u \in Users :
              pc[u] = "undoing" /\ pc'[u] # "undoing"
                => \A p \in Paths \ {"lockPam"} : disk'[p] = backup[u][p]]_vars
  BY RestoreStep
<1>4. QED
  BY <1>1, <1>2, <1>3, PTL DEF Spec, RollbackRestores

-----------------------------------------------------------------------------
(* An installation older than the registry.                                *)

(* One command at a time changes its own part of the state.                *)
Frame(u) ==
  \A v \in Users \ {u} :
    pc'[v] = pc[v] /\ plan'[v] = plan[v] /\ at'[v] = at[v] /\ backup'[v] = backup[v]

LEMMA ActionFrame ==
  ASSUME TypeOK, NEW u \in Users,
         \/ BeginInstall(u) \/ ReadReceipts(u) \/ BeginRemove(u) \/ EnterRoot(u)
         \/ Lock(u) \/ InstallNext(u) \/ RemoveNext(u) \/ Commit(u) \/ Fail(u)
         \/ UndoRemove(u) \/ UndoCopy(u) \/ LeaveUndo(u)
         \/ FinishFailed(u) \/ RemovePackages(u) \/ RemoveDirectories(u)
         \/ Crash(u)
  PROVE  Frame(u)
<1> USE DEF Frame, rootVars
<1>1. CASE BeginInstall(u) \/ ReadReceipts(u) \/ BeginRemove(u)
  BY <1>1, GoToFrame, PlanFrame, Zenon DEF BeginInstall, ReadReceipts, BeginRemove
<1>2. CASE EnterRoot(u) \/ RemovePackages(u)
  BY <1>2, GoToFrame, EndFrame, Zenon DEF EnterRoot, RemovePackages
<1>3. CASE FinishFailed(u) \/ RemoveDirectories(u)
  BY <1>3, EndFrame, Zenon DEF FinishFailed, RemoveDirectories
<1>4. CASE LeaveUndo(u)
  BY <1>4, GoToFrame, RootEndsFrame, Zenon DEF LeaveUndo
<1>5. CASE Crash(u)
  BY <1>5, EndFrame, RootEndsFrame, Zenon DEF Crash
<1>6. CASE Commit(u)
  BY <1>6, EndFrame, GoToFrame, RootEndsFrame, Zenon DEF Commit
<1>7. CASE InstallNext(u) \/ RemoveNext(u)
  <2>1. \A v \in Users \ {u} : at'[v] = at[v]
    BY <1>7, Zenon DEF InstallNext, RemoveNext, TypeOK
  <2>2. UNCHANGED <<pc, plan, backup>>
    BY <1>7, Zenon DEF InstallNext, RemoveNext
  <2> QED
    BY <2>1, <2>2, Zenon
<1>8. CASE UndoRemove(u) \/ UndoCopy(u)
  <2>1. \A v \in Users \ {u} : at'[v] = at[v]
    BY <1>8, Zenon DEF UndoRemove, UndoCopy, TypeOK
  <2>2. UNCHANGED <<pc, plan, backup>>
    BY <1>8, Zenon DEF UndoRemove, UndoCopy
  <2> QED
    BY <2>1, <2>2, Zenon
<1>9. CASE Fail(u)
  <2>1. \A v \in Users \ {u} : at'[v] = at[v] /\ pc'[v] = pc[v]
    BY <1>9, GoToFrame, Zenon DEF Fail, TypeOK
  <2> QED
    BY <1>9, <2>1, Zenon DEF Fail
<1>10. CASE Lock(u)
  <2>1. \A v \in Users \ {u} : pc'[v] = pc[v] /\ at'[v] = at[v] /\ backup'[v] = backup[v]
    BY <1>10, GoToFrame, Zenon DEF Lock, TypeOK
  <2>2. \A v \in Users \ {u} : plan'[v] = plan[v]
    BY <1>10, PlanFrame, Zenon DEF Lock
  <2> QED
    BY <2>1, <2>2, Zenon
<1> QED
  BY <1>1, <1>2, <1>3, <1>4, <1>5, <1>6, <1>7, <1>8, <1>9, <1>10, Zenon

(* A command keeps its plan until it ends, but for the receipt's word,     *)
(* which it reads, and the mark of an old installation, set under the lock. *)
LEMMA PlanKept ==
  ASSUME TypeOK, NEW u \in Users,
         \/ ReadReceipts(u) \/ EnterRoot(u) \/ Lock(u) \/ InstallNext(u) \/ RemoveNext(u)
         \/ Fail(u) \/ UndoRemove(u) \/ UndoCopy(u) \/ LeaveUndo(u)
  PROVE  /\ plan'[u].kind = plan[u].kind /\ plan'[u].last = plan[u].last
         /\ plan'[u].ownsGaze = plan[u].ownsGaze
         /\ ~ReadReceipts(u) => plan'[u].integration = plan[u].integration
         /\ ~Lock(u) => plan'[u].legacy = plan[u].legacy
<1>0. plan[u] \in Plans /\ plan \in [Users -> Plans]
  BY Zenon DEF TypeOK
<1>1. CASE ReadReceipts(u)
  <2> DEFINE word == IF disk["receipt"] # "absent" THEN disk["receipt"]
                     ELSE IF disk["sudo"] = "gaze"
                               /\ ~(plan[u].ownsGaze \/ disk["gazeReceipt"] = "managed")
                          THEN "replaced" ELSE "added"
  <2>1. plan' = [plan EXCEPT ![u].integration = word]
    BY <1>1, Zenon DEF ReadReceipts
  <2> HIDE DEF word
  <2>2. plan'[u] = [plan[u] EXCEPT !.integration = word]
    BY <1>0, <2>1, Zenon
  <2>3. /\ [plan[u] EXCEPT !.integration = word].kind = plan[u].kind
        /\ [plan[u] EXCEPT !.integration = word].last = plan[u].last
        /\ [plan[u] EXCEPT !.integration = word].ownsGaze = plan[u].ownsGaze
        /\ [plan[u] EXCEPT !.integration = word].legacy = plan[u].legacy
    BY <1>0, SMT DEF Plans
  <2>4. ~Lock(u)
    <3>1. pc[u] = "reading"
      BY <1>1, Zenon DEF ReadReceipts
    <3> QED
      BY <3>1, SMT DEF Lock
  <2> QED
    BY <1>1, <2>2, <2>3, <2>4, Zenon
<1>2. CASE Lock(u)
  <2> DEFINE mark == /\ plan[u].kind = "install" /\ ~registryDir
                     /\ disk["receipt"] # "absent" \/ disk["sudo"] = "hook"
  <2>1. plan' = plan \/ plan' = [plan EXCEPT ![u].legacy = mark]
    BY <1>2, Zenon DEF Lock
  <2> HIDE DEF mark
  <2>2. plan'[u] = plan[u] \/ plan'[u] = [plan[u] EXCEPT !.legacy = mark]
    BY <1>0, <2>1, Zenon
  <2>3. /\ [plan[u] EXCEPT !.legacy = mark].kind = plan[u].kind
        /\ [plan[u] EXCEPT !.legacy = mark].last = plan[u].last
        /\ [plan[u] EXCEPT !.legacy = mark].ownsGaze = plan[u].ownsGaze
        /\ [plan[u] EXCEPT !.legacy = mark].integration = plan[u].integration
    BY <1>0, SMT DEF Plans
  <2> QED
    BY <1>2, <2>2, <2>3, Zenon
<1>3. CASE \/ EnterRoot(u) \/ InstallNext(u) \/ RemoveNext(u) \/ Fail(u) \/ UndoRemove(u)
           \/ UndoCopy(u) \/ LeaveUndo(u)
  BY <1>3, Zenon DEF EnterRoot, InstallNext, RemoveNext, Fail, UndoRemove, UndoCopy, LeaveUndo
<1> QED
  BY <1>1, <1>2, <1>3, Zenon

(* What a write leaves.                                                    *)
LEMMA WriteFrame ==
  ASSUME TypeOK, NEW path \in Paths, NEW c, Write(path, c)
  PROVE  disk'[path] = c /\ \A p \in Paths : p # path => disk'[p] = disk[p]
BY Zenon DEF TypeOK, Disks, Write

(* The names by which the installer goes through its files.                *)
LEMMA InstallEntries ==
  ASSUME NEW k \in 1..9
  PROVE  /\ InstallOrder[k] = "receipt" <=> k = 5
         /\ InstallOrder[k] = "entry" <=> k = 6
         /\ InstallOrder[k] = "legacy" <=> k = 7
         /\ InstallOrder[k] = "gazeReceipt" <=> k = 8
         /\ InstallOrder[k] = "sudo" <=> k = 9
         /\ InstallOrder[k] \in Artifacts <=> k <= 4
         /\ InstallOrder[k] # "lockPam"
BY SMT DEF InstallOrder, Artifacts

-----------------------------------------------------------------------------
(* An installation older than the registry, without failures: the mark it  *)
(* leaves in the registry keeps every uninstall from being the last.       *)

LegacyDisk == gaze /\ disk["sudo"] = "hook" /\ \A p \in Artifacts : disk[p] = "managed"

LegacyCommand(u) ==
  /\ pc[u] \notin {"undoing", "packages", "tidy"}
  /\ plan[u].kind = "remove" => ~plan[u].last
  /\ plan[u].kind = "install" => ~plan[u].ownsGaze
  /\ pc[u] = "active" /\ plan[u].kind = "install" =>
       /\ at[u] <= 6 => (plan[u].legacy <=> ~registryDir)
       /\ at[u] > 6 => disk[u] = "managed"

(* The installer has entered the first user and not yet the mark.          *)
Marking(u) ==
  /\ pc[u] = "active" /\ plan[u].kind = "install" /\ plan[u].legacy /\ at[u] = 7
  /\ \A v \in Users \ {u} : disk[v] = "absent"

RegistryMarked ==
  /\ \A u \in Users : disk[u] # "absent" => registryDir
  /\ registryDir => disk["legacy"] = "managed" \/ \E u \in Users : Marking(u)

LegacyInv == LegacyDisk /\ RegistryMarked /\ \A u \in Users : LegacyCommand(u)

(* A step that leaves the files and the registry alone.                    *)
LEMMA LegacySame ==
  ASSUME LegacyInv, NEW u \in Users, Frame(u), UNCHANGED <<disk, registryDir>>, gaze',
         ~Marking(u), LegacyCommand(u)'
  PROVE  LegacyInv'
<1>1. LegacyDisk'
  BY Zenon DEF LegacyInv, LegacyDisk
<1>2. \A v \in Users : LegacyCommand(v)'
  <2> SUFFICES ASSUME NEW v \in Users, v # u PROVE LegacyCommand(v)'
    OBVIOUS
  <2>1. pc'[v] = pc[v] /\ plan'[v] = plan[v] /\ at'[v] = at[v]
    BY Zenon DEF Frame
  <2> QED
    BY <2>1, Zenon DEF LegacyInv, LegacyCommand
<1>3. RegistryMarked'
  <2>1. ASSUME NEW v \in Users, Marking(v) PROVE Marking(v)'
    <3>1. pc'[v] = pc[v] /\ plan'[v] = plan[v] /\ at'[v] = at[v]
      BY <2>1, Zenon DEF Frame
    <3> QED
      BY <2>1, <3>1, Zenon DEF Marking
  <2> QED
    BY <2>1, Zenon DEF LegacyInv, RegistryMarked
<1> QED
  BY <1>1, <1>2, <1>3 DEF LegacyInv

(* The lock screen's PAM service has no part in it.                        *)
LEMMA LegacyPam ==
  ASSUME TypeOK, LegacyInv, NEW c, Write("lockPam", c),
         UNCHANGED <<registryDir, gaze, pc, plan, at>>
  PROVE  LegacyInv'
<1>1. "lockPam" \in Paths /\ {"sudo", "legacy"} \cup Artifacts \cup Users \subseteq Paths \ {"lockPam"}
  BY SystemTransactionAssumption, SMT DEF Paths, SharedPaths, Artifacts, Entries
<1>2. \A p \in {"sudo", "legacy"} \cup Artifacts \cup Users : disk'[p] = disk[p]
  BY <1>1, WriteFrame, Zenon
<1>3. LegacyDisk'
  BY <1>2, Zenon DEF LegacyInv, LegacyDisk
<1>4. RegistryMarked'
  <2>1. \A v \in Users : Marking(v) => Marking(v)'
    BY <1>2, Zenon DEF Marking
  <2> QED
    BY <1>2, <2>1, Zenon DEF LegacyInv, RegistryMarked
<1>5. \A v \in Users : LegacyCommand(v)'
  BY <1>2, Zenon DEF LegacyInv, LegacyCommand
<1> QED
  BY <1>3, <1>4, <1>5 DEF LegacyInv

LEMMA LegacyInstallNext ==
  ASSUME TypeInv, LegacyInv, NEW u \in Users, InstallNext(u)
  PROVE  LegacyInv'
<1>0. TypeOK /\ Frame(u)
  BY ActionFrame, Zenon DEF TypeInv
<1>1. /\ pc[u] = "active" /\ plan[u].kind = "install" /\ at[u] <= 9
      /\ UNCHANGED <<pc, plan, gaze>> /\ at' = [at EXCEPT ![u] = @ + 1]
      /\ LegacyCommand(u)
  BY InstallLength, Zenon DEF InstallNext, LegacyInv
<1>2. at[u] \in 1..9 /\ at'[u] = at[u] + 1
  <2>1. at[u] >= 1
    BY <1>1, Zenon DEF TypeInv, LockHeld, InRoot
  <2> QED
    BY <1>0, <1>1, <2>1, SMT DEF TypeOK
<1>3. PICK name \in Names : name = InstallOrder[at[u]]
  BY <1>2, InstallNames, Zenon
<1>4. PICK path \in Paths : path = PathOf(u, name)
  BY PathTyped, Zenon
<1>5. /\ name # "lockPam"
      /\ name = "entry" <=> at[u] = 6
      /\ name = "legacy" <=> at[u] = 7
  BY <1>2, <1>3, InstallEntries, Zenon
<1>6. /\ Applies(u, name) => disk'[path] = InstalledContent(u, name)
      /\ ~Applies(u, name) => disk'[path] = disk[path]
      /\ \A p \in Paths : p # path => disk'[p] = disk[p]
      /\ registryDir' = (registryDir \/ name = "entry")
  BY <1>0, <1>3, <1>4, WriteFrame, Zenon DEF InstallNext
<1>7. Users \cup Artifacts \cup {"sudo", "legacy"} \subseteq Paths
  BY Zenon DEF Paths, SharedPaths, Entries
<1>8. LegacyDisk'
  <2>1. disk'["sudo"] = "hook"
    <3>1. CASE path = "sudo"
      <4>1. name = "sudo"
        BY <1>4, <3>1, PathTyped, Zenon DEF SharedPaths
      <4>2. name # "legacy" /\ name # "gazeReceipt"
        BY <4>1
      <4>3. InstalledContent(u, name) = "hook" /\ Applies(u, name)
        BY <4>1, <4>2, Zenon DEF InstalledContent, Applies
      <4> QED
        BY <1>6, <3>1, <4>3, Zenon
    <3> QED
      BY <1>6, <1>7, <3>1, Zenon DEF LegacyInv, LegacyDisk
  <2>2. ASSUME NEW p \in Artifacts PROVE disk'[p] = "managed"
    <3>1. CASE path = p
      <4>1. name = p
        <5>1. p \in SharedPaths
          BY Zenon DEF SharedPaths
        <5>2. /\ name # "entry" => path = name
              /\ name = "entry" => path = u /\ u \notin SharedPaths
          BY <1>4, PathTyped, Zenon
        <5> QED
          BY <3>1, <5>1, <5>2
      <4>2. name \notin {"legacy", "gazeReceipt", "sudo", "receipt"}
        BY <4>1, SMT DEF Artifacts
      <4>3. InstalledContent(u, name) = "managed" /\ Applies(u, name)
        BY <4>2, Zenon DEF InstalledContent, Applies
      <4> QED
        BY <1>6, <3>1, <4>3, Zenon
    <3> QED
      BY <1>6, <1>7, <3>1, Zenon DEF LegacyInv, LegacyDisk
  <2> QED
    BY <1>1, <2>1, <2>2, Zenon DEF LegacyInv, LegacyDisk
<1>9. \A v \in Users \ {u} : disk'[v] = disk[v]
  <2> SUFFICES ASSUME NEW v \in Users \ {u} PROVE v # path
    BY <1>6, <1>7, Zenon
  <2>1. v \notin SharedPaths \cup {"legacy", "entry"}
    BY SystemTransactionAssumption, Zenon
  <2> QED
    BY <1>4, <2>1, Zenon DEF PathOf, Names
<1>10. name = "entry" => path = u /\ disk'[u] = "managed" /\ disk'["legacy"] = disk["legacy"]
  <2> SUFFICES ASSUME name = "entry" PROVE path = u /\ disk'[u] = "managed" /\ disk'["legacy"] = disk["legacy"]
    OBVIOUS
  <2>1. path = u /\ name \notin {"legacy", "gazeReceipt", "sudo", "receipt"}
    BY <1>4 DEF PathOf
  <2>2. InstalledContent(u, name) = "managed" /\ Applies(u, name)
    BY <2>1, Zenon DEF InstalledContent, Applies
  <2>3. u # "legacy"
    BY SystemTransactionAssumption, Zenon
  <2> QED
    BY <1>6, <1>7, <2>1, <2>2, <2>3, Zenon
<1>11. name # "entry" => disk'[u] = disk[u]
  <2>1. u \notin SharedPaths \cup {"legacy", "entry"}
    BY SystemTransactionAssumption, Zenon
  <2>2. name # "entry" => path # u
    BY <1>4, <2>1, Zenon DEF PathOf, Names
  <2> QED
    BY <1>6, <1>7, <2>2, Zenon
<1>12. disk["legacy"] = "managed" \/ (name = "legacy" /\ plan[u].legacy) => disk'["legacy"] = "managed"
  <2>1. CASE name = "legacy"
    <3>1. path = "legacy" /\ InstalledContent(u, name) = "managed"
      BY <1>4, <2>1, SMT DEF PathOf, InstalledContent
    <3>2. plan[u].legacy => Applies(u, name)
      BY <2>1, SMT DEF Applies
    <3> QED
      BY <1>6, <3>1, <3>2, Zenon
  <2>2. CASE name # "legacy"
    <3>1. u # "legacy"
      BY SystemTransactionAssumption, Zenon
    <3>2. path # "legacy"
      BY <1>4, <2>2, <3>1, Zenon DEF PathOf
    <3> QED
      BY <1>6, <1>7, <2>2, <3>2, Zenon
  <2> QED
    BY <2>1, <2>2
<1>13. LegacyCommand(u)'
  <2>1. plan[u].legacy \in BOOLEAN /\ registryDir \in BOOLEAN
    BY <1>0, SMT DEF TypeOK, Plans
  <2>2. pc'[u] = pc[u] /\ plan'[u] = plan[u]
    BY <1>1
  <2>3. at'[u] <= 6 => at[u] <= 6 /\ name # "entry"
    BY <1>2, <1>5, SMT
  <2>4. at'[u] > 6 => at[u] > 6 \/ name = "entry"
    BY <1>2, <1>5, SMT
  <2>5. name # "entry" => (registryDir' <=> registryDir)
    BY <1>6, <2>1, Zenon
  <2>6. at'[u] <= 6 => (plan[u].legacy <=> ~registryDir')
    BY <1>1, <2>3, <2>5, Zenon DEF LegacyCommand
  <2>7. at'[u] > 6 => disk'[u] = "managed"
    BY <1>1, <1>10, <1>11, <2>4, Zenon DEF LegacyCommand
  <2> QED
    BY <1>1, <2>2, <2>6, <2>7, Zenon DEF LegacyCommand
<1>14. ASSUME NEW v \in Users \ {u} PROVE LegacyCommand(v)'
  <2>1. pc[v] # "active"
    BY <1>1, Zenon DEF TypeInv, LockHeld, InRoot
  <2>2. pc'[v] = pc[v] /\ plan'[v] = plan[v]
    BY <1>1
  <2> QED
    BY <2>1, <2>2, Zenon DEF LegacyInv, LegacyCommand
<1>15. RegistryMarked'
  <2>1. \A v \in Users : disk'[v] # "absent" => registryDir'
    <3>1. disk'[u] # "absent" => registryDir'
      BY <1>6, <1>11, Zenon DEF LegacyInv, RegistryMarked
    <3>2. \A v \in Users \ {u} : disk'[v] # "absent" => registryDir'
      BY <1>6, <1>9, Zenon DEF LegacyInv, RegistryMarked
    <3> QED
      BY <3>1, <3>2, Zenon
  <2>2. ASSUME NEW v \in Users, Marking(v) PROVE v = u /\ at[u] = 7 /\ plan[u].legacy
    <3>1. v = u
      BY <1>1, <2>2, Zenon DEF TypeInv, LockHeld, InRoot, Marking
    <3> QED
      BY <2>2, <3>1, Zenon DEF Marking
  <2>3. CASE registryDir
    <3>1. disk["legacy"] = "managed" \/ (name = "legacy" /\ plan[u].legacy)
      BY <1>5, <2>2, <2>3, Zenon DEF LegacyInv, RegistryMarked
    <3> QED
      BY <1>12, <2>1, <3>1, Zenon DEF RegistryMarked
  <2>4. CASE ~registryDir /\ name = "entry"
    <3>1. at'[u] = 7 /\ at[u] <= 6
      BY <1>2, <1>5, <2>4, SMT
    <3>2. plan[u].legacy
      BY <1>1, <2>4, <3>1, Zenon DEF LegacyCommand
    <3>3. \A v \in Users \ {u} : disk'[v] = "absent"
      BY <1>9, <2>4, Zenon DEF LegacyInv, RegistryMarked
    <3>4. Marking(u)'
      BY <1>1, <3>1, <3>2, <3>3, Zenon DEF Marking
    <3> QED
      BY <2>1, <3>4, Zenon DEF RegistryMarked
  <2>5. CASE ~registryDir /\ name # "entry"
    BY <1>6, <2>1, <2>5, Zenon DEF RegistryMarked
  <2> QED
    BY <2>3, <2>4, <2>5
<1> QED
  BY <1>8, <1>13, <1>14, <1>15, Zenon DEF LegacyInv

LEMMA LegacyRemoveNext ==
  ASSUME TypeInv, LegacyInv, NEW u \in Users, RemoveNext(u)
  PROVE  LegacyInv'
<1>0. TypeOK /\ Frame(u)
  BY ActionFrame, Zenon DEF TypeInv
<1>1. /\ pc[u] = "active" /\ plan[u].kind = "remove" /\ ~plan[u].last
      /\ UNCHANGED <<pc, plan, gaze, registryDir>>
      /\ at[u] <= Len(RemovalOrder(plan[u].last))
  BY Zenon DEF RemoveNext, LegacyInv, LegacyCommand
<1>2. at[u] = 1
  <2>1. at[u] >= 1 /\ at[u] \in Nat
    BY <1>0, <1>1, Zenon DEF TypeInv, TypeOK, LockHeld, InRoot
  <2>2. RemovalOrder(plan[u].last) = <<"entry">>
    BY <1>1, Zenon DEF RemovalOrder
  <2> QED
    BY <1>1, <2>1, <2>2, SMT
<1>3. RemovalOrder(plan[u].last)[at[u]] = "entry"
  BY <1>1, <1>2, SMT DEF RemovalOrder
<1>4. Write(u, "absent")
  <2>1. /\ "entry" # "legacy" /\ "entry" # "gazeReceipt" /\ "entry" # "sudo"
    OBVIOUS
  <2>2. Applies(u, "entry") /\ PathOf(u, "entry") = u /\ RemovedContent(u, "entry") = "absent"
    BY <2>1, Zenon DEF Applies, PathOf, RemovedContent
  <2> QED
    BY <1>3, <2>2, Zenon DEF RemoveNext
<1>5. u \in Paths /\ u \notin Artifacts \cup {"sudo", "legacy"}
      /\ Artifacts \cup {"sudo", "legacy"} \cup Users \subseteq Paths
  BY SystemTransactionAssumption, Zenon DEF Paths, SharedPaths, Entries
<1>6. disk'[u] = "absent" /\ \A p \in Artifacts \cup {"sudo", "legacy"} \cup (Users \ {u}) : disk'[p] = disk[p]
  BY <1>0, <1>4, <1>5, WriteFrame, Zenon
<1>7. LegacyDisk'
  BY <1>1, <1>6, Zenon DEF LegacyInv, LegacyDisk
<1>8. \A v \in Users : ~Marking(v)
  <2> SUFFICES ASSUME NEW v \in Users, Marking(v) PROVE FALSE
    OBVIOUS
  <2>1. v = u
    BY <1>1, Zenon DEF TypeInv, LockHeld, InRoot, Marking
  <2> QED
    BY <1>1, <2>1, SMT DEF Marking
<1>9. RegistryMarked'
  BY <1>1, <1>6, <1>8, Zenon DEF LegacyInv, RegistryMarked
<1>10. ASSUME NEW v \in Users PROVE LegacyCommand(v)'
  <2>1. pc[v] = "active" => v = u
    BY <1>1, Zenon DEF TypeInv, LockHeld, InRoot
  <2>2. ~(pc[v] = "active" /\ plan[v].kind = "install")
    BY <1>1, <2>1, SMT
  <2>3. pc'[v] = pc[v] /\ plan'[v] = plan[v]
    BY <1>1
  <2> QED
    BY <2>2, <2>3, Zenon DEF LegacyInv, LegacyCommand
<1> QED
  BY <1>7, <1>9, <1>10, Zenon DEF LegacyInv

(* The steps of the user parts, of taking the lock and giving it back.     *)
LEMMA LegacyCommandStep ==
  ASSUME TypeInv, LegacyInv, "fail" \notin Faults, NEW u \in Users,
         \/ BeginInstall(u) \/ ReadReceipts(u) \/ BeginRemove(u) \/ EnterRoot(u)
         \/ Lock(u) \/ Commit(u) \/ FinishFailed(u)
  PROVE  LegacyInv'
<1>0. TypeOK /\ Frame(u) /\ LegacyCommand(u) /\ LegacyDisk
  BY ActionFrame, Zenon DEF TypeInv, LegacyInv
<1>1. CASE BeginInstall(u)
  <2> DEFINE r == [kind |-> "install", integration |-> "none", ownsGaze |-> ~gaze,
                   last |-> FALSE, legacy |-> FALSE]
  <2>1. /\ pc[u] = "idle" /\ pc'[u] = "reading" /\ plan' = [plan EXCEPT ![u] = r]
        /\ gaze' = TRUE /\ UNCHANGED <<disk, registryDir>>
    BY <1>0, <1>1, GoToFrame, Zenon DEF BeginInstall, MayBegin, LegacyDisk
  <2>2. r.kind = "install" /\ ~r.ownsGaze
    <3>1. gaze
      BY <1>0, Zenon DEF LegacyDisk
    <3> QED
      BY <3>1, Zenon
  <2>3. plan'[u].kind = "install" /\ ~plan'[u].ownsGaze
    <3> HIDE DEF r
    <3> QED
      BY <1>0, <2>1, <2>2, PlanFrame, Zenon
  <2>4. ~Marking(u) /\ LegacyCommand(u)'
    BY <2>1, <2>3, SMT DEF Marking, LegacyCommand
  <2> QED
    BY <1>0, <2>1, <2>4, LegacySame, Zenon
<1>2. CASE ReadReceipts(u) \/ EnterRoot(u)
  <2>1. /\ pc[u] \in {"reading", "asking"} /\ pc'[u] \in {"asking", "blocked", "failed"}
        /\ UNCHANGED <<disk, registryDir, gaze>>
    BY <1>0, <1>2, GoToFrame, Zenon DEF ReadReceipts, EnterRoot, machineVars
  <2>2. plan'[u].kind = plan[u].kind /\ plan'[u].last = plan[u].last
        /\ plan'[u].ownsGaze = plan[u].ownsGaze
    BY <1>0, <1>2, PlanKept, Zenon
  <2>3. ~Marking(u) /\ LegacyCommand(u)'
    BY <1>0, <2>1, <2>2, SMT DEF Marking, LegacyCommand
  <2> QED
    BY <1>0, <2>1, <2>3, LegacySame, Zenon DEF LegacyDisk
<1>3. CASE BeginRemove(u)
  <2> DEFINE r == [kind |-> "remove",
                   integration |-> IF disk["receipt"] = "absent" THEN "none" ELSE disk["receipt"],
                   ownsGaze |-> disk["gazeReceipt"] = "managed",
                   last |-> ~OthersRemain(u), legacy |-> FALSE]
  <2>1. /\ pc[u] = "idle" /\ pc'[u] = "asking" /\ plan' = [plan EXCEPT ![u] = r]
        /\ Registered(u) /\ UNCHANGED <<disk, registryDir, gaze>>
    BY <1>0, <1>3, GoToFrame, Zenon DEF BeginRemove, MayBegin, machineVars
  <2>2. disk["legacy"] = "managed"
    <3>1. disk[u] # "absent"
      BY <2>1, SMT DEF Registered
    <3>2. \A v \in Users : ~Marking(v)
      <4> SUFFICES ASSUME NEW v \in Users, Marking(v) PROVE FALSE
        OBVIOUS
      <4>1. v # u
        BY <2>1, SMT DEF Marking
      <4> QED
        BY <3>1, <4>1, Zenon DEF Marking
    <3> QED
      BY <3>1, <3>2, Zenon DEF LegacyInv, RegistryMarked
  <2>3. OthersRemain(u)
    <3>1. "legacy" \in Entries \ {u}
      BY SystemTransactionAssumption, Zenon DEF Entries
    <3>2. disk["legacy"] # "absent"
      BY <2>2
    <3> QED
      BY <3>1, <3>2, Zenon DEF OthersRemain
  <2>4. plan'[u].kind = "remove" /\ ~plan'[u].last
    <3>1. r.kind = "remove" /\ ~r.last
      BY <2>3, Zenon
    <3> HIDE DEF r
    <3> QED
      BY <1>0, <2>1, <3>1, PlanFrame, Zenon
  <2>5. ~Marking(u) /\ LegacyCommand(u)'
    BY <2>1, <2>4, SMT DEF Marking, LegacyCommand
  <2> QED
    BY <1>0, <2>1, <2>5, LegacySame, Zenon DEF LegacyDisk
<1>4. CASE FinishFailed(u)
  <2>1. /\ pc[u] = "failed" /\ pc'[u] = "idle" /\ plan'[u] = NoPlan
        /\ gaze' = gaze /\ UNCHANGED <<disk, registryDir>>
    <3>1. pc[u] = "failed" /\ UNCHANGED <<disk, registryDir>> /\ pc'[u] = "idle" /\ plan'[u] = NoPlan
      BY <1>0, <1>4, EndFrame, Zenon DEF FinishFailed, CommandEnds, TypeOK
    <3>2. gaze' = gaze
      BY <1>0, <1>4, Zenon DEF FinishFailed, LegacyCommand
    <3> QED
      BY <3>1, <3>2
  <2>2. ~Marking(u) /\ LegacyCommand(u)'
    BY <2>1, SMT DEF Marking, LegacyCommand, NoPlan
  <2> QED
    BY <1>0, <2>1, <2>2, LegacySame, Zenon DEF LegacyDisk
<1>5. CASE Commit(u)
  <2>1. /\ pc[u] = "active" /\ at[u] > Len(Order(u)) /\ UNCHANGED <<disk, registryDir, gaze>>
        /\ CommandEnds(u)
    BY <1>0, <1>5, Zenon DEF Commit, machineVars, LegacyCommand
  <2>2. pc'[u] = "idle" /\ plan'[u] = NoPlan
    BY <1>0, <2>1, EndFrame, Zenon DEF CommandEnds, TypeOK
  <2>3. ~Marking(u)
    <3> SUFFICES ASSUME Marking(u) PROVE FALSE
      OBVIOUS
    <3>1. Len(Order(u)) = 9 /\ at[u] = 7
      BY InstallLength, Zenon DEF Order, Marking
    <3> QED
      BY <2>1, <3>1, SMT
  <2>4. LegacyCommand(u)'
    BY <2>2, SMT DEF LegacyCommand, NoPlan
  <2> QED
    BY <1>0, <2>1, <2>3, <2>4, LegacySame, Zenon DEF LegacyDisk
<1>6. CASE Lock(u)
  <2>1. pc[u] = "blocked" /\ UNCHANGED <<disk, registryDir, gaze>>
    BY <1>6, Zenon DEF Lock, machineVars
  <2>2. Acceptable(u)
    <3>1. disk["sudo"] # "absent" /\ \A p \in Artifacts : disk[p] # "foreign"
      BY <1>0, SMT DEF LegacyDisk
    <3> QED
      BY <1>0, <3>1, Zenon DEF Acceptable, LegacyCommand
  <2> DEFINE mark == /\ plan[u].kind = "install" /\ ~registryDir
                     /\ disk["receipt"] # "absent" \/ disk["sudo"] = "hook"
  <2>3. /\ GoTo(u, "active") /\ at' = [at EXCEPT ![u] = 1]
        /\ plan' = [plan EXCEPT ![u].legacy = mark]
    BY <1>6, <2>2, Zenon DEF Lock
  <2>4. pc'[u] = "active" /\ at'[u] = 1
    BY <1>0, <2>3, GoToFrame, Zenon DEF TypeOK
  <2>5. plan'[u].kind = plan[u].kind /\ plan'[u].last = plan[u].last
        /\ plan'[u].ownsGaze = plan[u].ownsGaze
    BY <1>0, <1>6, PlanKept, Zenon
  <2>6. plan'[u].kind = "install" => (plan'[u].legacy <=> ~registryDir')
    <3>1. mark \in BOOLEAN /\ (plan[u].kind = "install" => (mark <=> ~registryDir))
      BY <1>0, Zenon DEF LegacyDisk
    <3> HIDE DEF mark
    <3>2. plan[u] \in Plans /\ plan'[u] = [plan[u] EXCEPT !.legacy = mark]
      BY <1>0, <2>3, Zenon DEF TypeOK
    <3>3. [plan[u] EXCEPT !.legacy = mark].legacy = mark
      BY <3>2, SMT DEF Plans
    <3> QED
      BY <2>1, <2>5, <3>1, <3>2, <3>3, Zenon
  <2>7. ~Marking(u) /\ LegacyCommand(u)'
    <3>1. ~Marking(u)
      BY <2>1, SMT DEF Marking
    <3>2. pc'[u] \notin {"undoing", "packages", "tidy"} /\ ~(at'[u] > 6)
      BY <2>4, SMT
    <3> QED
      BY <1>0, <2>5, <2>6, <3>1, <3>2, Zenon DEF LegacyCommand
  <2> QED
    BY <1>0, <2>1, <2>7, LegacySame, Zenon DEF LegacyDisk
<1> QED
  BY <1>1, <1>2, <1>3, <1>4, <1>5, <1>6, Zenon

LEMMA LegacyStart ==
  ASSUME Init, legacyStart
  PROVE  LegacyInv
<1>1. gaze
  BY Zenon DEF Init
<1>2. /\ "sudo" \in Paths /\ "legacy" \in Paths /\ Artifacts \subseteq Paths /\ Users \subseteq Paths
      /\ "sudo" \notin Artifacts
      /\ \A v \in Users : v \notin Artifacts \cup {"lockPam", "sudo", "receipt"}
  BY SystemTransactionAssumption, SMT DEF Paths, SharedPaths, Entries, Artifacts, Receipts
<1>3. disk["sudo"] = "hook" /\ \A p \in Artifacts : disk[p] = "managed"
  BY <1>2, Zenon DEF Init
<1>4. \A v \in Users : disk[v] = "absent"
  BY <1>2, Zenon DEF Init
<1>5. ~registryDir
  BY Zenon DEF Init
<1>6. ASSUME NEW u \in Users PROVE LegacyCommand(u)
  <2>1. pc[u] = "idle" /\ plan[u] = NoPlan
    BY Zenon DEF Init
  <2> QED
    BY <2>1, SMT DEF LegacyCommand, NoPlan
<1> QED
  BY <1>1, <1>3, <1>4, <1>5, <1>6, Zenon DEF LegacyInv, LegacyDisk, RegistryMarked

LEMMA LegacyStep ==
  ASSUME TypeInv, LegacyInv, "fail" \notin Faults, "crash" \notin Faults, Replaceable = {},
         [Next]_vars
  PROVE  LegacyInv'
<1>1. ASSUME NEW u \in Users,
             \/ BeginInstall(u) \/ ReadReceipts(u) \/ BeginRemove(u) \/ EnterRoot(u)
             \/ Lock(u) \/ InstallNext(u) \/ RemoveNext(u) \/ Commit(u) \/ FinishFailed(u)
      PROVE  LegacyInv'
  BY <1>1, LegacyCommandStep, LegacyInstallNext, LegacyRemoveNext, Zenon
<1>2. ASSUME NEW u \in Users,
             \/ UndoRemove(u) \/ UndoCopy(u) \/ LeaveUndo(u) \/ RemovePackages(u)
             \/ RemoveDirectories(u) \/ Crash(u)
      PROVE  FALSE
  <2>1. pc[u] \notin {"undoing", "packages", "tidy"}
    BY Zenon DEF LegacyInv, LegacyCommand
  <2> QED
    BY <1>2, <2>1, Zenon
       DEF UndoRemove, UndoCopy, LeaveUndo, RemovePackages, RemoveDirectories, Crash
<1>3. ASSUME NEW u \in Users, Fail(u) PROVE FALSE
  <2>1. pc[u] = "active" /\ at[u] > Len(Order(u)) /\ ~Valid(u)
    BY <1>3, Zenon DEF Fail
  <2>2. plan[u].kind = "install"
    BY <2>1, Zenon DEF Valid
  <2>3. Len(Order(u)) = 9
    BY <2>2, InstallLength, Zenon DEF Order
  <2>4. at[u] \in Nat
    BY Zenon DEF TypeInv, TypeOK
  <2>5. at[u] > 6
    BY <2>1, <2>3, <2>4, SMT
  <2>6. disk[u] = "managed" /\ LegacyDisk
    BY <2>1, <2>2, <2>5, Zenon DEF LegacyInv, LegacyCommand
  <2> QED
    BY <2>1, <2>6, Zenon DEF Valid, Registered, LegacyDisk
<1>4. ASSUME NEW u \in Users, LockPamInstalled(u) PROVE LegacyInv'
  BY <1>4, LegacyPam, Zenon DEF TypeInv, LockPamInstalled, rootVars
<1>5. ASSUME LockPamRemoved PROVE LegacyInv'
  BY <1>5, LegacyPam, Zenon DEF TypeInv, LockPamRemoved, rootVars
<1>6. ASSUME UNCHANGED vars PROVE LegacyInv'
  <2>1. UNCHANGED <<disk, registryDir, gaze, pc, plan, at>>
    BY <1>6, Zenon DEF vars, machineVars, rootVars
  <2>2. \A v \in Users : (LegacyCommand(v) => LegacyCommand(v)') /\ (Marking(v) => Marking(v)')
    BY <2>1, Zenon DEF LegacyCommand, Marking
  <2> QED
    BY <2>1, <2>2, Zenon DEF LegacyInv, LegacyDisk, RegistryMarked
<1> QED
  BY <1>1, <1>2, <1>3, <1>4, <1>5, <1>6, Zenon DEF Next

(* An installation older than the registry keeps its components, whatever  *)
(* installs and uninstalls of any users overlap, if no step fails, no      *)
(* command is killed and no foreign file appears.                          *)
THEOREM LegacyUsersKeepFaceID ==
  ASSUME "fail" \notin Faults, "crash" \notin Faults, Replaceable = {}
  PROVE  Spec => []LegacyIsKept
<1> DEFINE Inv == TypeInv /\ (legacyStart => LegacyInv)
<1>1. Init => Inv
  BY InitTypes, LegacyStart
<1>2. Inv /\ [Next]_vars => Inv'
  <2> SUFFICES ASSUME Inv, [Next]_vars PROVE Inv'
    OBVIOUS
  <2>1. legacyStart' = legacyStart
    <3>1. legacyStart' = legacyStart \/ UNCHANGED foundVars
      BY Zenon DEF Next, GazeRemoved, GazeLeft, vars, pastVars, BeginInstall, ReadReceipts, BeginRemove, EnterRoot, Lock,
         InstallNext, RemoveNext, Commit, Fail, UndoRemove, UndoCopy, LeaveUndo, FinishFailed,
         RemovePackages, RemoveDirectories, Crash, LockPamInstalled, LockPamRemoved, Replaced
    <3> QED
      BY <3>1, Zenon DEF foundVars
  <2> QED
    BY <2>1, TypesNext, LockNext, ReceiptNext, LegacyStep DEF TypeInv
<1>3. Inv => LegacyIsKept
  <2> SUFFICES ASSUME LegacyInv PROVE disk["sudo"] = "hook" /\ HookFilesPresent /\ gaze
    BY Zenon DEF LegacyIsKept
  <2>1. \A p \in Artifacts : disk[p] # "absent"
    BY SMT DEF LegacyInv, LegacyDisk
  <2> QED
    BY <2>1, Zenon DEF LegacyInv, LegacyDisk, HookFilesPresent
<1> QED
  BY <1>1, <1>2, <1>3, PTL DEF Spec

-----------------------------------------------------------------------------
(* What a complete command leaves, when commands do not overlap.           *)

Empty(d) == \A e \in Entries : d[e] = "absent"

(* Nothing was killed that is not repaired; nothing was killed at all, and *)
(* the machine has no installation older than the registry.                *)
Certain   == interrupted # "since"
Traceable == interrupted = "never" /\ ~legacyStart

(* With registered users all components are there and the receipts know    *)
(* how the machine was found; without, it is as it was found.              *)
FilesSound(d) ==
  /\ Certain => Empty(d) \/ (Complete(d) /\ gaze)
  /\ Traceable =>
       /\ hadGaze => gaze
       /\ d["sudo"] # "absent"
       /\ Empty(d) => Clear(d) /\ (hadGaze => d["sudo"] = original)
       /\ ~Empty(d) /\ hadGaze =>
            d["gazeReceipt"] = "absent" /\ (d["receipt"] = "replaced" <=> original = "gaze")
       /\ ~Empty(d) /\ ~hadGaze => d["gazeReceipt"] = "managed"

QuietSound == FilesSound(disk) /\ (Traceable /\ Empty(disk) => (gaze <=> hadGaze))

(* The files as a command found them.                                      *)
Base(u) == IF pc[u] \in InRoot THEN backup[u] ELSE disk

(* An install knows whether Gaze is Face ID's, and what its receipt says.  *)
InstallSound(u) ==
  plan[u].kind = "install" =>
    /\ gaze
    /\ Certain /\ plan[u].ownsGaze => Empty(Base(u))
    /\ Traceable =>
         /\ plan[u].ownsGaze => ~hadGaze
         /\ ~plan[u].ownsGaze => hadGaze \/ ~Empty(Base(u))
         /\ hadGaze /\ pc[u] # "reading"
              => (plan[u].integration = "replaced" <=> original = "gaze")

(* An uninstall knows who is registered and what the receipts say.         *)
RemovalSound(u) ==
  plan[u].kind = "remove" /\ pc[u] \notin {"packages", "tidy"} =>
    /\ Base(u)[u] = "managed"
    /\ plan[u].last <=> \A e \in Entries \ {u} : Base(u)[e] = "absent"
    /\ plan[u].ownsGaze <=> Base(u)["gazeReceipt"] = "managed"
    /\ Base(u)["receipt"] # "absent" => plan[u].integration = Base(u)["receipt"]

PlanSound(u) ==
  /\ plan[u].kind \in {"install", "remove"}
  /\ FilesSound(Base(u)) /\ InstallSound(u) /\ RemovalSound(u)

TidySound(u) ==
  pc[u] \in {"packages", "tidy"} =>
    /\ plan[u].kind = "remove" /\ Empty(disk)
    /\ Traceable => (plan[u].ownsGaze <=> ~hadGaze)
    /\ Traceable /\ pc[u] = "tidy" => (gaze <=> hadGaze)

(* What an install has written so far.                                     *)
InstallWritten(u) ==
  pc[u] = "active" /\ plan[u].kind = "install" =>
    /\ at[u] > 5 => disk["receipt"] = plan[u].integration
    /\ plan[u].ownsGaze /\ at[u] > 8 => disk["gazeReceipt"] = "managed"
    /\ ~plan[u].ownsGaze => disk["gazeReceipt"] = backup[u]["gazeReceipt"]

(* What sudo becomes without the hook.                                     *)
Unhooked(u) ==
  IF plan[u].integration = "replaced" /\ ~plan[u].ownsGaze THEN "gaze"
  ELSE IF backup[u]["sudo"] = "hook" THEN "plain" ELSE backup[u]["sudo"]

(* What an uninstall has removed so far.                                   *)
RemovalWritten(u) ==
  pc[u] = "active" /\ plan[u].kind = "remove" =>
    /\ at[u] > Len(RemovalOrder(plan[u].last)) => disk[u] = "absent"
    /\ plan[u].last =>
         /\ at[u] = 1 => disk["sudo"] = backup[u]["sudo"]
         /\ at[u] > 1 => disk["sudo"] = Unhooked(u)
         /\ \A k \in 2..6 : k < at[u] => disk[RemovalOrder(TRUE)[k]] = "absent"
         /\ at[u] > 8 /\ plan[u].ownsGaze => disk["gazeReceipt"] = "absent"
         /\ ~plan[u].ownsGaze => disk["gazeReceipt"] = backup[u]["gazeReceipt"]

CommandSound(u) ==
  PlanSound(u) /\ TidySound(u) /\ InstallWritten(u) /\ RemovalWritten(u)

Alone == \A u, v \in Users : pc[u] # "idle" /\ pc[v] # "idle" => u = v

MachineInv ==
  /\ Alone
  /\ Quiet => QuietSound
  /\ \A u \in Users : pc[u] # "idle" => CommandSound(u)

(* The lock screen's PAM service is none of these files.                   *)
OtherPaths == Paths \ {"lockPam"}

LEMMA SameFiles ==
  ASSUME NEW d, NEW e, \A p \in OtherPaths : d[p] = e[p]
  PROVE  /\ Empty(d) <=> Empty(e)
         /\ Complete(d) <=> Complete(e)
         /\ Clear(d) <=> Clear(e)
         /\ \A p \in Entries \cup Receipts \cup Artifacts \cup {"sudo"} : d[p] = e[p]
<1>1. Entries \cup Receipts \cup Artifacts \cup {"sudo"} \subseteq OtherPaths
  BY SystemTransactionAssumption, SMT
     DEF OtherPaths, Paths, SharedPaths, Entries, Artifacts, Receipts
<1>2. \A p \in Entries \cup Receipts \cup Artifacts \cup {"sudo"} : d[p] = e[p]
  BY <1>1, Zenon
<1>3. "receipt" \in Receipts
  BY Zenon DEF Receipts
<1> QED
  BY <1>2, <1>3, Zenon DEF Empty, Complete, Clear

(* The command of u is the only one, before and after its step.            *)
LEMMA OnlyCommand ==
  ASSUME TypeOK, ~Overlap, Alone, NEW u \in Users,
         \/ BeginInstall(u) \/ ReadReceipts(u) \/ BeginRemove(u) \/ EnterRoot(u)
         \/ Lock(u) \/ InstallNext(u) \/ RemoveNext(u) \/ Commit(u) \/ Fail(u)
         \/ UndoRemove(u) \/ UndoCopy(u) \/ LeaveUndo(u)
         \/ FinishFailed(u) \/ RemovePackages(u) \/ RemoveDirectories(u)
         \/ Crash(u)
  PROVE  /\ \A v \in Users \ {u} : pc[v] = "idle" /\ pc'[v] = "idle"
         /\ BeginInstall(u) \/ BeginRemove(u) => Quiet
<1>1. Frame(u)
  BY ActionFrame, Zenon
<1>2. CASE BeginInstall(u) \/ BeginRemove(u)
  BY <1>1, <1>2, Zenon DEF BeginInstall, BeginRemove, MayBegin, Frame, Quiet
<1>3. CASE pc[u] # "idle"
  BY <1>1, <1>3, Zenon DEF Alone, Frame, BeginInstall, BeginRemove, MayBegin
<1>4. CASE ~(BeginInstall(u) \/ BeginRemove(u))
  <2>1. pc[u] \in {"reading", "asking", "blocked", "active", "undoing", "failed", "packages", "tidy"}
        \/ pc[u] # "idle"
    BY <1>4, Zenon DEF ReadReceipts, EnterRoot, Lock, InstallNext, RemoveNext, Commit, Fail,
       UndoRemove, UndoCopy, LeaveUndo, FinishFailed, RemovePackages, RemoveDirectories, Crash
  <2>2. pc[u] # "idle"
    BY <2>1, SMT
  <2> QED
    BY <2>2, <1>3
<1> QED
  BY <1>2, <1>4

LEMMA MachineKept ==
  ASSUME NEW u \in Users, \A v \in Users \ {u} : pc'[v] = "idle",
         pc'[u] = "idle" => QuietSound', pc'[u] # "idle" => CommandSound(u)'
  PROVE  MachineInv'
<1>1. Alone'
  BY Zenon DEF Alone
<1>2. Quiet' => QuietSound'
  BY Zenon DEF Quiet
<1>3. \A v \in Users : pc'[v] # "idle" => CommandSound(v)'
  BY Zenon
<1> QED
  BY <1>1, <1>2, <1>3, Zenon DEF MachineInv

SamePlan(u) ==
  /\ plan'[u].kind = plan[u].kind /\ plan'[u].last = plan[u].last
  /\ plan'[u].ownsGaze = plan[u].ownsGaze /\ plan'[u].integration = plan[u].integration

LEMMA FilesKept ==
  ASSUME NEW u \in Users, FilesSound(Base(u)), \A p \in OtherPaths : Base(u)'[p] = Base(u)[p],
         UNCHANGED <<gaze, interrupted, foundVars>>
  PROVE  FilesSound(Base(u))'
<1>1. /\ Empty(Base(u)') <=> Empty(Base(u))
      /\ Complete(Base(u)') <=> Complete(Base(u))
      /\ Clear(Base(u)') <=> Clear(Base(u))
      /\ \A p \in Entries \cup Receipts \cup Artifacts \cup {"sudo"} : Base(u)'[p] = Base(u)[p]
  BY SameFiles
<1>2. "receipt" \in Receipts /\ "gazeReceipt" \in Receipts
  BY Zenon DEF Receipts
<1>3. /\ Base(u)'["sudo"] = Base(u)["sudo"] /\ Base(u)'["receipt"] = Base(u)["receipt"]
      /\ Base(u)'["gazeReceipt"] = Base(u)["gazeReceipt"]
  BY <1>1, <1>2, Zenon
<1>4. UNCHANGED <<legacyStart, hadGaze, original>>
  BY Zenon DEF foundVars
<1> HIDE DEF Base
<1> QED
  BY <1>1, <1>3, <1>4, SMT DEF FilesSound, Certain, Traceable

LEMMA PlanSoundKept ==
  ASSUME TypeOK, TypeOK', NEW u \in Users, PlanSound(u), SamePlan(u),
         \A p \in OtherPaths : Base(u)'[p] = Base(u)[p],
         UNCHANGED <<gaze, interrupted, foundVars>>,
         pc[u] \notin {"reading", "packages", "tidy"} \/ pc'[u] = pc[u]
  PROVE  PlanSound(u)'
<1>1. /\ Empty(Base(u)') <=> Empty(Base(u))
      /\ \A p \in Entries \cup Receipts \cup Artifacts \cup {"sudo"} : Base(u)'[p] = Base(u)[p]
  BY SameFiles
<1>2. "receipt" \in Receipts /\ "gazeReceipt" \in Receipts /\ u \in Entries
  BY Zenon DEF Receipts, Entries
<1>3. /\ Base(u)'[u] = Base(u)[u] /\ Base(u)'["receipt"] = Base(u)["receipt"]
      /\ Base(u)'["gazeReceipt"] = Base(u)["gazeReceipt"]
      /\ \A e \in Entries \ {u} : Base(u)'[e] = Base(u)[e]
  BY <1>1, <1>2, Zenon
<1>4. UNCHANGED <<legacyStart, hadGaze, original>>
  BY Zenon DEF foundVars
<1>5. FilesSound(Base(u))'
  BY FilesKept, Zenon DEF PlanSound
<1>6. InstallSound(u)'
  BY <1>1, <1>4, SMT DEF PlanSound, InstallSound, SamePlan, Certain, Traceable
<1>7. RemovalSound(u)'
  BY <1>3, SMT DEF PlanSound, RemovalSound, SamePlan
<1>8. plan'[u].kind \in {"install", "remove"}
  BY Zenon DEF PlanSound, SamePlan
<1> QED
  BY <1>5, <1>6, <1>7, <1>8, Zenon DEF PlanSound

(* The positions of a command at which it has written nothing.             *)
LEMMA PlanOnly ==
  ASSUME NEW u \in Users, PlanSound(u)', pc'[u] \in {"reading", "asking", "blocked", "undoing", "failed"}
  PROVE  CommandSound(u)'
<1>1. pc'[u] # "active" /\ pc'[u] \notin {"packages", "tidy"}
  BY SMT
<1> QED
  BY <1>1, Zenon DEF CommandSound, TidySound, InstallWritten, RemovalWritten

LEMMA MachineBeginInstall ==
  ASSUME TypeInv, TypeOK', QuietSound, NEW u \in Users, BeginInstall(u)
  PROVE  CommandSound(u)' /\ pc'[u] # "idle"
<1> DEFINE r == [kind |-> "install", integration |-> "none", ownsGaze |-> ~gaze,
                 last |-> FALSE, legacy |-> FALSE]
<1>0. TypeOK
  BY DEF TypeInv
<1>1. /\ pc'[u] = "reading" /\ plan' = [plan EXCEPT ![u] = r] /\ gaze' = TRUE
      /\ UNCHANGED <<interrupted, legacyStart, hadGaze, original>>
      /\ \/ UNCHANGED disk
         \/ ~gaze /\ disk["sudo"] = "plain" /\ Write("sudo", "gaze")
  BY <1>0, GoToFrame, Zenon DEF BeginInstall, pastVars, foundVars
<1>2. r.kind = "install" /\ (r.ownsGaze <=> ~gaze)
  BY Zenon
<1>3. plan'[u].kind = "install" /\ (plan'[u].ownsGaze <=> ~gaze)
  <2> HIDE DEF r
  <2> QED
    BY <1>0, <1>1, <1>2, PlanFrame, Zenon
<1>4. Base(u)' = disk'
  <2>1. pc'[u] \notin InRoot
    BY <1>1, SMT DEF InRoot
  <2> QED
    BY <2>1, Zenon DEF Base
<1>5. CASE UNCHANGED disk
  <2>1. FilesSound(Base(u))'
    BY <1>1, <1>4, <1>5, SMT DEF QuietSound, FilesSound, Certain, Traceable
  <2>2. InstallSound(u)'
    BY <1>1, <1>3, <1>4, <1>5, SMT DEF QuietSound, FilesSound, InstallSound, Certain, Traceable
  <2>3. PlanSound(u)'
    <3>1. plan'[u].kind # "remove"
      BY <1>3, SMT
    <3> QED
      BY <1>3, <2>1, <2>2, <3>1, Zenon DEF PlanSound, RemovalSound
  <2> QED
    BY <1>1, <2>3, PlanOnly, SMT
<1>6. CASE ~gaze /\ disk["sudo"] = "plain" /\ Write("sudo", "gaze")
  <2>1. /\ "sudo" \in Paths /\ Entries \cup Artifacts \cup Receipts \subseteq Paths
        /\ "sudo" \notin Entries \cup Artifacts \cup Receipts
    BY SystemTransactionAssumption, SMT DEF Paths, SharedPaths, Entries, Artifacts, Receipts
  <2>2. disk'["sudo"] = "gaze" /\ \A p \in Paths : p # "sudo" => disk'[p] = disk[p]
    BY <1>0, <1>6, <2>1, WriteFrame, Zenon
  <2>3. (Empty(disk') <=> Empty(disk)) /\ (Clear(disk) => Clear(disk'))
    <3>1. \A p \in Entries \cup Artifacts \cup Receipts : disk'[p] = disk[p]
      BY <2>1, <2>2, Zenon
    <3>2. disk'["sudo"] # "hook"
      BY <2>2, SMT
    <3> QED
      BY <3>1, <3>2, Zenon DEF Empty, Clear
  <2>4. Certain => Empty(disk)
    BY <1>6, Zenon DEF QuietSound, FilesSound
  <2>5. Traceable => ~hadGaze /\ Empty(disk) /\ Clear(disk)
    BY <1>6, <2>4, SMT DEF QuietSound, FilesSound, Certain, Traceable
  <2>9. disk'["sudo"] # "absent"
    BY <2>2, SMT
  <2>6. FilesSound(Base(u))'
    BY <1>1, <1>4, <2>3, <2>4, <2>5, <2>9, SMT DEF FilesSound, Certain, Traceable
  <2>7. InstallSound(u)'
    BY <1>1, <1>3, <1>4, <1>6, <2>3, <2>4, <2>5, SMT DEF InstallSound, Certain, Traceable
  <2>8. PlanSound(u)'
    <3>1. plan'[u].kind # "remove"
      BY <1>3, SMT
    <3> QED
      BY <1>3, <2>6, <2>7, <3>1, Zenon DEF PlanSound, RemovalSound
  <2> QED
    BY <1>1, <2>8, PlanOnly, SMT
<1> QED
  BY <1>1, <1>5, <1>6

LEMMA MachineReadReceipts ==
  ASSUME TypeInv, TypeOK', NEW u \in Users, CommandSound(u), ReadReceipts(u)
  PROVE  CommandSound(u)' /\ pc'[u] # "idle"
<1> DEFINE word == IF disk["receipt"] # "absent" THEN disk["receipt"]
                   ELSE IF disk["sudo"] = "gaze"
                             /\ ~(plan[u].ownsGaze \/ disk["gazeReceipt"] = "managed")
                        THEN "replaced" ELSE "added"
<1>0. TypeOK /\ plan[u] \in Plans
  BY Zenon DEF TypeInv, TypeOK
<1>1. /\ pc[u] = "reading" /\ pc'[u] = "asking" /\ plan' = [plan EXCEPT ![u].integration = word]
      /\ UNCHANGED <<disk, gaze, interrupted, foundVars>>
  BY <1>0, GoToFrame, Zenon DEF ReadReceipts, pastVars, machineVars
<1>2. Base(u) = disk /\ Base(u)' = disk /\ UNCHANGED <<legacyStart, hadGaze, original>>
  <2>1. pc[u] \notin InRoot /\ pc'[u] \notin InRoot
    BY <1>1, SMT DEF InRoot
  <2> QED
    BY <1>1, <2>1, Zenon DEF Base, foundVars
<1>3. /\ plan'[u].kind = plan[u].kind /\ plan'[u].last = plan[u].last
      /\ plan'[u].ownsGaze = plan[u].ownsGaze
  BY <1>0, PlanKept, Zenon
<1>4. plan'[u].integration = word
  <2> HIDE DEF word
  <2>1. plan'[u] = [plan[u] EXCEPT !.integration = word]
    BY <1>0, <1>1, Zenon DEF TypeOK
  <2> QED
    BY <1>0, <2>1, SMT DEF Plans
<1>5. FilesSound(Base(u))'
  <2>1. \A p \in OtherPaths : Base(u)'[p] = Base(u)[p]
    BY <1>2
  <2> QED
    BY <1>1, <2>1, FilesKept, Zenon DEF CommandSound, PlanSound
<1>6. Traceable /\ hadGaze /\ plan[u].kind = "install" => (word = "replaced" <=> original = "gaze")
  <2> SUFFICES ASSUME Traceable, hadGaze, plan[u].kind = "install"
               PROVE  word = "replaced" <=> original = "gaze"
    OBVIOUS
  <2>0. FilesSound(disk) /\ InstallSound(u) /\ Certain
    BY <1>2, SMT DEF CommandSound, PlanSound, Traceable, Certain
  <2>1. CASE disk["receipt"] # "absent"
    <3>1. ~Empty(disk)
      BY <2>0, <2>1, Zenon DEF FilesSound, Clear, Receipts
    <3> QED
      BY <2>0, <2>1, <3>1, Zenon DEF FilesSound
  <2>2. CASE disk["receipt"] = "absent"
    <3>1. Empty(disk) /\ Clear(disk) /\ disk["sudo"] = original
      BY <2>0, <2>2, Zenon DEF FilesSound, Complete
    <3>2. disk["gazeReceipt"] = "absent"
      BY <3>1, Zenon DEF Clear, Receipts
    <3>3. ~plan[u].ownsGaze
      BY <2>0, Zenon DEF InstallSound
    <3> QED
      BY <2>2, <3>1, <3>2, <3>3, SMT
  <2> QED
    BY <2>1, <2>2
<1>7. InstallSound(u)'
  <2> HIDE DEF word
  <2> QED
    BY <1>1, <1>2, <1>3, <1>4, <1>6, SMT DEF CommandSound, PlanSound, InstallSound, Certain, Traceable
<1>8. RemovalSound(u)'
  <2>1. disk["receipt"] # "absent" => word = disk["receipt"]
    OBVIOUS
  <2> HIDE DEF word
  <2>2. pc[u] \notin {"packages", "tidy"}
    BY <1>1, SMT
  <2> QED
    BY <1>2, <1>3, <1>4, <2>1, <2>2, SMT DEF CommandSound, PlanSound, RemovalSound
<1>9. PlanSound(u)'
  BY <1>3, <1>5, <1>7, <1>8, Zenon DEF CommandSound, PlanSound
<1> QED
  BY <1>1, <1>9, PlanOnly, SMT

LEMMA MachineBeginRemove ==
  ASSUME TypeInv, QuietSound, NEW u \in Users, BeginRemove(u)
  PROVE  CommandSound(u)' /\ pc'[u] # "idle"
<1> DEFINE r == [kind |-> "remove",
                 integration |-> IF disk["receipt"] = "absent" THEN "none" ELSE disk["receipt"],
                 ownsGaze |-> disk["gazeReceipt"] = "managed",
                 last |-> ~OthersRemain(u), legacy |-> FALSE]
<1>0. TypeOK
  BY DEF TypeInv
<1>1. /\ pc'[u] = "asking" /\ plan' = [plan EXCEPT ![u] = r] /\ disk[u] = "managed"
      /\ UNCHANGED <<disk, gaze, interrupted, foundVars>>
  BY <1>0, GoToFrame, Zenon DEF BeginRemove, Registered, pastVars, machineVars
<1>2. Base(u)' = disk /\ UNCHANGED <<legacyStart, hadGaze, original>>
  <2>1. pc'[u] \notin InRoot
    BY <1>1, SMT DEF InRoot
  <2> QED
    BY <1>1, <2>1, Zenon DEF Base, foundVars
<1>3. /\ r.kind = "remove" /\ (r.last <=> ~OthersRemain(u))
      /\ r.ownsGaze <=> disk["gazeReceipt"] = "managed"
      /\ disk["receipt"] # "absent" => r.integration = disk["receipt"]
  BY Zenon
<1>4. plan'[u] = r
  <2> HIDE DEF r
  <2> QED
    BY <1>0, <1>1, PlanFrame, Zenon
<1>5. ~OthersRemain(u) <=> \A e \in Entries \ {u} : disk[e] = "absent"
  BY Zenon DEF OthersRemain
<1> HIDE DEF r
<1>6. FilesSound(Base(u))'
  BY <1>1, <1>2, Zenon DEF QuietSound, FilesSound, Certain, Traceable
<1>7. RemovalSound(u)'
  BY <1>1, <1>2, <1>3, <1>4, <1>5, Zenon DEF RemovalSound
<1>8. InstallSound(u)' /\ plan'[u].kind \in {"install", "remove"}
  BY <1>3, <1>4, SMT DEF InstallSound
<1>9. PlanSound(u)'
  BY <1>6, <1>7, <1>8, Zenon DEF PlanSound
<1> QED
  BY <1>1, <1>9, PlanOnly, SMT

(* A step that leaves alone what the command has found.                    *)
LEMMA BaseSame ==
  ASSUME TypeInv, TransactionInv, NEW u \in Users,
         \/ EnterRoot(u) \/ Lock(u) \/ InstallNext(u) \/ RemoveNext(u) \/ Fail(u)
         \/ UndoRemove(u) \/ UndoCopy(u) \/ LeaveUndo(u)
  PROVE  \A p \in OtherPaths : Base(u)'[p] = Base(u)[p]
<1>0. TypeOK
  BY DEF TypeInv
<1>1. CASE EnterRoot(u)
  <2>1. pc[u] = "asking" /\ pc'[u] \in {"blocked", "failed"} /\ disk' = disk
    BY <1>0, <1>1, GoToFrame, Zenon DEF EnterRoot, machineVars
  <2>2. pc[u] \notin InRoot /\ pc'[u] \notin InRoot
    BY <2>1, SMT DEF InRoot
  <2> QED
    BY <2>1, <2>2, Zenon DEF Base
<1>2. CASE Lock(u)
  <2>1. pc[u] = "blocked" /\ disk' = disk
    BY <1>2, Zenon DEF Lock, machineVars
  <2>2. \/ backup'[u] = disk
        \/ pc'[u] = "failed"
    BY <1>0, <1>2, GoToFrame, Zenon DEF Lock, TypeOK
  <2>3. pc[u] \notin InRoot /\ "failed" \notin InRoot
    BY <2>1, SMT DEF InRoot
  <2> QED
    BY <2>1, <2>2, <2>3, Zenon DEF Base
<1>3. CASE InstallNext(u) \/ RemoveNext(u) \/ Fail(u) \/ UndoRemove(u) \/ UndoCopy(u)
  <2>1. /\ pc[u] \in {"active", "undoing"} /\ backup' = backup
        /\ pc'[u] = pc[u] \/ pc'[u] = "undoing"
    BY <1>0, <1>3, GoToFrame, Zenon DEF InstallNext, RemoveNext, Fail, UndoRemove, UndoCopy
  <2>2. pc[u] \in InRoot /\ pc'[u] \in InRoot
    BY <2>1, SMT DEF InRoot
  <2> QED
    BY <2>1, <2>2, Zenon DEF Base
<1>4. CASE LeaveUndo(u)
  <2>1. pc[u] = "undoing" /\ pc'[u] = "failed"
    BY <1>0, <1>4, GoToFrame, Zenon DEF LeaveUndo
  <2>2. pc[u] \in InRoot /\ pc'[u] \notin InRoot
    BY <2>1, SMT DEF InRoot
  <2>3. \A p \in Paths \ {"lockPam"} : disk'[p] = backup[u][p]
    BY <1>4, UndoDone, Zenon
  <2> QED
    BY <2>2, <2>3, Zenon DEF Base, OtherPaths
<1> QED
  BY <1>1, <1>2, <1>3, <1>4

LEMMA InsideSame ==
  ASSUME TypeInv, TypeOK', TransactionInv, NEW u \in Users, PlanSound(u),
         \/ EnterRoot(u) \/ Lock(u) \/ InstallNext(u) \/ RemoveNext(u) \/ Fail(u)
         \/ UndoRemove(u) \/ UndoCopy(u) \/ LeaveUndo(u)
  PROVE  PlanSound(u)'
<1>0. TypeOK
  BY DEF TypeInv
<1>1. SamePlan(u)
  <2>1. ~ReadReceipts(u)
    <3>1. pc[u] \in {"asking", "blocked", "active", "undoing"}
      BY Zenon DEF EnterRoot, Lock, InstallNext, RemoveNext, Fail, UndoRemove, UndoCopy, LeaveUndo
    <3> QED
      BY <3>1, SMT DEF ReadReceipts
  <2> QED
    BY <1>0, <2>1, PlanKept, Zenon DEF SamePlan
<1>2. UNCHANGED <<gaze, interrupted, foundVars>>
  BY Zenon DEF EnterRoot, Lock, InstallNext, RemoveNext, Fail, UndoRemove, UndoCopy, LeaveUndo,
     machineVars, pastVars
<1>3. pc[u] \notin {"reading", "packages", "tidy"}
  <2>1. pc[u] \in {"asking", "blocked", "active", "undoing"}
    BY Zenon DEF EnterRoot, Lock, InstallNext, RemoveNext, Fail, UndoRemove, UndoCopy, LeaveUndo
  <2> QED
    BY <2>1, SMT
<1>4. \A p \in OtherPaths : Base(u)'[p] = Base(u)[p]
  BY BaseSame, Zenon
<1> QED
  BY <1>0, <1>1, <1>2, <1>3, <1>4, PlanSoundKept, Zenon

LEMMA MachineUnwritten ==
  ASSUME TypeInv, TypeOK', TransactionInv, NEW u \in Users, CommandSound(u),
         EnterRoot(u) \/ Fail(u) \/ UndoRemove(u) \/ UndoCopy(u) \/ LeaveUndo(u)
  PROVE  CommandSound(u)' /\ pc'[u] # "idle"
<1>0. TypeOK
  BY DEF TypeInv
<1>1. PlanSound(u)'
  BY InsideSame, Zenon DEF CommandSound
<1>2. pc'[u] \in {"blocked", "undoing", "failed"}
  BY <1>0, GoToFrame, Zenon DEF EnterRoot, Fail, UndoRemove, UndoCopy, LeaveUndo
<1> QED
  BY <1>1, <1>2, PlanOnly, SMT

LEMMA MachineLock ==
  ASSUME TypeInv, TypeOK', TransactionInv, NEW u \in Users, CommandSound(u), Lock(u)
  PROVE  CommandSound(u)' /\ pc'[u] # "idle"
<1>0. TypeOK
  BY DEF TypeInv
<1>1. PlanSound(u)'
  BY InsideSame, Zenon DEF CommandSound
<1>2. pc'[u] \in {"active", "undoing", "failed"}
  BY <1>0, GoToFrame, Zenon DEF Lock
<1>3. CASE pc'[u] # "active"
  <2>1. pc'[u] \in {"undoing", "failed"}
    BY <1>2, <1>3
  <2> QED
    BY <1>1, <2>1, PlanOnly, SMT
<1>4. CASE pc'[u] = "active"
  <2>1. at'[u] = 1 /\ backup'[u] = disk /\ disk' = disk
    <3>1. "failed" # "active"
      OBVIOUS
    <3> QED
      BY <1>0, <1>4, <3>1, GoToFrame, Zenon DEF Lock, TypeOK, machineVars
  <2>2. TidySound(u)'
    BY <1>4, SMT DEF TidySound
  <2>3. InstallWritten(u)'
    BY <2>1, SMT DEF InstallWritten
  <2>4. RemovalWritten(u)'
    <3>1. plan'[u].last \in BOOLEAN
      BY SMT DEF TypeOK, Plans
    <3>2. /\ ~(at'[u] > Len(RemovalOrder(plan'[u].last))) /\ ~(at'[u] > 1) /\ ~(at'[u] > 8)
          /\ \A k \in 2..6 : ~(k < at'[u])
      BY <2>1, <3>1, SMT DEF RemovalOrder
    <3> QED
      BY <2>1, <3>2, Zenon DEF RemovalWritten
  <2>5. pc'[u] # "idle"
    BY <1>4, SMT
  <2> QED
    BY <1>1, <2>2, <2>3, <2>4, <2>5, Zenon DEF CommandSound
<1> QED
  BY <1>3, <1>4

LEMMA MachineInstallNext ==
  ASSUME TypeInv, TypeOK', TransactionInv, NEW u \in Users, CommandSound(u), InstallNext(u)
  PROVE  CommandSound(u)' /\ pc'[u] # "idle"
<1>0. TypeOK
  BY DEF TypeInv
<1>1. /\ pc[u] = "active" /\ plan[u].kind = "install" /\ at[u] <= 9
      /\ UNCHANGED <<pc, plan, backup>> /\ at' = [at EXCEPT ![u] = @ + 1]
  BY InstallLength, Zenon DEF InstallNext
<1>2. at[u] \in 1..9 /\ at'[u] = at[u] + 1
  <2>1. at[u] >= 1
    BY <1>1, Zenon DEF TypeInv, LockHeld, InRoot
  <2> QED
    BY <1>0, <1>1, <2>1, SMT DEF TypeOK
<1>3. PICK name \in Names : name = InstallOrder[at[u]]
  BY <1>2, InstallNames, Zenon
<1>4. PICK path \in Paths : path = PathOf(u, name)
  BY PathTyped, Zenon
<1>5. (name = "receipt" <=> at[u] = 5) /\ (name = "gazeReceipt" <=> at[u] = 8)
  BY <1>2, <1>3, InstallEntries, Zenon
<1>6. /\ Applies(u, name) => disk'[path] = InstalledContent(u, name)
      /\ ~Applies(u, name) => disk'[path] = disk[path]
      /\ \A p \in Paths : p # path => disk'[p] = disk[p]
  BY <1>0, <1>3, <1>4, WriteFrame, Zenon DEF InstallNext
<1>7. "receipt" \in Paths /\ "gazeReceipt" \in Paths
  BY Zenon DEF Paths, SharedPaths, Receipts
<1>8. (path = "receipt" <=> name = "receipt") /\ (path = "gazeReceipt" <=> name = "gazeReceipt")
  BY <1>4, PathTyped, Zenon DEF SharedPaths, Receipts
<1>9. name = "receipt" => disk'["receipt"] = plan[u].integration
  <2> SUFFICES ASSUME name = "receipt" PROVE disk'["receipt"] = plan[u].integration
    OBVIOUS
  <2>1. name # "legacy" /\ name # "gazeReceipt" /\ name # "sudo"
    OBVIOUS
  <2>2. Applies(u, name) /\ InstalledContent(u, name) = plan[u].integration
    BY <2>1, Zenon DEF Applies, InstalledContent
  <2> QED
    BY <1>6, <1>8, <2>2, Zenon
<1>10. name = "gazeReceipt" /\ plan[u].ownsGaze => disk'["gazeReceipt"] = "managed"
  <2> SUFFICES ASSUME name = "gazeReceipt", plan[u].ownsGaze PROVE disk'["gazeReceipt"] = "managed"
    OBVIOUS
  <2>1. name # "legacy" /\ name # "receipt" /\ name # "sudo"
    OBVIOUS
  <2>2. Applies(u, name) /\ InstalledContent(u, name) = "managed"
    BY <2>1, Zenon DEF Applies, InstalledContent
  <2> QED
    BY <1>6, <1>8, <2>2, Zenon
<1>11. ~plan[u].ownsGaze => disk'["gazeReceipt"] = disk["gazeReceipt"]
  <2>1. name = "gazeReceipt" /\ ~plan[u].ownsGaze => ~Applies(u, name)
    BY Zenon DEF Applies
  <2> QED
    BY <1>6, <1>7, <1>8, <2>1, Zenon
<1>12. InstallWritten(u)'
  <2>1. pc'[u] = pc[u] /\ plan'[u] = plan[u] /\ backup'[u] = backup[u]
    BY <1>1
  <2>2. at'[u] > 5 => disk'["receipt"] = plan[u].integration
    <3>1. at'[u] > 5 => at[u] > 5 \/ name = "receipt"
      BY <1>2, <1>5, SMT
    <3>2. at[u] > 5 => path # "receipt"
      BY <1>2, <1>5, <1>8, SMT
    <3> QED
      BY <1>1, <1>6, <1>7, <1>9, <3>1, <3>2, Zenon DEF CommandSound, InstallWritten
  <2>3. plan[u].ownsGaze /\ at'[u] > 8 => disk'["gazeReceipt"] = "managed"
    <3>1. at'[u] > 8 => at[u] > 8 \/ name = "gazeReceipt"
      BY <1>2, <1>5, SMT
    <3>2. at[u] > 8 => path # "gazeReceipt"
      BY <1>2, <1>5, <1>8, SMT
    <3> QED
      BY <1>1, <1>6, <1>7, <1>10, <3>1, <3>2, Zenon DEF CommandSound, InstallWritten
  <2> QED
    BY <1>1, <1>11, <2>1, <2>2, <2>3, Zenon DEF CommandSound, InstallWritten
<1>13. PlanSound(u)'
  BY InsideSame, Zenon DEF CommandSound
<1>14. TidySound(u)' /\ RemovalWritten(u)' /\ pc'[u] # "idle"
  <2>1. pc'[u] = "active" /\ plan'[u].kind = "install"
    BY <1>1
  <2>2. pc'[u] \notin {"packages", "tidy", "idle"} /\ plan'[u].kind # "remove"
    BY <2>1, SMT
  <2> QED
    BY <2>2, Zenon DEF TidySound, RemovalWritten
<1> QED
  BY <1>12, <1>13, <1>14, Zenon DEF CommandSound

LEMMA LastRemoval ==
  ASSUME NEW k \in 1..9
  PROVE  /\ RemovalOrder(TRUE)[k] = "sudo" <=> k = 1
         /\ RemovalOrder(TRUE)[k] = "gazeReceipt" <=> k = 8
         /\ RemovalOrder(TRUE)[k] = "entry" <=> k = 9
         /\ RemovalOrder(TRUE)[k] # "legacy"
         /\ RemovalOrder(TRUE)[k] \in Names
BY SMT DEF RemovalOrder, Names, SharedPaths, Artifacts, Receipts

LEMMA MachineRemoveNext ==
  ASSUME TypeInv, TypeOK', TransactionInv, NEW u \in Users, CommandSound(u), RemoveNext(u)
  PROVE  CommandSound(u)' /\ pc'[u] # "idle"
<1>0. TypeOK
  BY DEF TypeInv
<1>1. /\ pc[u] = "active" /\ plan[u].kind = "remove" /\ at[u] <= Len(RemovalOrder(plan[u].last))
      /\ UNCHANGED <<pc, plan, backup>> /\ at' = [at EXCEPT ![u] = @ + 1]
      /\ plan[u].last \in BOOLEAN
  BY <1>0, SMT DEF RemoveNext, TypeOK, Plans
<1>2. at[u] \in 1..Len(RemovalOrder(plan[u].last)) /\ at'[u] = at[u] + 1
  <2>1. at[u] >= 1
    BY <1>1, Zenon DEF TypeInv, LockHeld, InRoot
  <2>2. Len(RemovalOrder(plan[u].last)) \in Nat
    BY <1>1, SMT DEF RemovalOrder
  <2> QED
    BY <1>0, <1>1, <2>1, <2>2, SMT DEF TypeOK
<1>3. PICK name \in Names : name = RemovalOrder(plan[u].last)[at[u]]
  BY <1>1, <1>2, RemovalNames, Zenon
<1>4. PICK path \in Paths : path = PathOf(u, name)
  BY PathTyped, Zenon
<1>5. /\ Applies(u, name) => disk'[path] = RemovedContent(u, name)
      /\ ~Applies(u, name) => disk'[path] = disk[path]
      /\ \A p \in Paths : p # path => disk'[p] = disk[p]
  BY <1>0, <1>3, <1>4, WriteFrame, Zenon DEF RemoveNext
<1>6. /\ u \in Paths /\ u # "sudo"
      /\ path = "sudo" <=> name = "sudo"
      /\ path = "gazeReceipt" <=> name = "gazeReceipt"
      /\ path = u <=> name = "entry"
  <2>1. u \notin SharedPaths \cup {"legacy", "entry"} /\ u \in Paths
    BY SystemTransactionAssumption, Zenon DEF Paths, Entries
  <2> QED
    BY <1>4, <2>1, PathTyped, Zenon DEF SharedPaths, Receipts, Names, PathOf
<1>7. PlanSound(u)'
  BY InsideSame, Zenon DEF CommandSound
<1>8. TidySound(u)' /\ InstallWritten(u)' /\ pc'[u] # "idle"
  <2>1. pc'[u] = "active" /\ plan'[u].kind = "remove"
    BY <1>1
  <2>2. pc'[u] \notin {"packages", "tidy", "idle"} /\ plan'[u].kind # "install"
    BY <2>1, SMT
  <2> QED
    BY <2>2, Zenon DEF TidySound, InstallWritten
<1>9. \A p \in Paths : p # "sudo" => disk'[p] \in {disk[p], "absent"}
  <2>1. name # "sudo" => RemovedContent(u, name) = "absent"
    BY Zenon DEF RemovedContent
  <2> QED
    BY <1>5, <1>6, <2>1, Zenon
<1>10. name = "entry" => disk'[u] = "absent"
  <2> SUFFICES ASSUME name = "entry" PROVE disk'[u] = "absent"
    OBVIOUS
  <2>1. name # "legacy" /\ name # "gazeReceipt" /\ name # "sudo"
    OBVIOUS
  <2> QED
    BY <1>5, <1>6, <2>1, Zenon DEF Applies, RemovedContent
<1>11. at'[u] > Len(RemovalOrder(plan[u].last)) => disk'[u] = "absent"
  <2> SUFFICES ASSUME at'[u] > Len(RemovalOrder(plan[u].last)) PROVE name = "entry"
    BY <1>10
  <2>1. CASE plan[u].last
    <3>1. at[u] = 9
      BY <1>2, <2>1, SMT DEF RemovalOrder
    <3> QED
      BY <1>3, <2>1, <3>1, SMT DEF RemovalOrder
  <2>2. CASE ~plan[u].last
    <3>1. at[u] = 1
      BY <1>2, <2>2, SMT DEF RemovalOrder
    <3> QED
      BY <1>3, <2>2, <3>1, SMT DEF RemovalOrder
  <2> QED
    BY <2>1, <2>2
<1>12. CASE ~plan[u].last
  <2>1. RemovalWritten(u)'
    <3>1. plan'[u] = plan[u]
      BY <1>1
    <3> QED
      BY <1>11, <1>12, <3>1, Zenon DEF RemovalWritten
  <2> QED
    BY <1>7, <1>8, <2>1, Zenon DEF CommandSound
<1>13. CASE plan[u].last
  <2>0. plan[u].last = TRUE
    BY <1>1, <1>13
  <2>1. at[u] \in 1..9
    BY <1>2, <2>0, SMT DEF RemovalOrder
  <2>2. (name = "sudo" <=> at[u] = 1) /\ (name = "gazeReceipt" <=> at[u] = 8) /\ name # "legacy"
    BY <1>3, <2>0, <2>1, LastRemoval, Zenon
  <2>3. RemovalWritten(u)
    BY DEF CommandSound
  <2>4. "sudo" \in Paths /\ "gazeReceipt" \in Paths /\ "gazeReceipt" # "sudo"
    BY Zenon DEF Paths, SharedPaths, Receipts
  <2>5. disk'["sudo"] = Unhooked(u)
    <3>1. CASE at[u] = 1
      <4>1. name = "sudo" /\ name # "gazeReceipt" /\ disk["sudo"] = backup[u]["sudo"]
        BY <1>1, <1>13, <2>2, <2>3, <3>1, SMT DEF RemovalWritten
      <4>2. disk'["sudo"] = SudoRestored(u)
        BY <1>5, <1>6, <2>2, <4>1, Zenon DEF Applies, RemovedContent
      <4> QED
        BY <4>1, <4>2, Zenon DEF SudoRestored, Unhooked
    <3>2. CASE at[u] # 1
      <4>1. at[u] > 1
        BY <2>1, <3>2, SMT
      <4> QED
        BY <1>1, <1>5, <1>6, <1>13, <2>2, <2>3, <2>4, <3>2, <4>1, Zenon DEF RemovalWritten
    <3> QED
      BY <3>1, <3>2
  <2>6. \A k \in 2..6 : k < at'[u] => disk'[RemovalOrder(TRUE)[k]] = "absent"
    <3> SUFFICES ASSUME NEW k \in 2..6, k < at'[u] PROVE disk'[RemovalOrder(TRUE)[k]] = "absent"
      OBVIOUS
    <3>1. RemovalOrder(TRUE)[k] \in Paths /\ RemovalOrder(TRUE)[k] \notin {"sudo", "gazeReceipt", "legacy", "entry"}
      BY SMT DEF RemovalOrder, Paths, SharedPaths, Artifacts, Receipts
    <3>2. CASE k < at[u]
      BY <1>1, <1>9, <1>13, <2>3, <3>1, <3>2, Zenon DEF RemovalWritten
    <3>3. CASE k = at[u]
      <4>1. name = RemovalOrder(TRUE)[k] /\ name \notin {"sudo", "gazeReceipt", "legacy", "entry"}
        BY <1>3, <2>0, <3>1, <3>3, Zenon
      <4>2. path = name
        BY <1>4, <4>1, Zenon DEF PathOf
      <4> QED
        BY <1>5, <4>1, <4>2, Zenon DEF Applies, RemovedContent
    <3>4. k < at[u] \/ k = at[u]
      BY <1>2, <2>1, SMT
    <3> QED
      BY <3>2, <3>3, <3>4
  <2>7. at'[u] > 8 /\ plan[u].ownsGaze => disk'["gazeReceipt"] = "absent"
    <3> SUFFICES ASSUME at'[u] > 8, plan[u].ownsGaze PROVE disk'["gazeReceipt"] = "absent"
      OBVIOUS
    <3>1. CASE at[u] = 8
      <4>1. name = "gazeReceipt" /\ name # "legacy" /\ name # "sudo"
        BY <2>2, <3>1
      <4> QED
        BY <1>5, <1>6, <4>1, Zenon DEF Applies, RemovedContent
    <3>2. CASE at[u] # 8
      <4>1. at[u] > 8
        BY <1>2, <2>1, <3>2, SMT
      <4> QED
        BY <1>1, <1>9, <1>13, <2>3, <2>4, <4>1, Zenon DEF RemovalWritten
    <3> QED
      BY <3>1, <3>2
  <2>8. ~plan[u].ownsGaze => disk'["gazeReceipt"] = backup[u]["gazeReceipt"]
    <3>1. name = "gazeReceipt" /\ ~plan[u].ownsGaze => ~Applies(u, name)
      BY Zenon DEF Applies
    <3>2. ~plan[u].ownsGaze => disk'["gazeReceipt"] = disk["gazeReceipt"]
      BY <1>5, <1>6, <2>4, <3>1, Zenon
    <3> QED
      BY <1>1, <1>13, <2>3, <3>2, Zenon DEF RemovalWritten
  <2>9. Unhooked(u)' = Unhooked(u)
    BY <1>1, Zenon DEF Unhooked
  <2>10. at'[u] # 1 /\ plan'[u] = plan[u] /\ backup'[u] = backup[u]
    BY <1>1, <1>2, <2>1, SMT
  <2>11. RemovalWritten(u)'
    BY <1>11, <2>5, <2>6, <2>7, <2>8, <2>9, <2>10, Zenon DEF RemovalWritten
  <2> QED
    BY <1>7, <1>8, <2>11, Zenon DEF CommandSound
<1> QED
  BY <1>1, <1>12, <1>13, Zenon

(* An install that has been validated has put everything in its place.     *)
LEMMA InstallLeaves ==
  ASSUME TypeInv, TransactionInv, NEW u \in Users, CommandSound(u), Commit(u),
         plan[u].kind = "install"
  PROVE  /\ disk[u] = "managed" /\ disk["receipt"] = plan[u].integration /\ Complete(disk) /\ gaze
         /\ at[u] > 5 /\ at[u] > 7 /\ at[u] > 8
<1>0. TypeOK
  BY DEF TypeInv
<1>1. pc[u] = "active" /\ at[u] > 9 /\ at[u] \in Nat
  <2>1. Len(Order(u)) = 9
    BY InstallLength, Zenon DEF Order
  <2> QED
    BY <1>0, <2>1, Zenon DEF Commit, TypeOK
<1>2. disk["sudo"] = "hook" /\ disk[u] = "managed"
  BY Zenon DEF Commit, Valid, Registered
<1>3. \A p \in Artifacts : disk[p] # "absent"
  <2>1. \A k \in 1..4 : k < at[u]
    BY <1>1, SMT
  <2>2. \A k \in 1..4 : disk[InstallOrder[k]] # "absent"
    BY <1>1, <2>1, Zenon DEF TransactionInv, HookIsLast
  <2>3. \A p \in Artifacts : \E k \in 1..4 : p = InstallOrder[k]
    BY SMT DEF Artifacts, InstallOrder
  <2> QED
    BY <2>2, <2>3, Zenon
<1>4. InstallWritten(u) /\ PlanSound(u) /\ at[u] > 5 /\ at[u] > 7 /\ at[u] > 8
  BY <1>1, SMT DEF CommandSound
<1>5. disk["receipt"] = plan[u].integration
  BY <1>1, <1>4, Zenon DEF InstallWritten
<1>6. disk["receipt"] # "absent"
  <2>1. plan[u].integration \in {"none", "added", "replaced"}
    BY <1>0, SMT DEF TypeOK, Plans
  <2> QED
    BY <1>5, <2>1, SMT
<1>7. Complete(disk) /\ gaze
  BY <1>2, <1>3, <1>4, <1>6, Zenon DEF Complete, PlanSound, InstallSound
<1> QED
  BY <1>2, <1>4, <1>5, <1>7

LEMMA InstallCommits ==
  ASSUME TypeInv, TypeOK', TransactionInv, NEW u \in Users, CommandSound(u), Commit(u),
         plan[u].kind = "install"
  PROVE  pc'[u] = "idle" /\ QuietSound'
<1>0. TypeOK
  BY DEF TypeInv
<1>1. /\ pc[u] = "active" /\ disk' = disk /\ gaze' = gaze
      /\ UNCHANGED <<legacyStart, hadGaze, original>>
      /\ interrupted' = IF interrupted = "since" THEN "before" ELSE interrupted
  BY Zenon DEF Commit, machineVars, foundVars
<1>2. pc'[u] = "idle"
  <2>1. CommandEnds(u)
    BY Zenon DEF Commit
  <2> QED
    BY <1>0, <2>1, EndFrame, Zenon
<1>3. /\ disk["receipt"] = plan[u].integration /\ Complete(disk) /\ gaze /\ at[u] > 5 /\ at[u] > 8
      /\ disk[u] = "managed"
  BY InstallLeaves, Zenon
<1>4. ~Empty(disk)
  <2>1. u \in Entries /\ disk[u] # "absent"
    BY <1>3, SMT DEF Entries
  <2> QED
    BY <2>1, Zenon DEF Empty
<1>5. InstallWritten(u) /\ PlanSound(u)
  BY DEF CommandSound
<1>6. Traceable => /\ hadGaze => disk["gazeReceipt"] = "absent"
                   /\ ~hadGaze => disk["gazeReceipt"] = "managed"
                   /\ hadGaze => (disk["receipt"] = "replaced" <=> original = "gaze")
  <2> SUFFICES ASSUME Traceable
               PROVE  /\ hadGaze => disk["gazeReceipt"] = "absent"
                      /\ ~hadGaze => disk["gazeReceipt"] = "managed"
                      /\ hadGaze => (disk["receipt"] = "replaced" <=> original = "gaze")
    OBVIOUS
  <2>1. Base(u) = backup[u] /\ pc[u] # "reading"
    BY <1>1, SMT DEF Base, InRoot
  <2>2. InstallSound(u) /\ FilesSound(backup[u])
    BY <1>5, <2>1, Zenon DEF PlanSound
  <2>3. "gazeReceipt" \in Receipts
    BY Zenon DEF Receipts
  <2>4. hadGaze => disk["gazeReceipt"] = "absent"
    <3> SUFFICES ASSUME hadGaze PROVE disk["gazeReceipt"] = "absent"
      OBVIOUS
    <3>1. ~plan[u].ownsGaze
      BY <2>2, Zenon DEF InstallSound
    <3>2. disk["gazeReceipt"] = backup[u]["gazeReceipt"]
      BY <1>1, <1>3, <1>5, <3>1, Zenon DEF InstallWritten
    <3> QED
      BY <2>2, <2>3, <3>2, Zenon DEF FilesSound, Clear
  <2>5. ~hadGaze => disk["gazeReceipt"] = "managed"
    <3>1. CASE plan[u].ownsGaze
      BY <1>1, <1>3, <1>5, <3>1, Zenon DEF InstallWritten
    <3>2. CASE ~plan[u].ownsGaze /\ ~hadGaze
      <4>1. disk["gazeReceipt"] = backup[u]["gazeReceipt"]
        BY <1>1, <1>3, <1>5, <3>2, Zenon DEF InstallWritten
      <4>2. ~Empty(backup[u])
        BY <2>1, <2>2, <3>2, Zenon DEF InstallSound
      <4> QED
        BY <2>2, <3>2, <4>1, <4>2, Zenon DEF FilesSound
    <3> QED
      BY <3>1, <3>2
  <2>6. hadGaze => (disk["receipt"] = "replaced" <=> original = "gaze")
    BY <1>3, <2>1, <2>2, Zenon DEF InstallSound
  <2> QED
    BY <2>4, <2>5, <2>6
<1>7. Traceable' => Traceable
  BY <1>1, SMT DEF Traceable
<1>8. disk["sudo"] # "absent"
  BY <1>3, SMT DEF Complete
<1> QED
  BY <1>1, <1>2, <1>3, <1>4, <1>6, <1>7, <1>8, Zenon DEF QuietSound, FilesSound

(* An uninstall that is not the last changes its own registry entry only.  *)
LEMMA EntryOnly ==
  ASSUME TypeInv, TransactionInv, NEW u \in Users, pc[u] = "active",
         plan[u].kind = "remove", ~plan[u].last
  PROVE  \A p \in OtherPaths : p # u => disk[p] = backup[u][p]
<1>1. UndoOf(u) = <<"entry">>
  <2>1. plan[u].kind # "install"
    BY SMT
  <2> QED
    BY <2>1, Zenon DEF UndoOf, UndoOrder
<1>2. \A p : Pending(u, p) => p = u
  <2> SUFFICES ASSUME NEW p, Pending(u, p) PROVE p = u
    OBVIOUS
  <2>1. PICK i \in 1..Len(UndoOf(u)) : PathOf(u, UndoOf(u)[i]) = p
    BY Zenon DEF Pending
  <2>2. UndoOf(u)[i] = "entry"
    BY <1>1, SMT
  <2> QED
    BY <2>1, <2>2, Zenon DEF PathOf
<1> QED
  BY <1>2, ActiveFacts, Zenon DEF OtherPaths

(* An uninstall that is not the last leaves the others what they had.      *)
LEMMA RemovalLeaves ==
  ASSUME TypeInv, TransactionInv, NEW u \in Users, CommandSound(u), Commit(u),
         plan[u].kind = "remove", ~plan[u].last
  PROVE  /\ disk[u] = "absent" /\ \A p \in OtherPaths : p # u => disk[p] = backup[u][p]
         /\ ~Empty(backup[u]) /\ ~Empty(disk)
         /\ \A p \in Artifacts \cup Receipts \cup {"sudo"} : disk[p] = backup[u][p]
<1>1. pc[u] = "active"
  BY DEF Commit
<1>2. Base(u) = backup[u] /\ pc[u] \notin {"packages", "tidy"}
  BY <1>1, SMT DEF Base, InRoot
<1>3. RemovalSound(u)
  BY Zenon DEF CommandSound, PlanSound
<1>4. disk[u] = "absent"
  <2>1. at[u] > Len(RemovalOrder(plan[u].last))
    <3>1. plan[u].kind # "install"
      BY SMT
    <3> QED
      BY <3>1, Zenon DEF Commit, Order
  <2> QED
    BY <1>1, <2>1, Zenon DEF CommandSound, RemovalWritten
<1>5. \A p \in OtherPaths : p # u => disk[p] = backup[u][p]
  BY <1>1, EntryOnly, Zenon
<1>6. Entries \cup Artifacts \cup Receipts \cup {"sudo"} \subseteq OtherPaths
      /\ u \notin Artifacts \cup Receipts \cup {"sudo"} /\ u \in Entries
  BY SystemTransactionAssumption, SMT
     DEF OtherPaths, Paths, SharedPaths, Entries, Artifacts, Receipts
<1>7. \A p \in Artifacts \cup Receipts \cup {"sudo"} : disk[p] = backup[u][p]
  BY <1>5, <1>6, Zenon
<1>8. ~Empty(backup[u]) /\ ~Empty(disk)
  <2>1. PICK e \in Entries \ {u} : backup[u][e] # "absent"
    BY <1>2, <1>3, Zenon DEF RemovalSound
  <2>2. disk[e] # "absent"
    BY <1>5, <1>6, <2>1, Zenon
  <2> QED
    BY <2>1, <2>2, Zenon DEF Empty
<1> QED
  BY <1>4, <1>5, <1>7, <1>8

LEMMA RemovalCommits ==
  ASSUME TypeInv, TypeOK', TransactionInv, NEW u \in Users, CommandSound(u), Commit(u),
         plan[u].kind = "remove", ~plan[u].last
  PROVE  pc'[u] = "idle" /\ QuietSound'
<1>0. TypeOK
  BY DEF TypeInv
<1>1. /\ pc[u] = "active" /\ disk' = disk /\ gaze' = gaze
      /\ UNCHANGED <<legacyStart, hadGaze, original>> /\ interrupted' = interrupted
  BY SMT DEF Commit, machineVars, foundVars
<1>2. pc'[u] = "idle"
  <2>1. CommandEnds(u)
    BY Zenon DEF Commit
  <2> QED
    BY <1>0, <2>1, EndFrame, Zenon
<1>3. Base(u) = backup[u] /\ pc[u] \notin {"packages", "tidy"}
  BY <1>1, SMT DEF Base, InRoot
<1>4. FilesSound(backup[u])
  BY <1>3, Zenon DEF CommandSound, PlanSound
<1>5. /\ ~Empty(backup[u]) /\ ~Empty(disk)
      /\ \A p \in Artifacts \cup Receipts \cup {"sudo"} : disk[p] = backup[u][p]
  BY RemovalLeaves, Zenon
<1>6. Complete(backup[u]) => Complete(disk)
  <2>1. "receipt" \in Receipts
    BY Zenon DEF Receipts
  <2> QED
    BY <1>5, <2>1, Zenon DEF Complete
<1>7. /\ disk["receipt"] = backup[u]["receipt"] /\ disk["gazeReceipt"] = backup[u]["gazeReceipt"]
      /\ disk["sudo"] = backup[u]["sudo"]
  BY <1>5, Zenon DEF Receipts
<1> QED
  BY <1>1, <1>2, <1>4, <1>5, <1>6, <1>7, SMT DEF QuietSound, FilesSound, Certain, Traceable

(* The last uninstall leaves nothing, and sudo as it was.                  *)
LEMMA LastRemovalLeaves ==
  ASSUME TypeInv, TransactionInv, NEW u \in Users, CommandSound(u), Commit(u),
         plan[u].kind = "remove", plan[u].last
  PROVE  /\ disk["sudo"] = Unhooked(u) /\ Empty(disk) /\ ~Empty(backup[u])
         /\ \A p \in Artifacts \cup {"receipt"} : disk[p] = "absent"
         /\ plan[u].ownsGaze => disk["gazeReceipt"] = "absent"
         /\ ~plan[u].ownsGaze => disk["gazeReceipt"] = backup[u]["gazeReceipt"]
<1>0. TypeOK /\ plan[u].last = TRUE
  BY SMT DEF TypeInv, TypeOK, Plans
<1>1. pc[u] = "active" /\ at[u] > 9 /\ at[u] \in Nat
  <2>1. plan[u].kind # "install"
    BY SMT
  <2>2. Len(Order(u)) = 9
    BY <1>0, <2>1, SMT DEF Order, RemovalOrder
  <2> QED
    BY <1>0, <2>1, <2>2, Zenon DEF Commit, TypeOK
<1>2. Base(u) = backup[u] /\ pc[u] \notin {"packages", "tidy", "reading"}
  BY <1>1, SMT DEF Base, InRoot
<1>3. RemovalSound(u) /\ RemovalWritten(u)
  BY Zenon DEF CommandSound, PlanSound
<1>4. /\ disk[u] = "absent" /\ disk["sudo"] = Unhooked(u)
      /\ \A k \in 2..6 : disk[RemovalOrder(TRUE)[k]] = "absent"
      /\ plan[u].ownsGaze => disk["gazeReceipt"] = "absent"
      /\ ~plan[u].ownsGaze => disk["gazeReceipt"] = backup[u]["gazeReceipt"]
  <2>1. /\ at[u] > Len(RemovalOrder(TRUE)) /\ at[u] > 1 /\ at[u] > 8
        /\ \A k \in 2..6 : k < at[u]
    BY <1>1, SMT DEF RemovalOrder
  <2> QED
    BY <1>0, <1>1, <1>3, <2>1, Zenon DEF RemovalWritten
<1>5. \A p \in Artifacts \cup {"receipt"} : disk[p] = "absent"
  <2>1. \A p \in Artifacts \cup {"receipt"} : \E k \in 2..6 : p = RemovalOrder(TRUE)[k]
    BY SMT DEF Artifacts, RemovalOrder
  <2> QED
    BY <1>4, <2>1, Zenon
<1>6. Empty(disk)
  <2> SUFFICES ASSUME NEW e \in Entries, e # u PROVE disk[e] = "absent"
    BY <1>4, Zenon DEF Empty
  <2>1. backup[u][e] = "absent"
    BY <1>2, <1>3, Zenon DEF RemovalSound
  <2>2. e \in Paths \ {"lockPam"} /\ e \notin SharedPaths \cup {"entry"}
    BY SystemTransactionAssumption, SMT DEF Paths, SharedPaths, Entries, Artifacts, Receipts
  <2>3. ~Pending(u, e)
    <3> SUFFICES ASSUME NEW i \in 1..Len(UndoOf(u)), PathOf(u, UndoOf(u)[i]) = e PROVE FALSE
      BY Zenon DEF Pending
    <3>1. UndoOf(u) = UndoOrder("remove", TRUE)
      BY <1>0, Zenon DEF UndoOf
    <3>2. UndoOf(u)[i] \in SharedPaths \cup {"entry"}
      BY <3>1, SMT DEF UndoOrder, SharedPaths, Artifacts, Receipts
    <3> QED
      BY <2>2, <3>2, Zenon DEF PathOf
  <2> QED
    BY <1>1, <2>1, <2>2, <2>3, ActiveFacts, Zenon
<1>7. ~Empty(backup[u])
  <2>1. backup[u][u] # "absent" /\ u \in Entries
    BY <1>2, <1>3, SMT DEF RemovalSound, Entries
  <2> QED
    BY <2>1, Zenon DEF Empty
<1> QED
  BY <1>4, <1>5, <1>6, <1>7

LEMMA LastRemovalCommits ==
  ASSUME TypeInv, TypeOK', TransactionInv, NEW u \in Users, CommandSound(u), Commit(u),
         plan[u].kind = "remove", plan[u].last
  PROVE  CommandSound(u)' /\ pc'[u] # "idle"
<1>0. TypeOK /\ plan[u].last = TRUE
  BY SMT DEF TypeInv, TypeOK, Plans
<1>1. /\ pc[u] = "active" /\ disk' = disk /\ gaze' = gaze
      /\ UNCHANGED <<legacyStart, hadGaze, original>> /\ interrupted' = interrupted
      /\ GoTo(u, "packages") /\ plan' = plan
  <2>1. plan[u].kind # "install"
    BY SMT
  <2> QED
    BY <2>1, Zenon DEF Commit, machineVars, foundVars
<1>2. pc'[u] = "packages" /\ plan'[u] = plan[u]
  BY <1>0, <1>1, GoToFrame, Zenon
<1>3. /\ Base(u) = backup[u] /\ Base(u)' = disk /\ pc[u] \notin {"packages", "tidy", "reading"}
      /\ pc'[u] \notin {"idle", "active", "tidy"}
  <2>1. pc[u] \in InRoot /\ pc'[u] \notin InRoot
    BY <1>1, <1>2, SMT DEF InRoot
  <2>2. Base(u) = backup[u] /\ Base(u)' = disk
    BY <1>1, <2>1, Zenon DEF Base
  <2> QED
    BY <1>1, <1>2, <2>2, SMT
<1>4. FilesSound(backup[u]) /\ RemovalSound(u)
  BY <1>3, Zenon DEF CommandSound, PlanSound
<1>5. /\ disk["sudo"] = Unhooked(u) /\ Empty(disk) /\ ~Empty(backup[u])
      /\ \A p \in Artifacts \cup {"receipt"} : disk[p] = "absent"
      /\ plan[u].ownsGaze => disk["gazeReceipt"] = "absent"
      /\ ~plan[u].ownsGaze => disk["gazeReceipt"] = backup[u]["gazeReceipt"]
  BY LastRemovalLeaves, Zenon
<1>6. Traceable => /\ Clear(disk) /\ disk["sudo"] # "absent"
                   /\ hadGaze => disk["sudo"] = original
                   /\ plan[u].ownsGaze <=> ~hadGaze
  <2> SUFFICES ASSUME Traceable
               PROVE  /\ Clear(disk) /\ disk["sudo"] # "absent"
                      /\ hadGaze => disk["sudo"] = original
                      /\ plan[u].ownsGaze <=> ~hadGaze
    OBVIOUS
  <2>1. Complete(backup[u])
    <3>1. Certain
      BY SMT DEF Traceable, Certain
    <3> QED
      BY <1>4, <1>5, <3>1, Zenon DEF FilesSound
  <2>2. plan[u].ownsGaze <=> backup[u]["gazeReceipt"] = "managed"
    BY <1>3, <1>4, Zenon DEF RemovalSound
  <2>3. plan[u].ownsGaze <=> ~hadGaze
    <3>1. hadGaze => backup[u]["gazeReceipt"] # "managed"
      BY <1>4, <1>5, SMT DEF FilesSound
    <3>2. ~hadGaze => backup[u]["gazeReceipt"] = "managed"
      BY <1>4, <1>5, Zenon DEF FilesSound
    <3> QED
      BY <2>2, <3>1, <3>2, Zenon
  <2>4. disk["gazeReceipt"] = "absent"
    <3>1. CASE plan[u].ownsGaze
      BY <1>5, <3>1
    <3>2. CASE ~plan[u].ownsGaze
      BY <1>4, <1>5, <2>3, <3>2, Zenon DEF FilesSound
    <3> QED
      BY <3>1, <3>2
  <2>5. plan[u].integration = backup[u]["receipt"] /\ backup[u]["sudo"] = "hook"
    BY <1>3, <1>4, <2>1, Zenon DEF RemovalSound, Complete
  <2>6. disk["sudo"] = IF plan[u].integration = "replaced" /\ ~plan[u].ownsGaze THEN "gaze" ELSE "plain"
    BY <1>5, <2>5, Zenon DEF Unhooked
  <2>7. hadGaze => (plan[u].integration = "replaced" <=> original = "gaze")
    BY <1>4, <1>5, <2>5, Zenon DEF FilesSound
  <2>8. original \in {"plain", "gaze"}
    BY <1>0, Zenon DEF TypeOK
  <2>9. disk["sudo"] # "hook" /\ disk["sudo"] # "absent"
    BY <2>6, SMT
  <2>10. hadGaze => disk["sudo"] = original
    BY <2>3, <2>6, <2>7, <2>8, SMT
  <2>11. Clear(disk)
    BY <1>5, <2>4, <2>9, Zenon DEF Clear, Receipts
  <2> QED
    BY <2>3, <2>9, <2>10, <2>11
<1>7. FilesSound(Base(u))'
  <2>1. Traceable /\ hadGaze => gaze
    BY <1>4, Zenon DEF FilesSound
  <2> QED
    BY <1>1, <1>3, <1>5, <1>6, <2>1, Zenon DEF FilesSound, Certain, Traceable
<1>8. TidySound(u)'
  BY <1>1, <1>2, <1>3, <1>5, <1>6, Zenon DEF TidySound, Traceable
<1>9. PlanSound(u)'
  <2>1. plan'[u].kind # "install" /\ plan'[u].kind \in {"install", "remove"}
        /\ pc'[u] \in {"packages", "tidy"}
    BY <1>2, SMT
  <2> QED
    BY <1>7, <2>1, Zenon DEF PlanSound, InstallSound, RemovalSound
<1> QED
  BY <1>3, <1>8, <1>9, Zenon DEF CommandSound, InstallWritten, RemovalWritten

(* Nobody is registered, and Gaze is removed or cannot be.                 *)
LEMMA GazeGone ==
  ASSUME TypeOK, FilesSound(disk), Certain => Empty(disk), Traceable => ~hadGaze,
         UNCHANGED <<disk, interrupted>>, GazeRemoved \/ GazeLeft
  PROVE  QuietSound'
<1>1. CASE GazeRemoved
  <2>1. ~gaze' /\ UNCHANGED <<legacyStart, hadGaze, original>>
    BY <1>1, Zenon DEF GazeRemoved, foundVars
  <2> QED
    BY <2>1, Zenon DEF QuietSound, FilesSound, Certain, Traceable
<1>2. CASE GazeLeft
  <2>1. /\ gaze' /\ hadGaze' /\ legacyStart' = legacyStart
        /\ original' = IF disk["sudo"] = "gaze" THEN "gaze" ELSE "plain"
    BY <1>2, Zenon DEF GazeLeft
  <2>2. Traceable => Certain
    BY SMT DEF Traceable, Certain
  <2>3. Traceable => Clear(disk) /\ Clear(disk)'
    BY <2>2, Zenon DEF FilesSound, Clear
  <2>4. Traceable => disk'["sudo"] = original'
    <3> SUFFICES ASSUME Traceable PROVE disk["sudo"] = original'
      OBVIOUS
    <3>1. disk["sudo"] \in SudoContents /\ disk["sudo"] # "hook"
      BY <2>3, Zenon DEF Clear, TypeOK, Disks
    <3>2. disk["sudo"] # "absent"
      BY Zenon DEF FilesSound
    <3> QED
      BY <2>1, <3>1, <3>2, SMT DEF SudoContents
  <2>5. (Traceable' <=> Traceable) /\ (Certain' <=> Certain) /\ (Empty(disk)' <=> Empty(disk))
    BY <2>1, Zenon DEF Traceable, Certain
  <2> QED
    BY <2>1, <2>2, <2>3, <2>4, <2>5, Zenon DEF QuietSound, FilesSound
<1> QED
  BY <1>1, <1>2

(* The end of a command that has failed, and the steps after the last      *)
(* uninstall.                                                              *)
LEMMA MachineFinishFailed ==
  ASSUME TypeInv, NEW u \in Users, CommandSound(u), FinishFailed(u)
  PROVE  QuietSound' /\ pc'[u] = "idle"
<1>0. TypeOK
  BY DEF TypeInv
<1>1. /\ pc[u] = "failed" /\ pc'[u] = "idle" /\ disk' = disk /\ interrupted' = interrupted
      /\ plan[u].kind = "install" /\ plan[u].ownsGaze => GazeRemoved \/ GazeLeft
      /\ ~(plan[u].kind = "install" /\ plan[u].ownsGaze) => UNCHANGED <<gaze, foundVars>>
  BY <1>0, EndFrame, Zenon DEF FinishFailed
<1>2. Base(u) = disk /\ pc[u] \notin {"packages", "tidy", "reading"}
  BY <1>1, SMT DEF Base, InRoot
<1>3. FilesSound(disk) /\ InstallSound(u) /\ RemovalSound(u) /\ plan[u].kind \in {"install", "remove"}
  BY <1>2, Zenon DEF CommandSound, PlanSound
<1>4. plan[u].kind = "remove" => ~Empty(disk)
  <2> SUFFICES ASSUME plan[u].kind = "remove" PROVE ~Empty(disk)
    OBVIOUS
  <2>1. disk[u] # "absent" /\ u \in Entries
    BY <1>2, <1>3, SMT DEF RemovalSound, Entries
  <2> QED
    BY <2>1, Zenon DEF Empty
<1>5. CASE plan[u].kind = "install" /\ plan[u].ownsGaze
  <2>1. (Certain => Empty(disk)) /\ (Traceable => ~hadGaze)
    BY <1>2, <1>3, <1>5, Zenon DEF InstallSound
  <2> QED
    BY <1>0, <1>1, <1>3, <1>5, <2>1, GazeGone, Zenon
<1>6. CASE ~(plan[u].kind = "install" /\ plan[u].ownsGaze)
  <2>1. Traceable /\ Empty(disk) => gaze /\ hadGaze
    BY <1>2, <1>3, <1>4, <1>6, Zenon DEF InstallSound
  <2>2. UNCHANGED <<gaze, legacyStart, hadGaze, original>>
    BY <1>1, <1>6, Zenon DEF foundVars
  <2> QED
    BY <1>1, <1>3, <2>1, <2>2, Zenon DEF QuietSound, FilesSound, Certain, Traceable
<1> QED
  BY <1>1, <1>5, <1>6

LEMMA MachineRemovePackages ==
  ASSUME TypeInv, NEW u \in Users, CommandSound(u), RemovePackages(u)
  PROVE  /\ pc'[u] # "idle" => CommandSound(u)'
         /\ pc'[u] = "idle" => QuietSound'
<1>0. TypeOK
  BY DEF TypeInv
<1>1. pc[u] = "packages" /\ disk' = disk /\ interrupted' = interrupted
  BY Zenon DEF RemovePackages
<1>2. Base(u) = disk
  BY <1>1, SMT DEF Base, InRoot
<1>3. FilesSound(disk) /\ plan[u].kind = "remove" /\ Empty(disk)
      /\ (Traceable => (plan[u].ownsGaze <=> ~hadGaze))
  BY <1>1, <1>2, Zenon DEF CommandSound, PlanSound, TidySound
<1>4. CASE plan[u].ownsGaze /\ GazeLeft /\ CommandEnds(u)
  <2>1. pc'[u] = "idle"
    BY <1>0, <1>4, EndFrame, Zenon
  <2>2. QuietSound'
    BY <1>0, <1>1, <1>3, <1>4, GazeGone, Zenon
  <2> QED
    BY <2>1, <2>2
<1>5. CASE /\ IF plan[u].ownsGaze THEN GazeRemoved ELSE UNCHANGED <<gaze, foundVars>>
           /\ GoTo(u, "tidy") /\ plan' = plan
  <2>1. pc'[u] = "tidy"
    BY <1>0, <1>5, GoToFrame, Zenon
  <2>2. Base(u)' = disk /\ pc'[u] \notin {"active", "idle"}
    BY <1>1, <2>1, SMT DEF Base, InRoot
  <2>3. UNCHANGED <<legacyStart, hadGaze, original>>
    BY <1>5, Zenon DEF GazeRemoved, foundVars
  <2>4. Traceable => (hadGaze => gaze') /\ (gaze' <=> hadGaze)
    <3>1. Traceable /\ hadGaze => gaze
      BY <1>3, Zenon DEF FilesSound
    <3>2. CASE plan[u].ownsGaze
      <4>1. ~gaze'
        BY <1>5, <3>2, Zenon DEF GazeRemoved
      <4> QED
        BY <1>3, <3>2, <4>1, Zenon
    <3>3. CASE ~plan[u].ownsGaze
      <4>1. gaze' = gaze
        BY <1>5, <3>3, Zenon
      <4> QED
        BY <1>3, <3>1, <3>3, <4>1, Zenon
    <3> QED
      BY <3>2, <3>3
  <2>5. FilesSound(Base(u))'
    BY <1>1, <1>3, <2>2, <2>3, <2>4, Zenon DEF FilesSound, Certain, Traceable
  <2>6. TidySound(u)'
    BY <1>1, <1>3, <1>5, <2>3, <2>4, Zenon DEF TidySound, Traceable
  <2>7. PlanSound(u)'
    <3>1. plan'[u].kind # "install" /\ plan'[u].kind \in {"install", "remove"}
          /\ pc'[u] \in {"packages", "tidy"}
      BY <1>3, <1>5, <2>1, SMT
    <3> QED
      BY <2>5, <3>1, Zenon DEF PlanSound, InstallSound, RemovalSound
  <2> QED
    BY <2>2, <2>6, <2>7, Zenon DEF CommandSound, InstallWritten, RemovalWritten
<1> QED
  BY <1>4, <1>5, Zenon DEF RemovePackages

LEMMA MachineRemoveDirectories ==
  ASSUME TypeInv, NEW u \in Users, CommandSound(u), RemoveDirectories(u)
  PROVE  QuietSound' /\ pc'[u] = "idle"
<1>0. TypeOK
  BY DEF TypeInv
<1>1. /\ pc[u] = "tidy" /\ pc'[u] = "idle" /\ UNCHANGED <<disk, gaze>>
      /\ UNCHANGED <<interrupted, legacyStart, hadGaze, original>>
  BY <1>0, EndFrame, Zenon DEF RemoveDirectories, pastVars, foundVars
<1>2. Base(u) = disk
  BY <1>1, SMT DEF Base, InRoot
<1>3. FilesSound(disk) /\ (Traceable => (gaze <=> hadGaze))
  BY <1>1, <1>2, Zenon DEF CommandSound, PlanSound, TidySound
<1> QED
  BY <1>1, <1>3, Zenon DEF QuietSound, FilesSound, Certain, Traceable

LEMMA MachineCrash ==
  ASSUME TypeInv, NEW u \in Users, Crash(u)
  PROVE  QuietSound' /\ pc'[u] = "idle"
<1>1. pc'[u] = "idle" /\ interrupted' = "since"
  BY EndFrame, Zenon DEF Crash, TypeInv
<1>2. ~Certain' /\ ~Traceable'
  BY <1>1, SMT DEF Certain, Traceable
<1> QED
  BY <1>1, <1>2, Zenon DEF QuietSound, FilesSound

(* The rest of the machine.                                                *)
LEMMA MachinePam ==
  ASSUME TypeInv, TypeOK', MachineInv, UNCHANGED <<gaze, pc, plan, at, backup, interrupted, foundVars>>,
         \A p \in OtherPaths : disk'[p] = disk[p]
  PROVE  MachineInv'
<1>1. /\ Empty(disk') <=> Empty(disk)
      /\ Complete(disk') <=> Complete(disk)
      /\ Clear(disk') <=> Clear(disk)
      /\ \A p \in Entries \cup Receipts \cup Artifacts \cup {"sudo"} : disk'[p] = disk[p]
  BY SameFiles
<1>2. /\ disk'["sudo"] = disk["sudo"] /\ disk'["receipt"] = disk["receipt"]
      /\ disk'["gazeReceipt"] = disk["gazeReceipt"]
  BY <1>1, Zenon DEF Receipts
<1>3. UNCHANGED <<legacyStart, hadGaze, original>>
  BY Zenon DEF foundVars
<1>4. Alone' /\ (Quiet' <=> Quiet)
  BY Zenon DEF MachineInv, Alone, Quiet
<1>5. QuietSound => QuietSound'
  BY <1>1, <1>2, <1>3, SMT DEF QuietSound, FilesSound, Certain, Traceable
<1>6. ASSUME NEW u \in Users, CommandSound(u) PROVE CommandSound(u)'
  <2>1. PlanSound(u)'
    <3>1. SamePlan(u) /\ pc'[u] = pc[u] /\ TypeOK /\ PlanSound(u)
      BY <1>6, Zenon DEF SamePlan, TypeInv, CommandSound
    <3>2. \A p \in OtherPaths : Base(u)'[p] = Base(u)[p]
      BY Zenon DEF Base
    <3> QED
      BY <3>1, <3>2, PlanSoundKept, Zenon
  <2>2. TidySound(u)'
    BY <1>1, <1>3, <1>6, SMT DEF CommandSound, TidySound, Traceable
  <2>3. InstallWritten(u)'
    BY <1>2, <1>6, Zenon DEF CommandSound, InstallWritten
  <2>4. RemovalWritten(u)'
    <3>1. disk'[u] = disk[u]
      BY <1>1, Zenon DEF Entries
    <3>2. \A k \in 2..6 : disk'[RemovalOrder(TRUE)[k]] = disk[RemovalOrder(TRUE)[k]]
      <4>1. \A k \in 2..6 : RemovalOrder(TRUE)[k] \in Artifacts \cup Receipts
        BY SMT DEF RemovalOrder, Artifacts, Receipts
      <4> QED
        BY <1>1, <4>1, Zenon
    <3>3. Unhooked(u)' = Unhooked(u) /\ RemovalOrder(plan[u].last)' = RemovalOrder(plan[u].last)
      BY Zenon DEF Unhooked, RemovalOrder
    <3> QED
      BY <1>2, <1>6, <3>1, <3>2, <3>3, Zenon DEF CommandSound, RemovalWritten
  <2> QED
    BY <2>1, <2>2, <2>3, <2>4, Zenon DEF CommandSound
<1> QED
  BY <1>4, <1>5, <1>6, Zenon DEF MachineInv

LEMMA MachineReplaced ==
  ASSUME TypeInv, MachineInv, NEW path \in Replaceable, Replaced(path)
  PROVE  MachineInv'
<1>0. TypeOK /\ Quiet /\ QuietSound
  BY Zenon DEF TypeInv, MachineInv, Replaced, Quiet
<1>1. /\ path \in Artifacts /\ path \in Paths /\ disk[path] = "managed" /\ Write(path, "foreign")
      /\ UNCHANGED <<gaze, pc, interrupted, legacyStart, hadGaze, original>>
  BY SystemTransactionAssumption, Zenon DEF Replaced, Paths, SharedPaths, pastVars, foundVars
<1>2. disk'[path] = "foreign" /\ \A p \in Paths : p # path => disk'[p] = disk[p]
  BY <1>0, <1>1, WriteFrame, Zenon
<1>3. /\ Entries \cup Receipts \cup {"sudo"} \subseteq Paths \ Artifacts
      /\ Artifacts \subseteq Paths /\ "receipt" \in Receipts /\ "gazeReceipt" \in Receipts
  BY SystemTransactionAssumption, SMT DEF Paths, SharedPaths, Entries, Artifacts, Receipts
<1>4. \A p \in Entries \cup Receipts \cup {"sudo"} : disk'[p] = disk[p]
  BY <1>1, <1>2, <1>3, Zenon
<1>5. (Empty(disk') <=> Empty(disk)) /\ (Complete(disk) => Complete(disk'))
  <2>1. disk'[path] # "absent"
    BY <1>2
  <2>2. \A p \in Artifacts : disk[p] # "absent" => disk'[p] # "absent"
    BY <1>2, <1>3, <2>1, Zenon
  <2> QED
    BY <1>3, <1>4, <2>2, Zenon DEF Empty, Complete
<1>6. Traceable => ~Empty(disk)
  <2>1. ~Clear(disk)
    <3>1. disk[path] # "absent"
      BY <1>1
    <3> QED
      BY <1>1, <3>1, Zenon DEF Clear
  <2> QED
    BY <1>0, <2>1, Zenon DEF QuietSound, FilesSound
<1>7. /\ disk'["receipt"] = disk["receipt"] /\ disk'["gazeReceipt"] = disk["gazeReceipt"]
      /\ disk'["sudo"] = disk["sudo"]
  BY <1>3, <1>4, Zenon
<1>8. QuietSound'
  BY <1>0, <1>1, <1>5, <1>6, <1>7, SMT DEF QuietSound, FilesSound, Certain, Traceable
<1>9. \A u \in Users : pc'[u] = "idle"
  BY <1>0, <1>1, Zenon DEF Quiet
<1> QED
  BY <1>8, <1>9, Zenon DEF MachineInv, Alone, Quiet

LEMMA MachineStart ==
  ASSUME Init
  PROVE  MachineInv
<1>1. \A u \in Users : pc[u] = "idle"
  BY Zenon DEF Init
<1>2. /\ Entries \cup Receipts \cup Artifacts \cup {"sudo"} \subseteq Paths
      /\ \A e \in Entries : e \notin Artifacts \cup {"sudo", "lockPam", "receipt"}
      /\ \A p \in Artifacts \cup Receipts : p # "sudo"
  BY SystemTransactionAssumption, SMT DEF Paths, SharedPaths, Entries, Artifacts, Receipts
<1>3. Empty(disk)
  BY <1>2, Zenon DEF Init, Empty
<1>4. ~legacyStart => Clear(disk) /\ disk["sudo"] = original /\ disk["sudo"] # "absent"
  <2> SUFFICES ASSUME ~legacyStart
               PROVE  Clear(disk) /\ disk["sudo"] = original /\ disk["sudo"] # "absent"
    OBVIOUS
  <2>1. disk["sudo"] = original
    BY <1>2, Zenon DEF Init
  <2>2. original \in {"plain", "gaze"}
    BY Zenon DEF Init
  <2>3. \A p \in Artifacts \cup Receipts : disk[p] = "absent"
    BY <1>2, Zenon DEF Init
  <2>4. disk["sudo"] # "hook" /\ disk["sudo"] # "absent"
    BY <2>1, <2>2, SMT
  <2> QED
    BY <2>1, <2>3, <2>4, Zenon DEF Clear
<1>5. gaze = hadGaze
  BY Zenon DEF Init
<1>6. QuietSound
  BY <1>3, <1>4, <1>5, Zenon DEF QuietSound, FilesSound, Traceable
<1> QED
  BY <1>1, <1>6, Zenon DEF MachineInv, Alone

LEMMA MachineStep ==
  ASSUME TypeInv, TypeOK', TransactionInv, MachineInv, ~Overlap, [Next]_vars
  PROVE  MachineInv'
<1>0. TypeOK
  BY DEF TypeInv
<1>1. ASSUME NEW u \in Users, BeginInstall(u) \/ BeginRemove(u) PROVE MachineInv'
  <2>1. (\A v \in Users \ {u} : pc'[v] = "idle") /\ Quiet
    BY <1>0, <1>1, OnlyCommand, Zenon DEF MachineInv
  <2>2. QuietSound
    BY <2>1, Zenon DEF MachineInv
  <2>3. CommandSound(u)' /\ pc'[u] # "idle"
    BY <1>1, <2>2, MachineBeginInstall, MachineBeginRemove, Zenon
  <2> QED
    BY <2>1, <2>3, MachineKept, Zenon
<1>2. ASSUME NEW u \in Users,
             \/ ReadReceipts(u) \/ EnterRoot(u) \/ Lock(u) \/ InstallNext(u) \/ RemoveNext(u)
             \/ Commit(u) \/ Fail(u) \/ UndoRemove(u) \/ UndoCopy(u) \/ LeaveUndo(u)
             \/ FinishFailed(u) \/ RemovePackages(u) \/ RemoveDirectories(u) \/ Crash(u)
      PROVE  MachineInv'
  <2>1. \A v \in Users \ {u} : pc'[v] = "idle"
    BY <1>0, <1>2, OnlyCommand, Zenon DEF MachineInv
  <2>2. CommandSound(u)
    <3>1. pc[u] \in {"reading", "asking", "blocked", "active", "undoing", "failed", "packages", "tidy"}
          \/ pc[u] # "idle"
      BY <1>2, Zenon DEF ReadReceipts, EnterRoot, Lock, InstallNext, RemoveNext, Commit, Fail,
         UndoRemove, UndoCopy, LeaveUndo, FinishFailed, RemovePackages, RemoveDirectories, Crash
    <3>2. pc[u] # "idle"
      BY <3>1, SMT
    <3> QED
      BY <3>2, Zenon DEF MachineInv
  <2>3. CASE Commit(u)
    <3>1. plan[u].kind \in {"install", "remove"}
      BY <2>2, Zenon DEF CommandSound, PlanSound
    <3>2. CASE plan[u].kind = "install"
      BY <2>1, <2>2, <2>3, <3>2, InstallCommits, MachineKept, Zenon
    <3>3. CASE plan[u].kind = "remove" /\ ~plan[u].last
      BY <2>1, <2>2, <2>3, <3>3, RemovalCommits, MachineKept, Zenon
    <3>4. CASE plan[u].kind = "remove" /\ plan[u].last
      BY <2>1, <2>2, <2>3, <3>4, LastRemovalCommits, MachineKept, Zenon
    <3> QED
      BY <3>1, <3>2, <3>3, <3>4
  <2>4. CASE FinishFailed(u) \/ RemoveDirectories(u) \/ Crash(u)
    <3>1. QuietSound' /\ pc'[u] = "idle"
      BY <2>2, <2>4, MachineFinishFailed, MachineRemoveDirectories, MachineCrash, Zenon
    <3> QED
      BY <2>1, <3>1, MachineKept, Zenon
  <2>5. CASE \/ ReadReceipts(u) \/ EnterRoot(u) \/ Lock(u) \/ InstallNext(u) \/ RemoveNext(u)
             \/ Fail(u) \/ UndoRemove(u) \/ UndoCopy(u) \/ LeaveUndo(u)
    <3>1. CommandSound(u)' /\ pc'[u] # "idle"
      BY <2>2, <2>5, MachineReadReceipts, MachineUnwritten, MachineLock, MachineInstallNext,
         MachineRemoveNext, Zenon
    <3> QED
      BY <2>1, <3>1, MachineKept, Zenon
  <2>6. CASE RemovePackages(u)
    BY <2>1, <2>2, <2>6, MachineRemovePackages, MachineKept, Zenon
  <2> QED
    BY <1>2, <2>3, <2>4, <2>5, <2>6, Zenon
<1>3. ASSUME (\E u \in Users : LockPamInstalled(u)) \/ LockPamRemoved PROVE MachineInv'
  <2>1. /\ UNCHANGED <<gaze, pc, plan, at, backup, interrupted, foundVars>>
        /\ Write("lockPam", "managed") \/ Write("lockPam", "absent")
    BY <1>3, Zenon DEF LockPamInstalled, LockPamRemoved, rootVars, pastVars
  <2>2. "lockPam" \in Paths
    BY Zenon DEF Paths, SharedPaths
  <2>3. \A p \in OtherPaths : disk'[p] = disk[p]
    BY <1>0, <2>1, <2>2, WriteFrame, Zenon DEF OtherPaths
  <2> QED
    BY <2>1, <2>3, MachinePam, Zenon
<1>4. ASSUME NEW path \in Replaceable, Replaced(path) PROVE MachineInv'
  BY <1>4, MachineReplaced, Zenon
<1>5. ASSUME UNCHANGED vars PROVE MachineInv'
  <2>1. UNCHANGED <<gaze, pc, plan, at, backup, interrupted, foundVars, disk>>
    BY <1>5, Zenon DEF vars, machineVars, rootVars, pastVars
  <2> QED
    BY <2>1, MachinePam, Zenon
<1> QED
  BY <1>1, <1>2, <1>3, <1>4, <1>5, Zenon DEF Next

LEMMA MachineInvariant ==
  ASSUME ~Overlap, "lose" \notin Faults
  PROVE  Spec => [](TypeInv /\ TransactionInv /\ MachineInv)
<1> DEFINE Inv == TypeInv /\ TransactionInv /\ MachineInv
<1>1. Init => Inv
  BY InitTypes, InitTransaction, MachineStart
<1>2. Inv /\ [Next]_vars => Inv'
  BY TypesNext, LockNext, ReceiptNext, TransactionNext, MachineStep DEF TypeInv
<1> QED
  BY <1>1, <1>2, PTL DEF Spec

(* While commands do not overlap: when none runs, a registered user has    *)
(* every component, whatever failed but for a rollback's copies, and after *)
(* a command was killed (be it in its rollback) from the next install on.  *)
THEOREM RegisteredAreServed ==
  ASSUME ~Overlap, "lose" \notin Faults
  PROVE  Spec => []RegisteredIsServed
<1>1. MachineInv => RegisteredIsServed
  BY Zenon DEF MachineInv, QuietSound, FilesSound, Certain, Empty, Complete, RegisteredIsServed,
     HookFilesPresent
<1> QED
  BY <1>1, MachineInvariant, PTL

(* Under the same assumptions, and with no command ever killed: when       *)
(* nobody is registered no component and no receipt is left, whatever else *)
(* failed.  Gaze and sudo's file are as they were found, or as they were   *)
(* when the removal of the Gaze package last failed (GazeLeft), if it has. *)
THEOREM NothingIsLeftBehind ==
  ASSUME ~Overlap, "lose" \notin Faults
  PROVE  Spec => []CleanAfterLast
<1>1. ASSUME TypeInv, MachineInv, Quiet, interrupted = "never", ~legacyStart,
             \A e \in Entries : disk[e] = "absent"
      PROVE  /\ disk["sudo"] \in {"plain", "gaze"}
             /\ \A p \in Artifacts \cup Receipts : disk[p] = "absent"
             /\ gaze = hadGaze
             /\ hadGaze => disk["sudo"] = original
  <2>1. QuietSound /\ Traceable /\ Empty(disk)
    BY <1>1, Zenon DEF MachineInv, Traceable, Empty
  <2>2. /\ Clear(disk) /\ disk["sudo"] # "absent"
        /\ hadGaze => disk["sudo"] = original
        /\ gaze <=> hadGaze
    BY <2>1, Zenon DEF QuietSound, FilesSound
  <2>5. disk["sudo"] \in {"plain", "gaze"}
    <3>1. disk["sudo"] \in SudoContents /\ disk["sudo"] # "hook"
      BY <1>1, <2>2, Zenon DEF Clear, TypeInv, TypeOK, Disks
    <3> QED
      BY <2>2, <3>1, SMT DEF SudoContents
  <2>3. gaze \in BOOLEAN /\ hadGaze \in BOOLEAN
    BY <1>1, TypeParts, Zenon DEF TypeInv, MachineTypes, FoundTypes
  <2>4. gaze = hadGaze
    BY <2>2, <2>3, SMT
  <2> QED
    BY <2>2, <2>4, <2>5, Zenon DEF Clear
<1>2. TypeInv /\ MachineInv => CleanAfterLast
  BY <1>1, Zenon DEF CleanAfterLast
<1> QED
  BY <1>2, MachineInvariant, PTL

---------------------------------------------------------------------------
(* The registry's directory is there before a file in it, and Gaze's       *)
(* receipt is Face ID's own.                                               *)
OrdinaryFiles(d) ==
  /\ ~Empty(d) => registryDir
  /\ d["gazeReceipt"] \in {"absent", "managed"}

HolderInRoot == lock # Nobody => pc[lock] \in InRoot

(* What an install has done to the registry, and that it takes no artifact *)
(* away.                                                                   *)
RegistryWritten(u) ==
  pc[u] = "active" /\ plan[u].kind = "install" =>
    /\ plan[u].legacy => Empty(backup[u]) /\ ~Clear(backup[u])
    /\ at[u] > 6 => registryDir
    /\ ~plan[u].legacy => disk["legacy"] = backup[u]["legacy"]
    /\ plan[u].legacy /\ at[u] > 7 => disk["legacy"] = "managed"
    /\ \A p \in Artifacts : backup[u][p] # "absent" => disk[p] # "absent"

RegistryInv ==
  /\ HolderInRoot
  /\ OrdinaryFiles(disk)
  /\ \A u \in Users : pc[u] \in InRoot => OrdinaryFiles(backup[u]) /\ RegistryWritten(u)

LEMMA IdleOutside == "idle" \notin InRoot
BY SMT DEF InRoot

LEMMA RegistryPaths ==
  /\ "legacy" \in Entries /\ "gazeReceipt" \notin Entries /\ "sudo" \notin Entries
  /\ Entries \cup {"gazeReceipt"} \subseteq OtherPaths
  /\ Artifacts \subseteq OtherPaths /\ Artifacts \cap (Entries \cup {"gazeReceipt"}) = {}
  /\ \A u \in Users : u \in Entries /\ u # "legacy" /\ u \notin SharedPaths \cup {"entry"}
BY SystemTransactionAssumption, SMT
   DEF OtherPaths, Paths, SharedPaths, Entries, Artifacts, Receipts

(* A step that adds nothing to the registry and no receipt of Gaze.        *)
LEMMA OrdinaryKept ==
  ASSUME OrdinaryFiles(disk), \A p \in Entries \cup {"gazeReceipt"} : disk'[p] \in {disk[p], "absent"},
         ~Empty(disk') => (registryDir => registryDir')
  PROVE  OrdinaryFiles(disk)'
<1>1. ~Empty(disk') => ~Empty(disk)
  BY Zenon DEF Empty
<1>2. disk'["gazeReceipt"] \in {"absent", "managed"}
  BY Zenon DEF OrdinaryFiles
<1> QED
  BY <1>1, <1>2, Zenon DEF OrdinaryFiles, Empty

(* A root part of u.                                                       *)
LEMMA RegistryInside ==
  ASSUME LockHeld', NEW u \in Users, pc'[u] \in InRoot, \A v \in Users \ {u} : pc'[v] = "idle",
         OrdinaryFiles(disk)', OrdinaryFiles(backup[u])', RegistryWritten(u)'
  PROVE  RegistryInv'
<1>1. lock' = u
  BY Zenon DEF LockHeld
<1>2. \A v \in Users \ {u} : pc'[v] \notin InRoot
  BY IdleOutside, Zenon
<1> QED
  BY <1>1, <1>2, Zenon DEF RegistryInv, HolderInRoot, InRoot

LEMMA RegistryOutside ==
  ASSUME \A v \in Users : pc'[v] \notin InRoot, lock' = Nobody, OrdinaryFiles(disk)'
  PROVE  RegistryInv'
BY Zenon DEF RegistryInv, HolderInRoot, InRoot

LEMMA RegistryLock ==
  ASSUME TypeInv, TypeOK', LockHeld', RegistryInv, NEW u \in Users, Lock(u),
         \A v \in Users \ {u} : pc'[v] = "idle"
  PROVE  RegistryInv'
<1>0. TypeOK /\ OrdinaryFiles(disk)
  BY DEF TypeInv, RegistryInv
<1>1. pc[u] = "blocked" /\ lock = Nobody /\ disk' = disk /\ registryDir' = registryDir
  BY Zenon DEF Lock, machineVars
<1>2. OrdinaryFiles(disk)'
  BY <1>0, <1>1, OrdinaryKept, Zenon
<1>3. CASE GoTo(u, "failed") /\ lock' = lock
  <2>1. pc'[u] \notin InRoot
    <3>1. pc'[u] = "failed"
      BY <1>0, <1>3, GoToFrame, Zenon
    <3> QED
      BY <3>1, SMT DEF InRoot
  <2>2. \A v \in Users \ {u} : pc'[v] \notin InRoot
    BY IdleOutside, Zenon
  <2> QED
    BY <1>1, <1>2, <1>3, <2>1, <2>2, RegistryOutside, Zenon
<1>4. CASE lock' = u
  <2> DEFINE mark == /\ plan[u].kind = "install" /\ ~registryDir
                     /\ disk["receipt"] # "absent" \/ disk["sudo"] = "hook"
  <2>1. /\ backup' = [backup EXCEPT ![u] = disk] /\ at' = [at EXCEPT ![u] = 1]
        /\ GoTo(u, IF Acceptable(u) THEN "active" ELSE "undoing")
        /\ plan' = [plan EXCEPT ![u].legacy = mark]
    BY <1>1, <1>4, SystemTransactionAssumption, Zenon DEF Lock
  <2>2. backup'[u] = disk /\ at'[u] = 1
    BY <1>0, <2>1, Zenon DEF TypeOK
  <2>3. pc'[u] \in InRoot
    <3>1. pc'[u] = "active" \/ pc'[u] = "undoing"
      BY <1>0, <2>1, GoToFrame, Zenon
    <3> QED
      BY <3>1, Zenon DEF InRoot
  <2>4. plan'[u].legacy = mark
    <3>1. plan \in [Users -> Plans] /\ plan[u] \in Plans
      BY <1>0, Zenon DEF TypeOK
    <3> HIDE DEF mark
    <3>2. plan'[u] = [plan[u] EXCEPT !.legacy = mark]
      BY <2>1, <3>1, Zenon
    <3>3. [plan[u] EXCEPT !.legacy = mark].legacy = mark
      BY <3>1, SMT DEF Plans
    <3> QED
      BY <3>2, <3>3, Zenon
  <2>5. mark => Empty(disk) /\ ~Clear(disk)
    BY <1>0, Zenon DEF OrdinaryFiles, Clear, Receipts
  <2>6. RegistryWritten(u)'
    <3>1. ~(at'[u] > 6) /\ ~(at'[u] > 7)
      BY <2>2, SMT
    <3> HIDE DEF mark
    <3>2. plan'[u].legacy => Empty(backup[u])' /\ ~Clear(backup[u])'
      BY <2>2, <2>4, <2>5, Zenon DEF Empty, Clear
    <3> QED
      BY <1>1, <2>2, <3>1, <3>2, Zenon DEF RegistryWritten
  <2>7. OrdinaryFiles(backup[u])'
    BY <1>0, <1>1, <2>2, Zenon DEF OrdinaryFiles, Empty
  <2> QED
    BY <1>2, <2>3, <2>6, <2>7, RegistryInside, Zenon
<1> QED
  BY <1>3, <1>4, Zenon DEF Lock

LEMMA RegistryInstallNext ==
  ASSUME TypeInv, LockHeld', RegistryInv, NEW u \in Users, InstallNext(u),
         \A v \in Users \ {u} : pc'[v] = "idle"
  PROVE  RegistryInv'
<1>0. TypeOK
  BY DEF TypeInv
<1>1. /\ pc[u] = "active" /\ plan[u].kind = "install" /\ at[u] <= 9
      /\ UNCHANGED <<pc, plan, backup>> /\ at' = [at EXCEPT ![u] = @ + 1]
      /\ registryDir' = (registryDir \/ InstallOrder[at[u]] = "entry")
  BY InstallLength, Zenon DEF InstallNext
<1>2. at[u] \in 1..9 /\ at'[u] = at[u] + 1
  <2>1. at[u] >= 1
    BY <1>1, Zenon DEF TypeInv, LockHeld, InRoot
  <2> QED
    BY <1>0, <1>1, <2>1, SMT DEF TypeOK
<1>3. PICK name \in Names : name = InstallOrder[at[u]]
  BY <1>2, InstallNames, Zenon
<1>4. PICK path \in Paths : path = PathOf(u, name)
  BY PathTyped, Zenon
<1>5. /\ name = "entry" <=> at[u] = 6
      /\ name = "legacy" <=> at[u] = 7
  BY <1>2, <1>3, InstallEntries, Zenon
<1>6. /\ Applies(u, name) => disk'[path] = InstalledContent(u, name)
      /\ ~Applies(u, name) => disk'[path] = disk[path]
      /\ \A p \in Paths : p # path => disk'[p] = disk[p]
  BY <1>0, <1>3, <1>4, WriteFrame, Zenon DEF InstallNext
<1>7. /\ name # "entry" => path = name
      /\ name = "entry" => path = u
      /\ u \in Users /\ u # "legacy" /\ u # "gazeReceipt" /\ u \notin Artifacts
      /\ Entries \cup {"gazeReceipt"} \cup Artifacts \subseteq Paths
  BY <1>4, PathTyped, RegistryPaths, Zenon DEF OtherPaths, SharedPaths, Receipts
<1>8. pc[u] \in InRoot /\ OrdinaryFiles(disk) /\ OrdinaryFiles(backup[u]) /\ RegistryWritten(u)
  BY <1>1, Zenon DEF RegistryInv, InRoot
<1>9. name \notin {"sudo", "receipt"} => InstalledContent(u, name) = "managed"
  BY Zenon DEF InstalledContent
<1>10. at'[u] > 6 => registryDir'
  <2>1. at'[u] > 6 => at[u] > 6 \/ at[u] = 6
    BY <1>2, SMT
  <2> QED
    BY <1>1, <1>3, <1>5, <1>8, <2>1, Zenon DEF RegistryWritten
<1>11. disk'["gazeReceipt"] \in {"absent", "managed"}
  <2>1. CASE path = "gazeReceipt"
    <3>1. name = "gazeReceipt"
      BY <1>7, <2>1, Zenon
    <3>2. InstalledContent(u, name) = "managed"
      BY <1>9, <3>1, SMT
    <3> QED
      BY <1>6, <1>8, <2>1, <3>2, Zenon DEF OrdinaryFiles
  <2>2. CASE path # "gazeReceipt"
    BY <1>6, <1>7, <1>8, <2>2, Zenon DEF OrdinaryFiles
  <2> QED
    BY <2>1, <2>2
<1>12. ~Empty(disk') => registryDir'
  <2>1. CASE path \in Entries
    <3>1. at[u] = 6 \/ at[u] = 7
      <4>1. name = "entry" \/ name = "legacy"
        <5>1. name \in Names /\ (name \in Entries => name = "legacy" \/ name \in Users)
          BY Zenon DEF Entries
        <5>2. name \in Users => FALSE
          BY <5>1, RegistryPaths, SystemTransactionAssumption, Zenon DEF Names
        <5> QED
          BY <1>7, <2>1, <5>1, <5>2, Zenon
      <4> QED
        BY <1>5, <4>1
    <3>2. at'[u] > 6
      BY <1>2, <3>1, SMT
    <3> QED
      BY <1>10, <3>2
  <2>2. CASE path \notin Entries
    <3>1. \A e \in Entries : disk'[e] = disk[e]
      BY <1>6, <1>7, <2>2, Zenon
    <3> QED
      BY <1>1, <1>8, <3>1, Zenon DEF OrdinaryFiles, Empty
  <2> QED
    BY <2>1, <2>2
<1>13. OrdinaryFiles(disk)'
  BY <1>11, <1>12, Zenon DEF OrdinaryFiles, Empty
<1>14. OrdinaryFiles(backup[u])'
  <2>1. registryDir => registryDir'
    BY <1>1
  <2> QED
    BY <1>1, <1>8, <2>1, Zenon DEF OrdinaryFiles, Empty
<1>15. ~plan[u].legacy => disk'["legacy"] = backup[u]["legacy"]
  <2>1. name = "legacy" /\ ~plan[u].legacy => ~Applies(u, name)
    BY Zenon DEF Applies
  <2>2. "legacy" \in Paths /\ (path = "legacy" => name = "legacy")
    BY <1>7, RegistryPaths, Zenon
  <2>3. ~plan[u].legacy => disk'["legacy"] = disk["legacy"]
    BY <1>6, <2>1, <2>2, Zenon
  <2> QED
    BY <1>1, <1>8, <2>3, Zenon DEF RegistryWritten
<1>16. plan[u].legacy /\ at'[u] > 7 => disk'["legacy"] = "managed"
  <2> SUFFICES ASSUME plan[u].legacy, at'[u] > 7 PROVE disk'["legacy"] = "managed"
    OBVIOUS
  <2>1. CASE at[u] = 7
    <3>1. name = "legacy" /\ path = "legacy"
      BY <1>5, <1>7, <2>1, SMT
    <3>2. Applies(u, name) /\ InstalledContent(u, name) = "managed"
      BY <3>1, SMT DEF Applies, InstalledContent
    <3> QED
      BY <1>6, <3>1, <3>2, Zenon
  <2>2. CASE at[u] # 7
    <3>1. at[u] > 7
      BY <1>2, <2>2, SMT
    <3>2. path # "legacy" /\ "legacy" \in Paths
      BY <1>5, <1>7, <2>2, RegistryPaths, Zenon
    <3> QED
      BY <1>1, <1>6, <1>8, <3>1, <3>2, Zenon DEF RegistryWritten
  <2> QED
    BY <2>1, <2>2
<1>17. ASSUME NEW p \in Artifacts, backup[u][p] # "absent" PROVE disk'[p] # "absent"
  <2>1. disk[p] # "absent" /\ p \in Paths
    BY <1>1, <1>7, <1>8, <1>17, Zenon DEF RegistryWritten
  <2>2. CASE p = path
    <3>1. name = p
      BY <1>7, <2>2, Zenon
    <3>2. name \notin {"sudo", "receipt"}
      BY <3>1, SMT DEF Artifacts
    <3>3. InstalledContent(u, name) # "absent"
      BY <1>9, <3>2, SMT
    <3> QED
      BY <1>6, <2>1, <2>2, <3>3, Zenon
  <2>3. CASE p # path
    BY <1>6, <2>1, <2>3, Zenon
  <2> QED
    BY <2>2, <2>3
<1>18. RegistryWritten(u)'
  <2>1. /\ plan'[u].legacy = plan[u].legacy /\ backup'[u] = backup[u] /\ pc'[u] = pc[u]
        /\ plan[u].legacy => Empty(backup[u])' /\ ~Clear(backup[u])'
    BY <1>1, <1>8, Zenon DEF RegistryWritten, Empty, Clear
  <2> QED
    BY <1>10, <1>15, <1>16, <1>17, <2>1, Zenon DEF RegistryWritten
<1> QED
  BY <1>1, <1>8, <1>13, <1>14, <1>18, RegistryInside, Zenon

(* A root part that removes, fails or rolls back.                          *)
LEMMA RegistryUnwritten ==
  ASSUME TypeInv, LockHeld', RegistryInv, NEW u \in Users,
         RemoveNext(u) \/ Fail(u) \/ UndoRemove(u) \/ UndoCopy(u),
         \A v \in Users \ {u} : pc'[v] = "idle"
  PROVE  RegistryInv'
<1>0. TypeOK
  BY DEF TypeInv
<1>1. /\ pc[u] \in InRoot /\ pc'[u] \in InRoot /\ backup' = backup /\ registryDir' = registryDir
      /\ ~(pc'[u] = "active" /\ plan'[u].kind = "install")
  <2>1. CASE Fail(u)
    <3>1. pc[u] = "active" /\ pc'[u] = "undoing"
      BY <1>0, <2>1, GoToFrame, Zenon DEF Fail
    <3> QED
      BY <2>1, <3>1, SMT DEF Fail, machineVars, InRoot
  <2>2. CASE RemoveNext(u)
    BY <2>2, SMT DEF RemoveNext, InRoot
  <2>3. CASE UndoRemove(u) \/ UndoCopy(u)
    BY <2>3, SMT DEF UndoRemove, UndoCopy, InRoot
  <2> QED
    BY <2>1, <2>2, <2>3
<1>2. OrdinaryFiles(disk) /\ OrdinaryFiles(backup[u])
  BY <1>1, Zenon DEF RegistryInv
<1>3. OrdinaryFiles(backup[u])'
  BY <1>1, <1>2, Zenon DEF OrdinaryFiles, Empty
<1>4. RegistryWritten(u)'
  BY <1>1, Zenon DEF RegistryWritten
<1>5. OrdinaryFiles(disk)'
  <2>0. Entries \cup {"gazeReceipt"} \subseteq Paths /\ "sudo" \notin Entries \cup {"gazeReceipt"}
    BY RegistryPaths, Zenon DEF OtherPaths
  <2>1. CASE Fail(u)
    <3>1. disk' = disk
      BY <2>1, Zenon DEF Fail, machineVars
    <3>2. \A p \in Entries \cup {"gazeReceipt"} : disk'[p] \in {disk[p], "absent"}
      BY <3>1, Zenon
    <3> QED
      BY <1>1, <1>2, <3>2, OrdinaryKept, Zenon
  <2>2. CASE RemoveNext(u)
    <3>1. /\ pc[u] = "active" /\ plan[u].kind = "remove" /\ at[u] <= Len(RemovalOrder(plan[u].last))
          /\ plan[u].last \in BOOLEAN
      BY <1>0, <2>2, SMT DEF RemoveNext, TypeOK, Plans
    <3>2. at[u] \in 1..Len(RemovalOrder(plan[u].last))
      <4>1. at[u] >= 1
        BY <3>1, Zenon DEF TypeInv, LockHeld, InRoot
      <4>2. Len(RemovalOrder(plan[u].last)) \in Nat
        BY <3>1, SMT DEF RemovalOrder
      <4> QED
        BY <1>0, <3>1, <4>1, <4>2, SMT DEF TypeOK
    <3>3. PICK name \in Names : name = RemovalOrder(plan[u].last)[at[u]]
      BY <3>1, <3>2, RemovalNames, Zenon
    <3>4. PICK path \in Paths : path = PathOf(u, name)
      BY PathTyped, Zenon
    <3>5. /\ Applies(u, name) => disk'[path] = RemovedContent(u, name)
          /\ ~Applies(u, name) => disk'[path] = disk[path]
          /\ \A p \in Paths : p # path => disk'[p] = disk[p]
      BY <1>0, <2>2, <3>3, <3>4, WriteFrame, Zenon DEF RemoveNext
    <3>6. path # "sudo" => disk'[path] \in {disk[path], "absent"}
      <4>1. path # "sudo" => name # "sudo"
        BY <3>4, PathTyped, Zenon
      <4> QED
        BY <3>5, <4>1, Zenon DEF RemovedContent
    <3>7. \A p \in Entries \cup {"gazeReceipt"} : disk'[p] \in {disk[p], "absent"}
      BY <2>0, <3>5, <3>6, Zenon
    <3> QED
      BY <1>1, <1>2, <3>7, OrdinaryKept, Zenon
  <2>3. CASE UndoRemove(u)
    <3>1. PICK path \in Paths : path = PathOf(u, UndoOf(u)[at[u]])
      BY <2>3, UndoPath, Zenon DEF UndoRemove
    <3>2. disk'[path] = "absent" /\ \A p \in Paths : p # path => disk'[p] = disk[p]
      BY <1>0, <2>3, <3>1, WriteFrame, Zenon DEF UndoRemove
    <3>3. \A p \in Entries \cup {"gazeReceipt"} : disk'[p] \in {disk[p], "absent"}
      BY <2>0, <3>2, Zenon
    <3> QED
      BY <1>1, <1>2, <3>3, OrdinaryKept, Zenon
  <2>4. CASE UndoCopy(u)
    <3>1. PICK path \in Paths : path = PathOf(u, UndoOf(u)[at[u]])
      BY <2>4, UndoPath, Zenon DEF UndoCopy
    <3>2. /\ disk'[path] \in {backup[u][path], "absent"}
          /\ \A p \in Paths : p # path => disk'[p] = disk[p]
      BY <1>0, <2>4, <3>1, WriteFrame, Zenon DEF UndoCopy
    <3>3. ~Empty(disk') => ~Empty(disk) \/ ~Empty(backup[u])
      BY <2>0, <3>2, Zenon DEF Empty
    <3>4. disk'["gazeReceipt"] \in {disk["gazeReceipt"], backup[u]["gazeReceipt"], "absent"}
      BY <2>0, <3>2, Zenon
    <3> QED
      BY <1>1, <1>2, <3>3, <3>4, Zenon DEF OrdinaryFiles, Empty
  <2> QED
    BY <2>1, <2>2, <2>3, <2>4
<1> QED
  BY <1>1, <1>3, <1>4, <1>5, RegistryInside, Zenon

LEMMA RegistryBeyond ==
  ASSUME TypeInv, TransactionInv, RegistryInv, NEW u \in Users,
         \/ BeginInstall(u) \/ ReadReceipts(u) \/ BeginRemove(u) \/ EnterRoot(u)
         \/ Commit(u) \/ LeaveUndo(u) \/ FinishFailed(u) \/ RemovePackages(u)
         \/ RemoveDirectories(u) \/ Crash(u),
         \A v \in Users \ {u} : pc[v] = "idle" /\ pc'[v] = "idle"
  PROVE  RegistryInv'
<1>0. TypeOK /\ OrdinaryFiles(disk) /\ HolderInRoot
  BY DEF TypeInv, RegistryInv
<1>1. pc'[u] \notin InRoot
  <2>1. pc'[u] \in {"idle", "reading", "asking", "blocked", "failed", "packages", "tidy"}
    BY <1>0, GoToFrame, EndFrame, Zenon DEF BeginInstall, ReadReceipts, BeginRemove, EnterRoot,
       Commit, LeaveUndo, FinishFailed, RemovePackages, RemoveDirectories, Crash
  <2> QED
    BY <2>1, SMT DEF InRoot
<1>2. \A v \in Users : pc'[v] \notin InRoot
  BY <1>1, IdleOutside, Zenon
<1>3. lock' = Nobody
  <2>1. lock = Nobody \/ (lock = u /\ pc[u] \in InRoot)
    <3>1. \A v \in Users \ {u} : pc[v] \notin InRoot
      BY IdleOutside, Zenon
    <3> QED
      BY <1>0, <3>1, Zenon DEF HolderInRoot, TypeOK
  <2>2. CASE Commit(u) \/ LeaveUndo(u) \/ Crash(u)
    BY <2>1, <2>2, Zenon DEF Commit, LeaveUndo, Crash, RootEnds
  <2>3. CASE \/ BeginInstall(u) \/ ReadReceipts(u) \/ BeginRemove(u) \/ EnterRoot(u)
             \/ FinishFailed(u) \/ RemovePackages(u) \/ RemoveDirectories(u)
    <3>1. lock' = lock
      BY <2>3, Zenon DEF BeginInstall, ReadReceipts, BeginRemove, EnterRoot, FinishFailed,
         RemovePackages, RemoveDirectories
    <3>2. pc[u] \in {"idle", "reading", "asking", "failed", "packages", "tidy"}
      BY <2>3, Zenon DEF BeginInstall, ReadReceipts, BeginRemove, EnterRoot, FinishFailed,
         RemovePackages, RemoveDirectories, MayBegin
    <3>3. pc[u] \notin InRoot
      BY <3>2, SMT DEF InRoot
    <3> QED
      BY <2>1, <3>1, <3>3
  <2> QED
    BY <2>2, <2>3, Zenon
<1>6. RemoveDirectories(u) =>
        registryDir' = registryDir \/ registryDir' = (registryDir /\ ~Empty(disk))
  BY <1>0, Zenon DEF RemoveDirectories, Empty, TypeOK
<1>4. OrdinaryFiles(disk)'
  <2>1. CASE BeginInstall(u)
    <3>1. registryDir' = registryDir /\ (disk' = disk \/ Write("sudo", "gaze"))
      BY <2>1, Zenon DEF BeginInstall
    <3>2. "sudo" \in Paths /\ Entries \cup {"gazeReceipt"} \subseteq Paths \ {"sudo"}
      BY RegistryPaths, Zenon DEF Paths, SharedPaths, OtherPaths
    <3>3. \A p \in Entries \cup {"gazeReceipt"} : disk'[p] = disk[p]
      BY <1>0, <3>1, <3>2, WriteFrame, Zenon
    <3>4. \A p \in Entries \cup {"gazeReceipt"} : disk'[p] \in {disk[p], "absent"}
      BY <3>3, Zenon
    <3> QED
      BY <1>0, <3>1, <3>4, OrdinaryKept, Zenon
  <2>2. CASE ~BeginInstall(u)
    <3>1. disk' = disk /\ (registryDir' = registryDir \/ registryDir' = (registryDir /\ ~Empty(disk)))
      BY <2>2, <1>6, Zenon DEF ReadReceipts, BeginRemove, EnterRoot, Commit, LeaveUndo, FinishFailed,
         RemovePackages, RemoveDirectories, Crash, machineVars, Empty
    <3>2. \A p \in Entries \cup {"gazeReceipt"} : disk'[p] \in {disk[p], "absent"}
      BY <3>1, Zenon
    <3>3. ~Empty(disk') => (registryDir => registryDir')
      BY <3>1, Zenon
    <3> QED
      BY <1>0, <3>2, <3>3, OrdinaryKept, Zenon
  <2> QED
    BY <2>1, <2>2
<1> QED
  BY <1>2, <1>3, <1>4, RegistryOutside, Zenon

(* The rest of the machine changes none of these files.                    *)
LEMMA RegistryElse ==
  ASSUME TypeInv, RegistryInv, UNCHANGED <<registryDir, lock, pc, plan, at, backup>>,
         \A p \in Entries \cup {"gazeReceipt"} : disk'[p] = disk[p],
         \A p \in Artifacts : disk[p] # "absent" => disk'[p] # "absent"
  PROVE  RegistryInv'
<1>1. OrdinaryFiles(disk)'
  BY Zenon DEF RegistryInv, OrdinaryFiles, Empty
<1>2. HolderInRoot'
  BY Zenon DEF RegistryInv, HolderInRoot, InRoot
<1>3. ASSUME NEW u \in Users, pc'[u] \in InRoot
      PROVE  OrdinaryFiles(backup[u])' /\ RegistryWritten(u)'
  <2>1. OrdinaryFiles(backup[u]) /\ RegistryWritten(u)
    BY <1>3, Zenon DEF RegistryInv, InRoot
  <2>2. OrdinaryFiles(backup[u])'
    BY <2>1, Zenon DEF OrdinaryFiles, Empty
  <2>3. disk'["legacy"] = disk["legacy"]
    BY Zenon DEF Entries
  <2>4. RegistryWritten(u)'
    BY <2>1, <2>3, Zenon DEF RegistryWritten, Empty, Clear
  <2> QED
    BY <2>2, <2>4
<1> QED
  BY <1>1, <1>2, <1>3, Zenon DEF RegistryInv, InRoot

LEMMA RegistryStart ==
  ASSUME Init
  PROVE  RegistryInv
<1>1. \A u \in Users : pc[u] \notin InRoot
  <2>1. \A u \in Users : pc[u] = "idle"
    BY Zenon DEF Init
  <2>2. "idle" \notin InRoot
    BY SMT DEF InRoot
  <2> QED
    BY <2>1, <2>2, Zenon
<1>2. lock = Nobody
  BY Zenon DEF Init
<1>3. /\ Entries \cup {"gazeReceipt"} \subseteq Paths
      /\ \A p \in Entries \cup {"gazeReceipt"} : p \notin Artifacts \cup {"sudo", "lockPam", "receipt"}
  BY RegistryPaths, SMT DEF OtherPaths, Entries, Artifacts, SharedPaths, Receipts
<1>4. \A p \in Entries \cup {"gazeReceipt"} : disk[p] = "absent"
  BY <1>3, Zenon DEF Init
<1> QED
  BY <1>1, <1>2, <1>4, Zenon DEF RegistryInv, HolderInRoot, OrdinaryFiles, Empty

LEMMA RegistryStep ==
  ASSUME TypeInv, TypeOK', LockHeld', TransactionInv, Alone, RegistryInv, ~Overlap, [Next]_vars
  PROVE  RegistryInv'
<1>0. TypeOK
  BY DEF TypeInv
<1>1. ASSUME NEW u \in Users,
             \/ BeginInstall(u) \/ ReadReceipts(u) \/ BeginRemove(u) \/ EnterRoot(u)
             \/ Lock(u) \/ InstallNext(u) \/ RemoveNext(u) \/ Commit(u) \/ Fail(u)
             \/ UndoRemove(u) \/ UndoCopy(u) \/ LeaveUndo(u)
             \/ FinishFailed(u) \/ RemovePackages(u) \/ RemoveDirectories(u) \/ Crash(u)
      PROVE  RegistryInv'
  <2>1. \A v \in Users \ {u} : pc[v] = "idle" /\ pc'[v] = "idle"
    BY <1>0, <1>1, OnlyCommand, Zenon
  <2> QED
    BY <1>1, <2>1, RegistryLock, RegistryInstallNext, RegistryUnwritten, RegistryBeyond, Zenon
<1>2. ASSUME (\E u \in Users : LockPamInstalled(u)) \/ LockPamRemoved PROVE RegistryInv'
  <2>1. /\ UNCHANGED <<registryDir, lock, pc, plan, at, backup>>
        /\ Write("lockPam", "managed") \/ Write("lockPam", "absent")
    BY <1>2, Zenon DEF LockPamInstalled, LockPamRemoved, rootVars
  <2>2. "lockPam" \in Paths
    BY Zenon DEF Paths, SharedPaths
  <2>3. \A p \in OtherPaths : disk'[p] = disk[p]
    BY <1>0, <2>1, <2>2, WriteFrame, Zenon DEF OtherPaths
  <2> QED
    BY <2>1, <2>3, RegistryElse, RegistryPaths, Zenon
<1>3. ASSUME NEW path \in Replaceable, Replaced(path) PROVE RegistryInv'
  <2>1. /\ path \in Artifacts /\ Write(path, "foreign")
        /\ UNCHANGED <<registryDir, lock, pc, plan, at, backup>>
    BY <1>3, SystemTransactionAssumption, Zenon DEF Replaced, rootVars
  <2>2. path \in Paths /\ path \notin Entries \cup {"gazeReceipt"} /\ Entries \cup {"gazeReceipt"} \cup Artifacts \subseteq Paths
    BY <2>1, RegistryPaths, Zenon DEF OtherPaths
  <2>3. disk'[path] = "foreign" /\ \A p \in Paths : p # path => disk'[p] = disk[p]
    BY <1>0, <2>1, <2>2, WriteFrame, Zenon
  <2>4. \A p \in Entries \cup {"gazeReceipt"} : disk'[p] = disk[p]
    BY <2>2, <2>3, Zenon
  <2>5. disk'[path] # "absent"
    BY <2>3
  <2>6. \A p \in Artifacts : disk[p] # "absent" => disk'[p] # "absent"
    BY <2>2, <2>3, <2>5, Zenon
  <2> QED
    BY <2>1, <2>4, <2>6, RegistryElse, Zenon
<1>4. ASSUME UNCHANGED vars PROVE RegistryInv'
  <2>1. UNCHANGED <<registryDir, lock, pc, plan, at, backup, disk>>
    BY <1>4, Zenon DEF vars, machineVars, rootVars
  <2>2. /\ \A p \in Entries \cup {"gazeReceipt"} : disk'[p] = disk[p]
        /\ \A p \in Artifacts : disk[p] # "absent" => disk'[p] # "absent"
    BY <2>1, Zenon
  <2> QED
    BY <2>1, <2>2, RegistryElse, Zenon
<1> QED
  BY <1>1, <1>2, <1>3, <1>4, Zenon DEF Next

-----------------------------------------------------------------------------
(* What a user sees of the shared installation.                            *)
LEMMA SameSettled ==
  ASSUME UNCHANGED interrupted, \A p \in OtherPaths : Settled'[p] = Settled[p]
  PROVE  UNCHANGED Installation!installationVars
<1>1. /\ Complete(Settled') <=> Complete(Settled)
      /\ Clear(Settled') <=> Clear(Settled)
      /\ \A e \in Entries : Settled'[e] = Settled[e]
  BY SameFiles
<1> HIDE DEF Settled
<1>2. RegistryOf(Settled') = RegistryOf(Settled)
  BY <1>1, Zenon DEF RegistryOf
<1>3. PartsOf(Settled') = PartsOf(Settled)
  BY <1>1, Zenon DEF PartsOf
<1> QED
  BY <1>2, <1>3, Zenon DEF Installation!installationVars, RegistryOf, PartsOf, Complete, Clear

(* When the only command is that of u, they see what it has found.         *)
LEMMA SettledBase ==
  ASSUME TypeOK, LockHeld, HolderInRoot, NEW u \in Users, \A v \in Users \ {u} : pc[v] = "idle"
  PROVE  Settled = Base(u)
<1>1. \A v \in Users \ {u} : pc[v] \notin InRoot
  BY IdleOutside, Zenon
<1>2. lock = Nobody \/ (lock = u /\ pc[u] \in InRoot)
  BY <1>1, Zenon DEF HolderInRoot, TypeOK
<1>3. pc[u] \in InRoot => lock = u /\ u # Nobody
  BY SystemTransactionAssumption, Zenon DEF LockHeld
<1> QED
  BY <1>2, <1>3, Zenon DEF Settled, Base

LEMMA SettledBaseNext ==
  ASSUME TypeOK', LockHeld', HolderInRoot', NEW u \in Users, \A v \in Users \ {u} : pc'[v] = "idle"
  PROVE  Settled' = Base(u)'
<1>1. \A v \in Users \ {u} : pc'[v] \notin InRoot
  BY IdleOutside, Zenon
<1>2. lock' = Nobody \/ (lock' = u /\ pc'[u] \in InRoot)
  BY <1>1, Zenon DEF HolderInRoot, TypeOK, InRoot
<1>3. pc'[u] \in InRoot => lock' = u /\ u # Nobody
  BY SystemTransactionAssumption, Zenon DEF LockHeld, InRoot
<1> QED
  BY <1>2, <1>3, Zenon DEF Settled, Base, InRoot

(* The registry entries a command of u does not change.                    *)
LEMMA OtherEntries ==
  ASSUME TypeInv, TransactionInv, NEW u \in Users, pc[u] \in InRoot
  PROVE  \A e \in Entries \ {u, "legacy"} : disk[e] = backup[u][e]
<1> SUFFICES ASSUME NEW e \in Entries \ {u, "legacy"} PROVE ~Pending(u, e) /\ e \in Paths \ {"lockPam"}
  BY Zenon DEF TransactionInv, OthersUntouched, Paths, SharedPaths, Artifacts, Receipts, Entries, InRoot
<1>1. e \in Users /\ e \in Paths \ {"lockPam"} /\ e \notin Names
  BY RegistryPaths, SystemTransactionAssumption, Zenon DEF Entries, OtherPaths, Names
<1>2. ~Pending(u, e)
  <2> SUFFICES ASSUME NEW i \in 1..Len(UndoOf(u)), PathOf(u, UndoOf(u)[i]) = e PROVE FALSE
    BY Zenon DEF Pending
  <2>1. plan[u].last \in BOOLEAN
    BY SMT DEF TypeInv, TypeOK, Plans
  <2>2. UndoOf(u)[i] \in Names
    BY <2>1, UndoNames, Zenon DEF UndoOf
  <2> QED
    BY <1>1, <2>2, Zenon DEF PathOf
<1> QED
  BY <1>1, <1>2

LEMMA InstallImplements ==
  ASSUME TypeInv, TypeOK', TransactionInv, RegistryInv, NEW u \in Users, CommandSound(u),
         Commit(u), plan[u].kind = "install", Settled = backup[u], Settled' = disk
  PROVE  Installation!Install(u)
<1>1. /\ disk[u] = "managed" /\ Complete(disk) /\ pc[u] = "active" /\ pc[u] \in InRoot
      /\ interrupted' # "since"
  <2>1. "before" # "since"
    OBVIOUS
  <2> QED
    BY <2>1, InstallLeaves, Zenon DEF Commit, InRoot
<1>2. RegistryWritten(u) /\ at[u] > 7
  BY <1>1, InstallLeaves, Zenon DEF RegistryInv
<1>3. \A e \in Entries \ {u, "legacy"} : disk[e] = backup[u][e]
  BY <1>1, OtherEntries, Zenon
<1>4. u \in Entries /\ "legacy" \in Entries /\ disk[u] # "absent"
  BY <1>1, RegistryPaths, SMT
<1>5. PartsOf(disk) = "all"
  BY <1>1, Zenon DEF PartsOf
<1>6. CASE ~plan[u].legacy
  <2>1. disk["legacy"] = backup[u]["legacy"]
    BY <1>1, <1>2, <1>6, Zenon DEF RegistryWritten
  <2>2. RegistryOf(disk) = RegistryOf(backup[u]) \cup {u}
    BY <1>3, <1>4, <2>1, Zenon DEF RegistryOf
  <2>3. RegistryOf(Settled)' = RegistryOf(Settled) \cup {u}
    BY <2>2, Zenon DEF RegistryOf
  <2>4. PartsOf(Settled)' = "all"
    BY <1>5, Zenon DEF PartsOf, Complete, Clear
  <2> QED
    BY <1>1, <2>3, <2>4, Zenon DEF Installation!Install
<1>7. CASE plan[u].legacy
  <2>1. Empty(backup[u]) /\ ~Clear(backup[u]) /\ disk["legacy"] = "managed"
    BY <1>1, <1>2, <1>7, Zenon DEF RegistryWritten
  <2>2. RegistryOf(backup[u]) = {}
    BY <2>1, Zenon DEF RegistryOf, Empty
  <2>3. RegistryOf(disk) = {u, "legacy"}
    <3>1. disk["legacy"] # "absent"
      BY <2>1
    <3> QED
      BY <1>3, <1>4, <2>1, <3>1, Zenon DEF RegistryOf, Empty
  <2>4. PartsOf(backup[u]) # "none"
    BY <2>1, SMT DEF PartsOf
  <2>5. RegistryOf(Settled) = {} /\ PartsOf(Settled) # "none"
    BY <2>2, <2>4, Zenon
  <2>6. RegistryOf(Settled)' = {u, "legacy"} /\ PartsOf(Settled)' = "all"
    BY <1>5, <2>3, Zenon DEF RegistryOf, PartsOf, Complete, Clear
  <2> QED
    BY <1>1, <2>5, <2>6, Zenon DEF Installation!Install
<1> QED
  BY <1>6, <1>7

LEMMA RemovalImplements ==
  ASSUME TypeInv, TypeOK', TransactionInv, RegistryInv, NEW u \in Users, CommandSound(u),
         Commit(u), plan[u].kind = "remove", Settled = backup[u], Settled' = disk
  PROVE  Installation!Remove(u)
<1>1. pc[u] = "active" /\ pc[u] \in InRoot /\ interrupted' = interrupted
  BY SMT DEF Commit, InRoot
<1>2. Base(u) = backup[u] /\ pc[u] \notin {"packages", "tidy"}
  BY <1>1, SMT DEF Base, InRoot
<1>3. RemovalSound(u) /\ OrdinaryFiles(backup[u])
  BY <1>1, Zenon DEF CommandSound, PlanSound, RegistryInv
<1>4. u \in Entries /\ backup[u][u] # "absent"
  BY <1>2, <1>3, RegistryPaths, SMT DEF RemovalSound
<1>5. u \in RegistryOf(Settled)
  BY <1>4, Zenon DEF RegistryOf
<1>6. CASE ~plan[u].last
  <2>1. /\ disk[u] = "absent" /\ \A p \in OtherPaths : p # u => disk[p] = backup[u][p]
        /\ ~Empty(disk)
        /\ \A p \in Artifacts \cup Receipts \cup {"sudo"} : disk[p] = backup[u][p]
    BY <1>6, RemovalLeaves, Zenon
  <2>2. RegistryOf(disk) = RegistryOf(backup[u]) \ {u}
    BY <2>1, RegistryPaths, Zenon DEF RegistryOf
  <2>3. RegistryOf(disk) # {}
    BY <2>1, Zenon DEF RegistryOf, Empty
  <2>4. (Complete(disk) <=> Complete(backup[u])) /\ (Clear(disk) <=> Clear(backup[u]))
    <3>1. "receipt" \in Receipts
      BY Zenon DEF Receipts
    <3> QED
      BY <2>1, <3>1, Zenon DEF Complete, Clear
  <2>5. PartsOf(disk) = PartsOf(backup[u])
    BY <2>4, Zenon DEF PartsOf
  <2>6. RegistryOf(Settled)' = RegistryOf(Settled) \ {u} /\ RegistryOf(Settled)' # {}
    BY <2>2, <2>3, Zenon DEF RegistryOf
  <2>7. PartsOf(Settled)' = PartsOf(Settled)
    BY <2>5, Zenon DEF PartsOf, Complete, Clear
  <2> QED
    BY <1>1, <1>5, <2>6, <2>7, Zenon DEF Installation!Remove
<1>7. CASE plan[u].last
  <2>1. /\ disk["sudo"] = Unhooked(u) /\ Empty(disk)
        /\ \A p \in Artifacts \cup {"receipt"} : disk[p] = "absent"
        /\ plan[u].ownsGaze => disk["gazeReceipt"] = "absent"
        /\ ~plan[u].ownsGaze => disk["gazeReceipt"] = backup[u]["gazeReceipt"]
    BY <1>7, LastRemovalLeaves, Zenon
  <2>2. disk["sudo"] # "hook"
    BY <2>1, SMT DEF Unhooked
  <2>3. disk["gazeReceipt"] = "absent"
    BY <1>2, <1>3, <2>1, Zenon DEF RemovalSound, OrdinaryFiles
  <2>4. Clear(disk)
    BY <2>1, <2>2, <2>3, Zenon DEF Clear, Receipts
  <2>5. PartsOf(disk) = "none"
    BY <2>2, <2>4, Zenon DEF PartsOf, Complete
  <2>6. RegistryOf(disk) = {}
    BY <2>1, Zenon DEF RegistryOf, Empty
  <2>7. RegistryOf(backup[u]) \ {u} = {}
    BY <1>2, <1>3, <1>7, Zenon DEF RemovalSound, RegistryOf
  <2>8. RegistryOf(Settled)' = RegistryOf(Settled) \ {u} /\ RegistryOf(Settled)' = {}
    BY <2>6, <2>7, Zenon DEF RegistryOf
  <2>9. PartsOf(Settled)' = "none"
    BY <2>5, Zenon DEF PartsOf, Complete, Clear
  <2> QED
    BY <1>1, <1>5, <2>8, <2>9, Zenon DEF Installation!Remove
<1> QED
  BY <1>6, <1>7

(* A command that is killed leaves the files as they are, and of the       *)
(* registry it has changed its own entry at most, and the mark.            *)
LEMMA CrashImplements ==
  ASSUME TypeInv, TransactionInv, NEW u \in Users, Crash(u), Settled = Base(u), Settled' = disk
  PROVE  Installation!Kill(u)
<1>1. interrupted' = "since"
  BY DEF Crash
<1>2. \A e \in Entries \ {u, "legacy"} : disk[e] = Base(u)[e]
  BY OtherEntries, Zenon DEF Base
<1>3. RegistryOf(disk) \ {u, "legacy"} = RegistryOf(Base(u)) \ {u, "legacy"}
  BY <1>2, Zenon DEF RegistryOf
<1>4. RegistryOf(Settled)' \ {u, "legacy"} = RegistryOf(Settled) \ {u, "legacy"}
  BY <1>3, Zenon DEF RegistryOf
<1>5. PartsOf(Settled)' \in {"all", "none", "some"}
  BY Zenon DEF PartsOf
<1> QED
  BY <1>1, <1>4, <1>5, Zenon DEF Installation!Kill

LEMMA InstallationStep ==
  ASSUME TypeInv, TypeOK', LockHeld', TransactionInv, MachineInv, RegistryInv, RegistryInv',
         ~Overlap, [Next]_vars
  PROVE  [Installation!Next]_(Installation!installationVars)
<1>0. TypeOK /\ LockHeld /\ Alone /\ HolderInRoot /\ HolderInRoot'
  BY Zenon DEF TypeInv, MachineInv, RegistryInv
<1>1. ASSUME NEW u \in Users,
             \/ BeginInstall(u) \/ ReadReceipts(u) \/ BeginRemove(u) \/ EnterRoot(u)
             \/ Lock(u) \/ InstallNext(u) \/ RemoveNext(u) \/ Commit(u) \/ Fail(u)
             \/ UndoRemove(u) \/ UndoCopy(u) \/ LeaveUndo(u)
             \/ FinishFailed(u) \/ RemovePackages(u) \/ RemoveDirectories(u) \/ Crash(u)
      PROVE  [Installation!Next]_(Installation!installationVars)
  <2>1. \A v \in Users \ {u} : pc[v] = "idle" /\ pc'[v] = "idle"
    BY <1>0, <1>1, OnlyCommand, Zenon
  <2>2. Settled = Base(u) /\ Settled' = Base(u)'
    BY <1>0, <2>1, SettledBase, SettledBaseNext, Zenon
  <2>3. CASE Commit(u)
    <3>1. pc[u] = "active" /\ disk' = disk
      BY <2>3, Zenon DEF Commit, machineVars
    <3>2. pc[u] \in InRoot /\ pc[u] # "idle"
      BY <3>1, SMT DEF InRoot
    <3>3. pc'[u] \notin InRoot
      <4>1. pc'[u] = "idle" \/ pc'[u] = "packages"
        BY <1>0, <2>3, GoToFrame, EndFrame, Zenon DEF Commit
      <4> QED
        BY <4>1, SMT DEF InRoot
    <3>4. Settled = backup[u] /\ Settled' = disk
      BY <2>2, <3>1, <3>2, <3>3, Zenon DEF Base, InRoot
    <3>5. CommandSound(u) /\ plan[u].kind \in {"install", "remove"}
      BY <3>2, Zenon DEF MachineInv, CommandSound, PlanSound
    <3>6. Installation!Install(u) \/ Installation!Remove(u)
      BY <2>3, <3>4, <3>5, InstallImplements, RemovalImplements, Zenon
    <3> QED
      BY <3>6, Zenon DEF Installation!Next
  <2>4. CASE Crash(u)
    <3>1. pc'[u] \notin InRoot /\ disk' = disk
      BY <1>0, <2>4, EndFrame, IdleOutside, Zenon DEF Crash, machineVars
    <3>2. Settled' = disk
      BY <2>2, <3>1, Zenon DEF Base, InRoot
    <3>3. Installation!Kill(u)
      BY <2>2, <2>4, <3>2, CrashImplements, Zenon
    <3> QED
      BY <3>3, Zenon DEF Installation!Next
  <2>5. CASE \/ EnterRoot(u) \/ Lock(u) \/ InstallNext(u) \/ RemoveNext(u) \/ Fail(u)
             \/ UndoRemove(u) \/ UndoCopy(u) \/ LeaveUndo(u)
    <3>1. \A p \in OtherPaths : Base(u)'[p] = Base(u)[p]
      BY <2>5, BaseSame, Zenon
    <3>2. interrupted' = interrupted
      BY <2>5, Zenon DEF EnterRoot, Lock, InstallNext, RemoveNext, Fail, UndoRemove, UndoCopy,
         LeaveUndo, pastVars
    <3>3. \A p \in OtherPaths : Settled'[p] = Settled[p]
      BY <2>2, <3>1, Zenon
    <3> QED
      BY <3>2, <3>3, SameSettled, Zenon
  <2>6. CASE \/ ReadReceipts(u) \/ BeginRemove(u) \/ FinishFailed(u) \/ RemovePackages(u)
             \/ RemoveDirectories(u)
    <3>1. disk' = disk /\ interrupted' = interrupted
      BY <2>6, Zenon DEF ReadReceipts, BeginRemove, FinishFailed, RemovePackages,
         RemoveDirectories, machineVars, pastVars
    <3>2. /\ pc[u] \in {"idle", "reading", "failed", "packages", "tidy"}
          /\ pc'[u] \in {"idle", "asking", "tidy"}
      BY <1>0, <2>6, GoToFrame, EndFrame, Zenon DEF ReadReceipts, BeginRemove, FinishFailed,
         RemovePackages, RemoveDirectories, MayBegin
    <3>3. pc[u] \notin InRoot /\ pc'[u] \notin InRoot
      BY <3>2, SMT DEF InRoot
    <3>4. Settled = disk /\ Settled' = disk
      BY <2>2, <3>1, <3>3, Zenon DEF Base, InRoot
    <3>5. \A p \in OtherPaths : Settled'[p] = Settled[p]
      BY <3>4, Zenon
    <3> QED
      BY <3>1, <3>5, SameSettled, Zenon
  <2>7. CASE BeginInstall(u)
    <3>1. /\ interrupted' = interrupted /\ pc[u] = "idle" /\ pc'[u] = "reading"
          /\ \/ disk' = disk
             \/ disk["sudo"] = "plain" /\ Write("sudo", "gaze")
      BY <1>0, <2>7, GoToFrame, Zenon DEF BeginInstall, MayBegin, pastVars
    <3>2. pc[u] \notin InRoot /\ pc'[u] \notin InRoot
      BY <3>1, SMT DEF InRoot
    <3>3. Settled = disk /\ Settled' = disk'
      BY <2>2, <3>2, Zenon DEF Base, InRoot
    <3>4. CASE disk' = disk
      <4>1. \A p \in OtherPaths : Settled'[p] = Settled[p]
        BY <3>3, <3>4, Zenon
      <4> QED
        BY <3>1, <4>1, SameSettled, Zenon
    <3>5. CASE disk["sudo"] = "plain" /\ Write("sudo", "gaze")
      <4>1. /\ "sudo" \in Paths /\ Entries \cup Artifacts \cup Receipts \subseteq Paths \ {"sudo"}
            /\ "receipt" \in Receipts
        BY SystemTransactionAssumption, SMT DEF Paths, SharedPaths, Entries, Artifacts, Receipts
      <4>2. /\ disk'["sudo"] = "gaze"
            /\ \A p \in Entries \cup Artifacts \cup Receipts : disk'[p] = disk[p]
        BY <1>0, <3>5, <4>1, WriteFrame, Zenon
      <4>3. disk["sudo"] # "hook" /\ disk'["sudo"] # "hook"
        BY <3>5, <4>2
      <4>4. (Complete(disk') <=> Complete(disk)) /\ (Clear(disk') <=> Clear(disk))
        BY <4>2, <4>3, Zenon DEF Complete, Clear
      <4>5. PartsOf(disk') = PartsOf(disk) /\ RegistryOf(disk') = RegistryOf(disk)
        BY <4>2, <4>4, Zenon DEF PartsOf, RegistryOf
      <4>6. PartsOf(Settled)' = PartsOf(Settled) /\ RegistryOf(Settled)' = RegistryOf(Settled)
        BY <3>3, <4>5, Zenon DEF PartsOf, RegistryOf, Complete, Clear
      <4> QED
        BY <3>1, <4>6, Zenon DEF Installation!installationVars
    <3> QED
      BY <3>1, <3>4, <3>5
  <2> QED
    BY <1>1, <2>3, <2>4, <2>5, <2>6, <2>7, Zenon
<1>2. ASSUME (\E u \in Users : LockPamInstalled(u)) \/ LockPamRemoved
      PROVE  [Installation!Next]_(Installation!installationVars)
  <2>1. /\ UNCHANGED <<lock, backup, interrupted>>
        /\ Write("lockPam", "managed") \/ Write("lockPam", "absent")
    BY <1>2, Zenon DEF LockPamInstalled, LockPamRemoved, rootVars, pastVars
  <2>2. "lockPam" \in Paths
    BY Zenon DEF Paths, SharedPaths
  <2>3. \A p \in OtherPaths : disk'[p] = disk[p]
    BY <1>0, <2>1, <2>2, WriteFrame, Zenon DEF OtherPaths
  <2>4. \A p \in OtherPaths : Settled'[p] = Settled[p]
    BY <2>1, <2>3, Zenon DEF Settled
  <2> QED
    BY <2>1, <2>4, SameSettled, Zenon
<1>3. ASSUME NEW path \in Replaceable, Replaced(path)
      PROVE  [Installation!Next]_(Installation!installationVars)
  <2>1. /\ path \in Artifacts /\ Write(path, "foreign") /\ disk[path] = "managed"
        /\ UNCHANGED <<lock, interrupted>> /\ \A u \in Users : pc[u] = "idle"
    BY <1>3, SystemTransactionAssumption, Zenon DEF Replaced, pastVars
  <2>2. /\ path \in Paths /\ Artifacts \subseteq Paths
        /\ Entries \cup Receipts \cup {"sudo"} \subseteq Paths \ Artifacts /\ "receipt" \in Receipts
    BY <2>1, SystemTransactionAssumption, SMT DEF Paths, SharedPaths, Entries, Artifacts, Receipts
  <2>3. disk'[path] = "foreign" /\ \A p \in Paths : p # path => disk'[p] = disk[p]
    BY <1>0, <2>1, <2>2, WriteFrame, Zenon
  <2>4. \A p \in Entries \cup Receipts \cup {"sudo"} : disk'[p] = disk[p]
    BY <2>1, <2>2, <2>3, Zenon
  <2>5. disk[path] # "absent" /\ disk'[path] # "absent"
    BY <2>1, <2>3
  <2>6. \A p \in Artifacts : disk'[p] # "absent" <=> disk[p] # "absent"
    BY <2>2, <2>3, <2>5, Zenon
  <2>7. (Complete(disk') <=> Complete(disk)) /\ ~Clear(disk') /\ ~Clear(disk)
    BY <2>1, <2>2, <2>4, <2>5, <2>6, Zenon DEF Complete, Clear
  <2>8. PartsOf(disk') = PartsOf(disk) /\ RegistryOf(disk') = RegistryOf(disk)
    BY <2>4, <2>7, Zenon DEF PartsOf, RegistryOf
  <2>9. lock = Nobody
    BY <1>0, <2>1, IdleOutside, Zenon DEF HolderInRoot, TypeOK
  <2>10. Settled = disk /\ Settled' = disk'
    BY <2>1, <2>9, Zenon DEF Settled
  <2>11. PartsOf(Settled)' = PartsOf(Settled) /\ RegistryOf(Settled)' = RegistryOf(Settled)
    BY <2>8, <2>10, Zenon DEF PartsOf, RegistryOf, Complete, Clear
  <2> QED
    BY <2>1, <2>11, Zenon DEF Installation!installationVars
<1>4. ASSUME UNCHANGED vars PROVE [Installation!Next]_(Installation!installationVars)
  <2>1. UNCHANGED <<lock, backup, interrupted, disk>>
    BY <1>4, Zenon DEF vars, machineVars, rootVars, pastVars
  <2>2. \A p \in OtherPaths : Settled'[p] = Settled[p]
    BY <2>1, Zenon DEF Settled
  <2> QED
    BY <2>1, <2>2, SameSettled, Zenon
<1> QED
  BY <1>1, <1>2, <1>3, <1>4, Zenon DEF Next

LEMMA InstallationStart ==
  ASSUME Init
  PROVE  Installation!Init
<1>1. MachineInv /\ lock = Nobody /\ interrupted = "never" /\ \A u \in Users : pc[u] = "idle"
  BY MachineStart, Zenon DEF Init
<1>2. /\ Entries \cup Artifacts \cup {"sudo", "receipt"} \subseteq Paths
      /\ \A e \in Entries : e \notin Artifacts \cup {"sudo", "lockPam", "receipt"}
      /\ \A p \in Artifacts : p # "sudo"
      /\ "receipt" \notin Artifacts \cup {"sudo", "lockPam"}
  BY SystemTransactionAssumption, SMT DEF Paths, SharedPaths, Entries, Artifacts, Receipts
<1>3. Settled = disk
  BY <1>1, Zenon DEF Settled
<1>4. \A e \in Entries : disk[e] = "absent"
  BY <1>2, Zenon DEF Init
<1>5. PartsOf(disk) \in {"all", "none"}
  <2>1. CASE legacyStart
    <3>1. /\ disk["sudo"] = "hook" /\ disk["receipt"] \in {"added", "replaced"}
          /\ \A p \in Artifacts : disk[p] = "managed"
      BY <1>2, <2>1, Zenon DEF Init
    <3>2. disk["receipt"] # "absent" /\ \A p \in Artifacts : disk[p] # "absent"
      BY <3>1, SMT
    <3> QED
      BY <3>1, <3>2, Zenon DEF PartsOf, Complete
  <2>2. CASE ~legacyStart
    <3>1. Clear(disk)
      BY <1>1, <1>4, <2>2, SMT DEF MachineInv, QuietSound, FilesSound, Traceable, Empty, Quiet
    <3> QED
      BY <3>1, Zenon DEF PartsOf
  <2> QED
    BY <2>1, <2>2
<1>6. RegistryOf(disk) = {}
  BY <1>4, Zenon DEF RegistryOf
<1>7. (interrupted = "since") = FALSE
  BY <1>1
<1> QED
  BY <1>3, <1>5, <1>6, <1>7, Zenon DEF Installation!Init

LEMMA RegistryInvariant ==
  ASSUME ~Overlap, "lose" \notin Faults
  PROVE  Spec => [](TypeInv /\ TransactionInv /\ MachineInv /\ RegistryInv)
<1> DEFINE Inv == TypeInv /\ TransactionInv /\ MachineInv /\ RegistryInv
<1>1. Init => Inv
  BY InitTypes, InitTransaction, MachineStart, RegistryStart
<1>2. Inv /\ [Next]_vars => Inv'
  BY TypesNext, LockNext, ReceiptNext, TransactionNext, MachineStep, RegistryStep
     DEF TypeInv, MachineInv
<1> QED
  BY <1>1, <1>2, PTL DEF Spec

(* While commands do not overlap, whatever fails (but for a rollback's     *)
(* copies) or is killed: what users see of root_integrate, root_remove and *)
(* their rollback is a registry and shared parts that change in one step   *)
(* or not at all.                                                          *)
THEOREM InstallationImplemented ==
  ASSUME ~Overlap, "lose" \notin Faults
  PROVE  Spec => ImplementsInstallation
<1> DEFINE Inv == TypeInv /\ TransactionInv /\ MachineInv /\ RegistryInv
<1>1. Inv /\ Inv' /\ [Next]_vars => [Installation!Next]_(Installation!installationVars)
  BY InstallationStep DEF TypeInv
<1> QED
  BY <1>1, InstallationStart, RegistryInvariant, PTL DEF Spec, ImplementsInstallation, Installation!Spec

(* While commands do not overlap, rollbacks copy every file back, and      *)
(* unless a command was killed and nothing has been installed since, a     *)
(* user without a command has every component at every step of another     *)
(* user's install or uninstall, but for a rollback (root_remove, what      *)
(* test_uninstall_script.sh says of it).                                   *)
THEOREM OthersKeepComponents ==
  ASSUME ~Overlap, "lose" \notin Faults
  PROVE  Spec => [](interrupted # "since" /\ ~RollingBack => OtherUsersKeepComponents)
<1>1. ASSUME TypeInv, TransactionInv, MachineInv, RegistryInv, interrupted # "since", ~RollingBack,
             NEW v \in Users, pc[v] = "idle", Registered(v)
      PROVE  HookFilesPresent /\ gaze
  <2>1. Certain /\ v \in Entries /\ disk[v] # "absent" /\ ~Empty(disk)
    <3>1. disk[v] # "absent" /\ v \in Entries
      BY <1>1, SMT DEF Registered, Entries
    <3> QED
      BY <1>1, <3>1, Zenon DEF Certain, Empty
  <2>2. CASE Quiet
    BY <1>1, <2>1, <2>2, Zenon DEF MachineInv, QuietSound, FilesSound, Complete, HookFilesPresent
  <2>3. CASE ~Quiet
    <3>1. PICK u \in Users : pc[u] # "idle"
      BY <2>3, Zenon DEF Quiet
    <3>2. CommandSound(u) /\ u # v
      BY <1>1, <3>1, Zenon DEF MachineInv
    <3>3. FilesSound(Base(u))
      BY <3>2, Zenon DEF CommandSound, PlanSound
    <3>4. CASE pc[u] \notin InRoot
      BY <2>1, <3>3, <3>4, Zenon DEF Base, FilesSound, Complete, HookFilesPresent
    <3>5. CASE pc[u] \in InRoot
      <4>1. pc[u] = "active" /\ pc[u] \notin {"packages", "tidy"}
        BY <1>1, <3>5, SMT DEF RollingBack, InRoot
      <4>2. Base(u) = backup[u]
        BY <3>5, Zenon DEF Base
      <4>3. backup[u][v] = disk[v]
        BY <1>1, <2>1, <3>2, <3>5, OtherEntries, RegistryPaths, Zenon
      <4>4. Complete(backup[u]) /\ gaze
        BY <2>1, <3>3, <4>2, <4>3, Zenon DEF FilesSound, Empty
      <4>5. CASE plan[u].kind = "install"
        <5>1. \A p \in Artifacts : backup[u][p] # "absent" => disk[p] # "absent"
          BY <1>1, <3>5, <4>1, <4>5, Zenon DEF RegistryInv, RegistryWritten
        <5> QED
          BY <4>4, <5>1, Zenon DEF Complete, HookFilesPresent
      <4>6. CASE plan[u].kind = "remove"
        <5>1. ~plan[u].last
          BY <2>1, <3>2, <4>1, <4>2, <4>3, <4>6, Zenon DEF CommandSound, PlanSound, RemovalSound
        <5>2. \A p \in OtherPaths : p # u => disk[p] = backup[u][p]
          BY <1>1, <4>1, <4>6, <5>1, EntryOnly, Zenon
        <5>3. \A p \in Artifacts : disk[p] = backup[u][p]
          BY <5>2, RegistryPaths, Zenon DEF SharedPaths
        <5> QED
          BY <4>4, <5>3, Zenon DEF Complete, HookFilesPresent
      <4> QED
        BY <3>2, <4>5, <4>6, Zenon DEF CommandSound, PlanSound
    <3> QED
      BY <3>4, <3>5
  <2> QED
    BY <2>2, <2>3
<1>2. TypeInv /\ TransactionInv /\ MachineInv /\ RegistryInv
        => (interrupted # "since" /\ ~RollingBack => OtherUsersKeepComponents)
  BY <1>1, Zenon DEF OtherUsersKeepComponents
<1> QED
  BY <1>2, RegistryInvariant, PTL

-----------------------------------------------------------------------------
(* What an install has written, whoever else works on the machine.         *)

InstallSoFar(u) ==
  pc[u] = "active" /\ plan[u].kind = "install" =>
    \A k \in 1..9 : k < at[u] /\ Applies(u, InstallOrder[k]) =>
      disk[PathOf(u, InstallOrder[k])] = InstalledContent(u, InstallOrder[k])

(* While one user's root part works, the command of another changes no     *)
(* file.                                                                   *)
LEMMA OthersWriteNothing ==
  ASSUME TypeInv, NEW u \in Users, NEW v \in Users \ {u}, pc[v] \in InRoot,
         \/ BeginInstall(u) \/ ReadReceipts(u) \/ BeginRemove(u) \/ EnterRoot(u)
         \/ Lock(u) \/ InstallNext(u) \/ RemoveNext(u) \/ Commit(u) \/ Fail(u)
         \/ UndoRemove(u) \/ UndoCopy(u) \/ LeaveUndo(u)
         \/ FinishFailed(u) \/ RemovePackages(u) \/ RemoveDirectories(u)
         \/ Crash(u)
  PROVE  disk' = disk
<1>1. lock = v /\ lock # Nobody /\ pc[u] \notin InRoot
  BY SystemTransactionAssumption, Zenon DEF TypeInv, LockHeld
<1>2. ~(InstallNext(u) \/ RemoveNext(u) \/ UndoRemove(u) \/ UndoCopy(u))
  <2>1. pc[u] # "active" /\ pc[u] # "undoing"
    BY <1>1, Zenon DEF InRoot
  <2> QED
    BY <2>1, Zenon DEF InstallNext, RemoveNext, UndoRemove, UndoCopy
<1>3. BeginInstall(u) => disk' = disk
  BY <1>1, Zenon DEF BeginInstall
<1> QED
  BY <1>2, <1>3, Zenon DEF ReadReceipts, BeginRemove, EnterRoot, Lock, Commit, Fail, LeaveUndo,
     FinishFailed, RemovePackages, RemoveDirectories, Crash, machineVars

(* Two names of an install are two paths.                                  *)
LEMMA InstallPathsDiffer ==
  ASSUME NEW u \in Users, NEW j \in 1..9, NEW k \in 1..9, j # k
  PROVE  PathOf(u, InstallOrder[j]) # PathOf(u, InstallOrder[k])
<1>1. InstallOrder[j] # InstallOrder[k]
  BY SMT DEF InstallOrder
<1>2. \A i \in 1..9 : InstallOrder[i] \in SharedPaths \cup {"entry", "legacy"}
  BY InstallNames, Zenon DEF Names
<1>3. u \notin SharedPaths \cup {"legacy", "entry"}
  BY SystemTransactionAssumption, Zenon
<1> QED
  BY <1>1, <1>2, <1>3, Zenon DEF PathOf

LEMMA SoFarKept ==
  ASSUME NEW u \in Users, InstallSoFar(u), pc'[u] = pc[u], plan'[u] = plan[u], at'[u] = at[u],
         pc[u] = "active" => \A p \in OtherPaths : disk'[p] = disk[p]
  PROVE  InstallSoFar(u)'
<1> SUFFICES ASSUME pc[u] = "active", plan[u].kind = "install", NEW k \in 1..9, k < at[u],
                    Applies(u, InstallOrder[k])'
             PROVE  disk'[PathOf(u, InstallOrder[k])] = InstalledContent(u, InstallOrder[k])'
  BY Zenon DEF InstallSoFar, InstallOrder, PathOf
<1>1. /\ Applies(u, InstallOrder[k])
      /\ InstalledContent(u, InstallOrder[k])' = InstalledContent(u, InstallOrder[k])
  BY Zenon DEF Applies, InstalledContent, InstallOrder
<1>2. disk[PathOf(u, InstallOrder[k])] = InstalledContent(u, InstallOrder[k])
  BY <1>1, Zenon DEF InstallSoFar
<1>3. PathOf(u, InstallOrder[k]) \in OtherPaths
  <2>1. InstallOrder[k] \in Names /\ InstallOrder[k] # "lockPam"
    BY InstallNames, InstallEntries, Zenon
  <2>2. u # "lockPam"
    BY RegistryPaths, Zenon DEF SharedPaths
  <2> QED
    BY <2>1, <2>2, PathTyped, Zenon DEF OtherPaths, PathOf
<1> QED
  BY <1>1, <1>2, <1>3, Zenon

LEMMA SoFarInstallNext ==
  ASSUME TypeInv, NEW u \in Users, InstallSoFar(u), InstallNext(u)
  PROVE  InstallSoFar(u)'
<1>0. TypeOK
  BY DEF TypeInv
<1>1. /\ pc[u] = "active" /\ plan[u].kind = "install" /\ at[u] <= 9
      /\ UNCHANGED <<pc, plan, backup>> /\ at' = [at EXCEPT ![u] = @ + 1]
  BY InstallLength, Zenon DEF InstallNext
<1>2. at[u] \in 1..9 /\ at'[u] = at[u] + 1
  <2>1. at[u] >= 1
    BY <1>1, Zenon DEF TypeInv, LockHeld, InRoot
  <2> QED
    BY <1>0, <1>1, <2>1, SMT DEF TypeOK
<1>3. PICK name \in Names : name = InstallOrder[at[u]]
  BY <1>2, InstallNames, Zenon
<1>4. PICK path \in Paths : path = PathOf(u, name)
  BY PathTyped, Zenon
<1>5. /\ Applies(u, name) => disk'[path] = InstalledContent(u, name)
      /\ \A p \in Paths : p # path => disk'[p] = disk[p]
  BY <1>0, <1>3, <1>4, WriteFrame, Zenon DEF InstallNext
<1> SUFFICES ASSUME NEW k \in 1..9, k < at'[u], Applies(u, InstallOrder[k])'
             PROVE  disk'[PathOf(u, InstallOrder[k])] = InstalledContent(u, InstallOrder[k])'
  BY Zenon DEF InstallSoFar, InstallOrder, PathOf
<1>6. /\ Applies(u, InstallOrder[k])
      /\ InstalledContent(u, InstallOrder[k])' = InstalledContent(u, InstallOrder[k])
  BY <1>1, Zenon DEF Applies, InstalledContent, InstallOrder
<1>7. CASE k = at[u]
  BY <1>3, <1>4, <1>5, <1>6, <1>7, Zenon
<1>8. CASE k # at[u]
  <2>1. k < at[u]
    BY <1>2, <1>8, SMT
  <2>2. disk[PathOf(u, InstallOrder[k])] = InstalledContent(u, InstallOrder[k])
    BY <1>1, <1>6, <2>1, Zenon DEF InstallSoFar
  <2>3. path = PathOf(u, InstallOrder[at[u]])
    BY <1>3, <1>4, Zenon
  <2>4. PathOf(u, InstallOrder[k]) # PathOf(u, InstallOrder[at[u]])
    BY <1>2, <1>8, InstallPathsDiffer, Zenon
  <2>5. PathOf(u, InstallOrder[k]) \in Paths
    BY InstallNames, PathTyped, Zenon
  <2> QED
    BY <1>5, <1>6, <2>2, <2>3, <2>4, <2>5, Zenon
<1> QED
  BY <1>7, <1>8

LEMMA SoFarStep ==
  ASSUME TypeInv, [Next]_vars, NEW v \in Users, InstallSoFar(v)
  PROVE  InstallSoFar(v)'
<1>0. TypeOK
  BY DEF TypeInv
<1>1. ASSUME \/ BeginInstall(v) \/ ReadReceipts(v) \/ BeginRemove(v) \/ EnterRoot(v)
             \/ Lock(v) \/ InstallNext(v) \/ RemoveNext(v) \/ Commit(v) \/ Fail(v)
             \/ UndoRemove(v) \/ UndoCopy(v) \/ LeaveUndo(v)
             \/ FinishFailed(v) \/ RemovePackages(v) \/ RemoveDirectories(v) \/ Crash(v)
      PROVE  InstallSoFar(v)'
  <2>1. CASE Lock(v)
    <3>1. pc'[v] # "active" \/ at'[v] = 1
      <4>1. GoTo(v, "failed") \/ at' = [at EXCEPT ![v] = 1]
        BY <2>1, Zenon DEF Lock
      <4>2. "failed" # "active"
        OBVIOUS
      <4> QED
        BY <1>0, <4>1, <4>2, GoToFrame, Zenon DEF TypeOK
    <3>2. at'[v] = 1 => \A k \in 1..9 : ~(k < at'[v])
      BY SMT
    <3> QED
      BY <3>1, <3>2, Zenon DEF InstallSoFar
  <2>2. CASE InstallNext(v)
    BY <2>2, SoFarInstallNext
  <2>3. CASE RemoveNext(v)
    <3>1. plan[v].kind = "remove" /\ plan' = plan
      BY <2>3, Zenon DEF RemoveNext
    <3>2. plan'[v].kind # "install"
      BY <3>1, SMT
    <3> QED
      BY <3>2, Zenon DEF InstallSoFar
  <2>4. CASE UndoRemove(v) \/ UndoCopy(v)
    <3>1. pc'[v] = "undoing"
      BY <2>4, Zenon DEF UndoRemove, UndoCopy
    <3> QED
      BY <3>1, SMT DEF InstallSoFar
  <2>5. CASE \/ BeginInstall(v) \/ ReadReceipts(v) \/ BeginRemove(v) \/ EnterRoot(v)
             \/ Commit(v) \/ Fail(v) \/ LeaveUndo(v)
             \/ FinishFailed(v) \/ RemovePackages(v) \/ RemoveDirectories(v) \/ Crash(v)
    <3>1. pc'[v] \in {"idle", "reading", "asking", "blocked", "undoing", "failed", "packages", "tidy"}
      BY <1>0, <2>5, GoToFrame, EndFrame, Zenon DEF BeginInstall, ReadReceipts, BeginRemove,
         EnterRoot, Commit, Fail, LeaveUndo, FinishFailed, RemovePackages, RemoveDirectories, Crash
    <3>2. pc'[v] # "active"
      BY <3>1, SMT
    <3> QED
      BY <3>2, Zenon DEF InstallSoFar
  <2> QED
    BY <1>1, <2>1, <2>2, <2>3, <2>4, <2>5, Zenon
<1>2. ASSUME NEW u \in Users \ {v},
             \/ BeginInstall(u) \/ ReadReceipts(u) \/ BeginRemove(u) \/ EnterRoot(u)
             \/ Lock(u) \/ InstallNext(u) \/ RemoveNext(u) \/ Commit(u) \/ Fail(u)
             \/ UndoRemove(u) \/ UndoCopy(u) \/ LeaveUndo(u)
             \/ FinishFailed(u) \/ RemovePackages(u) \/ RemoveDirectories(u) \/ Crash(u)
      PROVE  InstallSoFar(v)'
  <2>1. pc'[v] = pc[v] /\ plan'[v] = plan[v] /\ at'[v] = at[v]
    BY <1>0, <1>2, ActionFrame, Zenon DEF Frame
  <2>2. pc[v] = "active" => disk' = disk
    BY <1>2, OthersWriteNothing, Zenon DEF InRoot
  <2> QED
    BY <2>1, <2>2, SoFarKept, Zenon
<1>3. ASSUME (\E u \in Users : LockPamInstalled(u)) \/ LockPamRemoved PROVE InstallSoFar(v)'
  <2>1. /\ UNCHANGED <<pc, plan, at>>
        /\ Write("lockPam", "managed") \/ Write("lockPam", "absent")
    BY <1>3, Zenon DEF LockPamInstalled, LockPamRemoved, rootVars
  <2>2. "lockPam" \in Paths
    BY Zenon DEF Paths, SharedPaths
  <2>3. \A p \in OtherPaths : disk'[p] = disk[p]
    BY <1>0, <2>1, <2>2, WriteFrame, Zenon DEF OtherPaths
  <2> QED
    BY <2>1, <2>3, SoFarKept, Zenon
<1>4. ASSUME NEW path \in Replaceable, Replaced(path) PROVE InstallSoFar(v)'
  <2>1. pc'[v] = "idle"
    BY <1>4, Zenon DEF Replaced
  <2> QED
    BY <2>1, SMT DEF InstallSoFar
<1>5. ASSUME UNCHANGED vars PROVE InstallSoFar(v)'
  <2>1. UNCHANGED <<pc, plan, at, disk>>
    BY <1>5, Zenon DEF vars, machineVars, rootVars
  <2> QED
    BY <2>1, SoFarKept, Zenon
<1>6. \A u \in Users : u = v \/ u \in Users \ {v}
  OBVIOUS
<1> QED
  BY <1>1, <1>2, <1>3, <1>4, <1>5, <1>6, Zenon DEF Next

(* An install that has come to its end finds what it looks for.            *)
InstallsValidate == \A u \in Users : pc[u] = "active" /\ at[u] > Len(Order(u)) => Valid(u)

(* However commands overlap, fail and are killed, and whatever another     *)
(* package has replaced before: the validation at the end of               *)
(* root_integrate never refuses what the install has written, so only a    *)
(* step that fails leads to a rollback (the check before the commit).      *)
THEOREM InstallsAreValid == Spec => []InstallsValidate
<1> DEFINE Inv == TypeInv /\ \A u \in Users : InstallSoFar(u)
<1>1. Init => Inv
  <2>1. Init => \A u \in Users : pc[u] = "idle"
    BY Zenon DEF Init
  <2> QED
    BY <2>1, InitTypes, SMT DEF InstallSoFar
<1>2. Inv /\ [Next]_vars => Inv'
  <2>1. Inv /\ [Next]_vars => TypeInv'
    BY TypesNext, LockNext, ReceiptNext DEF TypeInv
  <2>2. ASSUME Inv, [Next]_vars, NEW u \in Users PROVE InstallSoFar(u)'
    BY <2>2, SoFarStep
  <2> QED
    BY <2>1, <2>2
<1>3. Inv => InstallsValidate
  <2> SUFFICES ASSUME Inv, NEW u \in Users, pc[u] = "active", plan[u].kind = "install", at[u] > Len(Order(u))
               PROVE  /\ disk["sudo"] = "hook" /\ Registered(u)
                      /\ \A p \in Artifacts \ {"face"} : disk[p] = "managed"
    BY DEF InstallsValidate, Valid
  <2>1. at[u] > 9 /\ at[u] \in Nat
    BY InstallLength, Zenon DEF Order, TypeInv, TypeOK
  <2>2. ASSUME NEW k \in {1, 2, 3, 6, 9}
        PROVE  disk[PathOf(u, InstallOrder[k])] = InstalledContent(u, InstallOrder[k])
    <3>1. k \in 1..9 /\ k < at[u]
      BY <2>1, SMT
    <3>2. Applies(u, InstallOrder[k])
      <4>1. InstallOrder[k] # "legacy" /\ InstallOrder[k] # "gazeReceipt"
        BY SMT DEF InstallOrder
      <4> QED
        BY <4>1, Zenon DEF Applies
    <3> QED
      BY <3>1, <3>2, Zenon DEF InstallSoFar
  <2>3. /\ InstallOrder[1] = "elevation" /\ InstallOrder[2] = "consent" /\ InstallOrder[3] = "verifier"
        /\ InstallOrder[6] = "entry" /\ InstallOrder[9] = "sudo"
    BY SMT DEF InstallOrder
  <2>4. disk["sudo"] = "hook"
    BY <2>2, <2>3, Zenon DEF PathOf, InstalledContent
  <2>5. disk[u] = "managed"
    <3>1. "entry" # "sudo" /\ "entry" # "receipt"
      OBVIOUS
    <3> QED
      BY <2>2, <2>3, <3>1, Zenon DEF PathOf, InstalledContent
  <2>6. ASSUME NEW p \in {"elevation", "consent", "verifier"} PROVE disk[p] = "managed"
    <3>1. p # "sudo" /\ p # "receipt" /\ p # "entry"
      BY SMT
    <3>2. \E k \in {1, 2, 3} : InstallOrder[k] = p
      BY <2>3, SMT
    <3> QED
      BY <2>2, <3>1, <3>2, Zenon DEF PathOf, InstalledContent
  <2> QED
    BY <2>4, <2>5, <2>6, Zenon DEF Artifacts, Registered
<1> QED
  BY <1>1, <1>2, <1>3, PTL DEF Spec

-----------------------------------------------------------------------------
(* Files that another package has put in the place of an artifact, where   *)
(* both scripts look for a marker: the verifier and the PAM service.       *)

Marked   == {"face", "verifier"}
Unmarked == {"elevation", "consent"}

(* Nothing foreign is where nobody looks, and none where a root part works.*)
ForeignInv ==
  /\ \A p \in Unmarked : disk[p] # "foreign"
  /\ \A u \in Users : pc[u] \in InRoot => \A p \in Unmarked : backup[u][p] # "foreign"
  /\ \A u \in Users :
       pc[u] = "active" /\ (plan[u].kind = "install" \/ (plan[u].kind = "remove" /\ plan[u].last)) =>
         \A p \in Marked : disk[p] # "foreign"

LEMMA ArtifactPaths ==
  /\ Artifacts = Marked \cup Unmarked
  /\ Artifacts \subseteq Paths /\ "sudo" \notin Artifacts /\ "lockPam" \notin Artifacts
  /\ \A u \in Users : u \notin Artifacts
BY SystemTransactionAssumption, SMT
   DEF Artifacts, Marked, Unmarked, Paths, SharedPaths, Receipts

(* What a step makes of a file that an artifact has its name from.         *)
LEMMA ArtifactSteps ==
  ASSUME TypeInv, NEW u \in Users,
         \/ BeginInstall(u) \/ ReadReceipts(u) \/ BeginRemove(u) \/ EnterRoot(u)
         \/ Lock(u) \/ InstallNext(u) \/ RemoveNext(u) \/ Commit(u) \/ Fail(u)
         \/ UndoRemove(u) \/ UndoCopy(u) \/ LeaveUndo(u)
         \/ FinishFailed(u) \/ RemovePackages(u) \/ RemoveDirectories(u)
         \/ Crash(u),
         NEW p \in Artifacts, disk'[p] # disk[p]
  PROVE  /\ pc[u] \in InRoot /\ pc'[u] = pc[u] /\ plan'[u] = plan[u] /\ backup' = backup
         /\ \/ pc[u] = "active" /\ plan[u].kind = "install" /\ disk'[p] # "foreign"
            \/ pc[u] = "active" /\ plan[u].kind = "remove" /\ plan[u].last /\ disk'[p] # "foreign"
            \/ pc[u] = "undoing" /\ disk'[p] \in {"absent", backup[u][p]}
<1>0. TypeOK /\ p \in Paths /\ p # "sudo" /\ p # u /\ "sudo" \in Paths
  BY ArtifactPaths, Zenon DEF TypeInv, Paths, SharedPaths
<1>1. ~BeginInstall(u)
  <2>1. ASSUME Write("sudo", "gaze") PROVE disk'[p] = disk[p]
    BY <1>0, <2>1, WriteFrame, Zenon
  <2> QED
    BY <2>1, Zenon DEF BeginInstall
<1>2. ~(\/ ReadReceipts(u) \/ BeginRemove(u) \/ EnterRoot(u) \/ Lock(u) \/ Commit(u) \/ Fail(u)
        \/ LeaveUndo(u) \/ FinishFailed(u) \/ RemovePackages(u) \/ RemoveDirectories(u) \/ Crash(u))
  BY Zenon DEF ReadReceipts, BeginRemove, EnterRoot, Lock, Commit, Fail, LeaveUndo, FinishFailed,
     RemovePackages, RemoveDirectories, Crash, machineVars
<1>3. CASE InstallNext(u)
  <2>1. pc[u] = "active" /\ plan[u].kind = "install" /\ UNCHANGED <<pc, plan, backup>> /\ at[u] <= 9
    BY <1>3, InstallLength, Zenon DEF InstallNext
  <2>2. at[u] \in 1..9
    <3>1. at[u] >= 1
      BY <2>1, Zenon DEF TypeInv, LockHeld, InRoot
    <3> QED
      BY <1>0, <2>1, <3>1, SMT DEF TypeOK
  <2>3. PICK name \in Names : name = InstallOrder[at[u]]
    BY <2>2, InstallNames, Zenon
  <2>4. PICK path \in Paths : path = PathOf(u, name)
    BY PathTyped, Zenon
  <2>5. /\ Applies(u, name) => disk'[path] = InstalledContent(u, name)
        /\ ~Applies(u, name) => disk'[path] = disk[path]
        /\ \A q \in Paths : q # path => disk'[q] = disk[q]
    BY <1>0, <1>3, <2>3, <2>4, WriteFrame, Zenon DEF InstallNext
  <2>6. p = path
    BY <1>0, <2>5, Zenon
  <2>7. name # "sudo" /\ name # "receipt"
    <3>1. name = "entry" \/ name = p
      BY <2>4, <2>6, PathTyped, Zenon
    <3>2. p # "receipt"
      BY SMT DEF Artifacts
    <3> QED
      BY <1>0, <3>1, <3>2, SMT
  <2>8. InstalledContent(u, name) = "managed"
    BY <2>7, Zenon DEF InstalledContent
  <2>9. disk'[p] = "managed"
    BY <2>5, <2>6, <2>8, Zenon
  <2> QED
    BY <2>1, <2>9, SMT DEF InRoot
<1>4. CASE RemoveNext(u)
  <2>1. /\ pc[u] = "active" /\ plan[u].kind = "remove" /\ UNCHANGED <<pc, plan, backup>>
        /\ at[u] <= Len(RemovalOrder(plan[u].last))
    BY <1>4, Zenon DEF RemoveNext
  <2>2. plan[u].last \in BOOLEAN
    BY <1>0, SMT DEF TypeOK, Plans
  <2>3. at[u] \in 1..Len(RemovalOrder(plan[u].last))
    <3>1. at[u] >= 1
      BY <2>1, Zenon DEF TypeInv, LockHeld, InRoot
    <3>2. Len(RemovalOrder(plan[u].last)) \in Nat
      BY <2>2, SMT DEF RemovalOrder
    <3> QED
      BY <1>0, <2>1, <3>1, <3>2, SMT DEF TypeOK
  <2>4. PICK name \in Names : name = RemovalOrder(plan[u].last)[at[u]]
    BY <2>2, <2>3, RemovalNames, Zenon
  <2>5. PICK path \in Paths : path = PathOf(u, name)
    BY PathTyped, Zenon
  <2>6. /\ Applies(u, name) => disk'[path] = RemovedContent(u, name)
        /\ ~Applies(u, name) => disk'[path] = disk[path]
        /\ \A q \in Paths : q # path => disk'[q] = disk[q]
    BY <1>0, <1>4, <2>4, <2>5, WriteFrame, Zenon DEF RemoveNext
  <2>7. p = path
    BY <1>0, <2>6, Zenon
  <2>8. name # "sudo" /\ name # "entry"
    <3>1. name # "entry"
      BY <1>0, <2>5, <2>7, PathTyped, Zenon
    <3> QED
      BY <1>0, <2>5, <2>7, <3>1, PathTyped, Zenon
  <2>9. disk'[p] = "absent"
    BY <2>6, <2>7, <2>8, Zenon DEF RemovedContent
  <2>10. plan[u].last
    <3>1. ~plan[u].last => name = "entry"
      BY <2>3, <2>4, SMT DEF RemovalOrder
    <3> QED
      BY <2>8, <3>1
  <2> QED
    BY <2>1, <2>9, <2>10, SMT DEF InRoot
<1>5. CASE UndoRemove(u) \/ UndoCopy(u)
  <2>1. PICK path \in Paths : path = PathOf(u, UndoOf(u)[at[u]])
    BY <1>5, UndoPath, Zenon DEF UndoRemove, UndoCopy
  <2>2. /\ disk'[path] = "absent" \/ disk'[path] = backup[u][path]
        /\ \A q \in Paths : q # path => disk'[q] = disk[q]
    BY <1>0, <1>5, <2>1, WriteFrame, Zenon DEF UndoRemove, UndoCopy
  <2>3. p = path
    BY <1>0, <2>2, Zenon
  <2>4. pc[u] = "undoing" /\ UNCHANGED <<pc, plan, backup>>
    BY <1>5, Zenon DEF UndoRemove, UndoCopy
  <2> QED
    BY <2>2, <2>3, <2>4, SMT DEF InRoot
<1> QED
  BY <1>1, <1>2, <1>3, <1>4, <1>5, Zenon

(* How a command comes into its root part, and what snapshot it has there. *)
LEMMA RootSteps ==
  ASSUME TypeInv, NEW u \in Users,
         \/ BeginInstall(u) \/ ReadReceipts(u) \/ BeginRemove(u) \/ EnterRoot(u)
         \/ Lock(u) \/ InstallNext(u) \/ RemoveNext(u) \/ Commit(u) \/ Fail(u)
         \/ UndoRemove(u) \/ UndoCopy(u) \/ LeaveUndo(u)
         \/ FinishFailed(u) \/ RemovePackages(u) \/ RemoveDirectories(u)
         \/ Crash(u),
         pc'[u] \in InRoot
  PROVE  \/ Lock(u) /\ backup'[u] = disk /\ disk' = disk /\ (pc'[u] = "active" => Acceptable(u))
         \/ /\ ~Lock(u) /\ pc[u] \in InRoot /\ backup'[u] = backup[u]
            /\ pc'[u] = "active" => pc[u] = "active"
<1>0. TypeOK
  BY DEF TypeInv
<1>1. ASSUME BeginInstall(u) \/ ReadReceipts(u) \/ BeginRemove(u) \/ EnterRoot(u) \/ Commit(u)
             \/ LeaveUndo(u) \/ FinishFailed(u) \/ RemovePackages(u) \/ RemoveDirectories(u)
             \/ Crash(u)
      PROVE  FALSE
  <2>1. pc'[u] \in {"idle", "reading", "asking", "blocked", "failed", "packages", "tidy"}
    BY <1>0, <1>1, GoToFrame, EndFrame, Zenon DEF BeginInstall, ReadReceipts, BeginRemove,
       EnterRoot, Commit, LeaveUndo, FinishFailed, RemovePackages, RemoveDirectories, Crash
  <2> QED
    BY <2>1, SMT DEF InRoot
<1>2. CASE Lock(u)
  <2>1. GoTo(u, "failed") => FALSE
    <3>1. GoTo(u, "failed") => pc'[u] = "failed"
      BY <1>0, GoToFrame, Zenon
    <3> QED
      BY <3>1, SMT DEF InRoot
  <2>2. /\ GoTo(u, IF Acceptable(u) THEN "active" ELSE "undoing")
        /\ backup' = [backup EXCEPT ![u] = disk] /\ disk' = disk
    BY <1>2, <2>1, Zenon DEF Lock, machineVars
  <2>3. backup'[u] = disk
    BY <1>0, <2>2, Zenon DEF TypeOK
  <2>4. pc'[u] = IF Acceptable(u) THEN "active" ELSE "undoing"
    BY <1>0, <2>2, GoToFrame, Zenon
  <2> QED
    BY <1>2, <2>2, <2>3, <2>4, SMT
<1>3. CASE Fail(u)
  <2>1. pc'[u] = "undoing" /\ pc[u] = "active" /\ backup' = backup
    BY <1>0, <1>3, GoToFrame, Zenon DEF Fail
  <2>2. ~Lock(u)
    BY <2>1, SMT DEF Lock
  <2> QED
    BY <2>1, <2>2, SMT DEF InRoot
<1>4. CASE InstallNext(u) \/ RemoveNext(u) \/ UndoRemove(u) \/ UndoCopy(u)
  <2>1. pc' = pc /\ backup' = backup
    BY <1>4, Zenon DEF InstallNext, RemoveNext, UndoRemove, UndoCopy
  <2>2. ~Lock(u)
    BY <2>1, SMT DEF Lock, InRoot
  <2> QED
    BY <2>1, <2>2, Zenon
<1> QED
  BY <1>1, <1>2, <1>3, <1>4, Zenon

(* A step of a command keeps what is foreign where it is.                  *)
LEMMA ForeignCommand ==
  ASSUME TypeInv, ForeignInv, NEW u \in Users,
         \/ BeginInstall(u) \/ ReadReceipts(u) \/ BeginRemove(u) \/ EnterRoot(u)
         \/ Lock(u) \/ InstallNext(u) \/ RemoveNext(u) \/ Commit(u) \/ Fail(u)
         \/ UndoRemove(u) \/ UndoCopy(u) \/ LeaveUndo(u)
         \/ FinishFailed(u) \/ RemovePackages(u) \/ RemoveDirectories(u)
         \/ Crash(u)
  PROVE  /\ ForeignInv'
         /\ \A p \in Artifacts : disk[p] = "foreign" /\ ~RollingBack => disk'[p] = "foreign"
<1>0. TypeOK /\ Marked \subseteq Artifacts /\ Unmarked \subseteq Artifacts
  BY ArtifactPaths, Zenon DEF TypeInv
<1>1. Frame(u)
  BY <1>0, ActionFrame
<1>2. ASSUME NEW p \in Unmarked PROVE disk'[p] # "foreign"
  <2>1. disk[p] # "foreign"
    BY Zenon DEF ForeignInv
  <2>2. ASSUME disk'[p] # disk[p] PROVE disk'[p] # "foreign"
    <3>1. \/ disk'[p] # "foreign"
          \/ pc[u] = "undoing" /\ disk'[p] \in {"absent", backup[u][p]}
      BY <1>0, <2>2, ArtifactSteps, Zenon
    <3>2. pc[u] = "undoing" => backup[u][p] # "foreign"
      BY Zenon DEF ForeignInv, InRoot
    <3> QED
      BY <3>1, <3>2, SMT
  <2> QED
    BY <2>1, <2>2
<1>3. ASSUME NEW v \in Users, pc'[v] \in InRoot, NEW p \in Unmarked PROVE backup'[v][p] # "foreign"
  <2>1. CASE v = u
    <3>1. backup'[u] = disk \/ (pc[u] \in InRoot /\ backup'[u] = backup[u])
      BY <1>3, <2>1, RootSteps, Zenon
    <3> QED
      BY <2>1, <3>1, Zenon DEF ForeignInv
  <2>2. CASE v # u
    BY <1>1, <1>3, <2>2, Zenon DEF Frame, ForeignInv
  <2> QED
    BY <2>1, <2>2
<1>4. ASSUME NEW v \in Users, pc'[v] = "active",
             plan'[v].kind = "install" \/ (plan'[v].kind = "remove" /\ plan'[v].last),
             NEW p \in Marked
      PROVE  disk'[p] # "foreign"
  <2>1. CASE v # u
    <3>1. pc[v] = "active" /\ plan'[v] = plan[v]
      BY <1>1, <1>4, <2>1, Zenon DEF Frame
    <3>2. disk' = disk
      BY <2>1, <3>1, OthersWriteNothing, Zenon DEF InRoot
    <3> QED
      BY <1>4, <3>1, <3>2, Zenon DEF ForeignInv
  <2>2. CASE v = u /\ Lock(u)
    <3>1. Acceptable(u) /\ disk' = disk
      BY <1>4, <2>2, RootSteps, Zenon DEF InRoot
    <3>2. plan'[u].kind = plan[u].kind /\ plan'[u].last = plan[u].last
      BY <1>0, <2>2, PlanKept, Zenon
    <3>3. plan[u].kind = "install" => disk[p] # "foreign"
      BY <1>0, <3>1, Zenon DEF Acceptable
    <3>4. plan[u].kind = "remove" /\ plan[u].last => disk[p] = "managed"
      BY <3>1, Zenon DEF Acceptable, Marked
    <3> QED
      BY <1>4, <2>2, <3>1, <3>2, <3>3, <3>4, SMT
  <2>3. CASE v = u /\ ~Lock(u)
    <3>1. pc[u] = "active"
      BY <1>4, <2>3, RootSteps, Zenon DEF InRoot
    <3>2. plan'[u].kind = plan[u].kind /\ plan'[u].last = plan[u].last
      <4>1. InstallNext(u) \/ RemoveNext(u) \/ Fail(u) \/ Commit(u) \/ Crash(u)
        BY <2>3, <3>1, SMT DEF BeginInstall, MayBegin, ReadReceipts, BeginRemove, EnterRoot, Lock,
           UndoRemove, UndoCopy, LeaveUndo, FinishFailed, RemovePackages, RemoveDirectories
      <4>2. ~Commit(u) /\ ~Crash(u)
        <5>1. Commit(u) \/ Crash(u) => pc'[u] \in {"packages", "idle"}
          BY <1>0, GoToFrame, EndFrame, Zenon DEF Commit, Crash
        <5> QED
          BY <1>4, <2>3, <5>1, SMT
      <4> QED
        BY <1>0, <4>1, <4>2, PlanKept, Zenon
    <3>3. disk[p] # "foreign"
      BY <1>4, <2>3, <3>1, <3>2, Zenon DEF ForeignInv
    <3>4. ASSUME disk'[p] # disk[p] PROVE disk'[p] # "foreign"
      <4>1. disk'[p] # "foreign" \/ pc[u] = "undoing"
        BY <1>0, <3>4, ArtifactSteps, Zenon
      <4> QED
        BY <3>1, <4>1, SMT
    <3> QED
      BY <3>3, <3>4
  <2> QED
    BY <2>1, <2>2, <2>3
<1>5. ASSUME NEW p \in Artifacts, disk[p] = "foreign", ~RollingBack PROVE disk'[p] = "foreign"
  <2>1. SUFFICES ASSUME disk'[p] # disk[p] PROVE FALSE
    BY <1>5
  <2>2. p \in Marked
    BY <1>5, ArtifactPaths, Zenon DEF ForeignInv
  <2>3. pc[u] # "undoing"
    BY <1>5, Zenon DEF RollingBack
  <2>4. pc[u] = "active" /\ (plan[u].kind = "install" \/ (plan[u].kind = "remove" /\ plan[u].last))
    BY <2>1, <2>3, ArtifactSteps, Zenon
  <2> QED
    BY <1>5, <2>2, <2>4, Zenon DEF ForeignInv
<1>6. ForeignInv'
  BY <1>2, <1>3, <1>4, Zenon DEF ForeignInv
<1> QED
  BY <1>5, <1>6

LEMMA ForeignStep ==
  ASSUME Replaceable \subseteq Marked, TypeInv, ForeignInv, [Next]_vars
  PROVE  /\ ForeignInv'
         /\ \A p \in Artifacts : disk[p] = "foreign" /\ ~RollingBack => disk'[p] = "foreign"
<1>0. TypeOK
  BY DEF TypeInv
<1>1. ASSUME UNCHANGED <<pc, plan, backup>>, \A p \in Artifacts : disk'[p] = disk[p]
      PROVE  /\ ForeignInv'
             /\ \A p \in Artifacts : disk[p] = "foreign" => disk'[p] = "foreign"
  <2>1. \A p \in Marked \cup Unmarked : disk'[p] = disk[p]
    BY <1>1, ArtifactPaths, Zenon
  <2> QED
    BY <1>1, <2>1, Zenon DEF ForeignInv
<1>2. ASSUME NEW u \in Users,
             \/ BeginInstall(u) \/ ReadReceipts(u) \/ BeginRemove(u) \/ EnterRoot(u)
             \/ Lock(u) \/ InstallNext(u) \/ RemoveNext(u) \/ Commit(u) \/ Fail(u)
             \/ UndoRemove(u) \/ UndoCopy(u) \/ LeaveUndo(u)
             \/ FinishFailed(u) \/ RemovePackages(u) \/ RemoveDirectories(u)
             \/ Crash(u)
      PROVE  /\ ForeignInv'
             /\ \A p \in Artifacts : disk[p] = "foreign" /\ ~RollingBack => disk'[p] = "foreign"
  BY <1>2, ForeignCommand
<1>3. ASSUME (\E u \in Users : LockPamInstalled(u)) \/ LockPamRemoved
      PROVE  UNCHANGED <<pc, plan, backup>> /\ \A p \in Artifacts : disk'[p] = disk[p]
  <2>1. /\ UNCHANGED <<pc, plan, backup>>
        /\ Write("lockPam", "managed") \/ Write("lockPam", "absent")
    BY <1>3, Zenon DEF LockPamInstalled, LockPamRemoved, rootVars
  <2>2. "lockPam" \in Paths
    BY Zenon DEF Paths, SharedPaths
  <2> QED
    BY <1>0, <2>1, <2>2, WriteFrame, ArtifactPaths, Zenon
<1>4. ASSUME NEW path \in Replaceable, Replaced(path)
      PROVE  /\ ForeignInv'
             /\ \A p \in Artifacts : disk[p] = "foreign" => disk'[p] = "foreign"
  <2>1. path \in Marked /\ path \in Paths /\ \A p \in Unmarked : p # path /\ p \in Paths
    BY ArtifactPaths, SMT DEF Marked, Unmarked
  <2>2. /\ disk'[path] = "foreign" /\ \A p \in Paths : p # path => disk'[p] = disk[p]
        /\ UNCHANGED <<pc, plan, backup>> /\ \A u \in Users : pc[u] = "idle"
    BY <1>0, <1>4, <2>1, WriteFrame, Zenon DEF Replaced, rootVars
  <2>3. "idle" \notin InRoot /\ "idle" # "active"
    BY SMT DEF InRoot
  <2>4. ForeignInv'
    BY <2>1, <2>2, <2>3, Zenon DEF ForeignInv
  <2> QED
    BY <2>2, <2>4, ArtifactPaths, Zenon
<1>5. ASSUME UNCHANGED vars
      PROVE  UNCHANGED <<pc, plan, backup>> /\ \A p \in Artifacts : disk'[p] = disk[p]
  BY <1>5, Zenon DEF vars, machineVars, rootVars
<1>6. CASE Next
  BY <1>1, <1>2, <1>3, <1>4, <1>6, Zenon DEF Next
<1> QED
  BY <1>1, <1>5, <1>6

(* A file that another package has put in the place of the verifier or of  *)
(* the PAM service, the two that both scripts look at before they write,   *)
(* stays, whatever commands run and fail: only the command that has found  *)
(* it after its snapshot removes it, to copy it back (root_integrate's and *)
(* root_remove's checks, rollback).                                        *)
THEOREM ForeignFilesAreKept ==
  ASSUME Replaceable \subseteq Marked
  PROVE  Spec => ForeignFilesStay
<1> DEFINE Inv == TypeInv /\ ForeignInv
<1>1. Init => Inv
  <2>1. Init => \A u \in Users : pc[u] = "idle"
    BY Zenon DEF Init
  <2>2. ASSUME Init, NEW p \in Unmarked PROVE disk[p] # "foreign"
    <3>1. p \in Artifacts /\ p \in Paths /\ p # "sudo" /\ p # "receipt"
      BY ArtifactPaths, SMT DEF Unmarked
    <3>2. disk[p] \in {"managed", "absent"}
      BY <2>2, <3>1, Zenon DEF Init
    <3> QED
      BY <3>2, SMT
  <2>3. "idle" \notin InRoot /\ "idle" # "active"
    BY SMT DEF InRoot
  <2>4. Init => ForeignInv
    BY <2>1, <2>2, <2>3, Zenon DEF ForeignInv
  <2> QED
    BY <2>4, InitTypes
<1>2. Inv /\ [Next]_vars => Inv'
  BY ForeignStep, TypesNext, LockNext, ReceiptNext DEF TypeInv
<1>3. Inv /\ [Next]_vars =>
        [\A p \in Artifacts : disk[p] = "foreign" /\ ~RollingBack => disk'[p] = "foreign"]_vars
  BY ForeignStep
<1> QED
  BY <1>1, <1>2, <1>3, PTL DEF Spec, ForeignFilesStay

(* Whatever has happened to the commands before, sudo's PAM file is there  *)
(* when none runs, as long as none is killed while it rolls back or fails  *)
(* to copy a file back.                                                    *)
THEOREM PasswordStackIsPreserved ==
  ASSUME "tear" \notin Faults, "lose" \notin Faults
  PROVE  Spec => []PasswordStackPreserved
<1>1. SudoUsable => PasswordStackPreserved
  <2>1. Quiet => ~RollingBack
    BY SMT DEF Quiet, RollingBack
  <2> QED
    BY <2>1, Zenon DEF SudoUsable, PasswordStackPreserved, Usable
<1> QED
  BY <1>1, SudoStaysUsable, PTL
=============================================================================
