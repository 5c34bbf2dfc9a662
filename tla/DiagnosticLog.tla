----------------------------- MODULE DiagnosticLog -----------------------------
(***************************************************************************)
(* The diagnostic log of a user (app/DiagnosticLog.cpp and                 *)
(* integration/omarchy-plugin/log-event.sh): four files that processes of  *)
(* two programs rotate and append to under one file lock.                  *)
(*                                                                         *)
(* A process linked with DiagnosticLog.cpp is a session of its own and     *)
(* numbers its records in memory.  The lock subscriber starts a detached   *)
(* process of log-event.sh for each event; they share its session, and     *)
(* their number is kept in a file.  What a record says is left out.        *)
(***************************************************************************)
EXTENDS Naturals, Sequences

CONSTANTS
  Apps,         \* runs of the programs that record through DiagnosticLog.cpp
  Loggers,      \* the processes of log-event.sh
  Nobody, Subscriber,
  FileSize,     \* how many records make 1 MiB
  CameraNodes,  \* what the record of an attempt is followed by
  MaxRecords,   \* bound: as many records are begun
  Faults

(* "kill": a writer is killed; "open": the record cannot be made or        *)
(* written; "full": no room on the disk for a logger's number (bound: once)*)
LogFaults == {"kill", "open", "full"}

Writers  == Apps \cup Loggers

ASSUME DiagnosticLogAssumption ==
  /\ Apps \cap Loggers = {}
  /\ Nobody \notin Writers /\ Subscriber \notin Apps
  /\ FileSize \in Nat \ {0} /\ CameraNodes \in Nat /\ MaxRecords \in Nat

VARIABLES
  files,         \* diagnostics.jsonl is 0; what does not exist is empty
  lock,          \* who holds diagnostics.lock
  pc, at,        \* the step of a writer; the file it renames next
  sequence,      \* m_sequence, lost with its process
  lockSequence,  \* the number in the file lock-sequence; 0: none
  number,        \* the number a logger has taken
  children,      \* the camera records an attempt's logger has still to start
  (* history *)
  begun,         \* records
  epoch,         \* how often the loggers' number was lost
  torn           \* a writer was killed while it renamed the files

logVars == <<files, lock, pc, at, sequence, lockSequence, number, children,
             begun, epoch, torn>>

Steps   == {"idle", "waiting", "numbering", "sizing", "dropping", "shifting",
            "writing", "parent", "dead"}
Holding == {"numbering", "sizing", "dropping", "shifting", "writing"}
Records == [session : Apps \cup {Subscriber}, epoch : Nat, sequence : Nat]

(* Every variable stays within its type.                                   *)
LogTypeOK ==
  /\ files \in [0..3 -> Seq(Records)]
  /\ lock \in Writers \cup {Nobody}
  /\ pc \in [Writers -> Steps] /\ at \in [Writers -> 0..2]
  /\ sequence \in [Apps -> Nat]
  /\ lockSequence \in Nat /\ number \in [Loggers -> Nat]
  /\ children \in [Writers -> Nat]
  /\ begun \in Nat /\ epoch \in Nat /\ torn \in BOOLEAN

LogInit ==
  /\ files = [i \in 0..3 |-> <<>>]
  /\ lock = Nobody
  /\ pc = [w \in Writers |-> "idle"] /\ at = [w \in Writers |-> 0]
  /\ sequence = [a \in Apps |-> 0]
  /\ lockSequence = 0 /\ number = [l \in Loggers |-> 0]
  /\ children = [w \in Writers |-> 0]
  /\ begun = 0 /\ epoch = 0 /\ torn = FALSE

-----------------------------------------------------------------------------
GoTo(w, step) == pc' = [pc EXCEPT ![w] = step]

fileVars == <<files, at, torn>>
numberVars == <<sequence, lockSequence, number, epoch>>

(* record() is called, or log-event.sh started: to wait for the lock.      *)
Call(w, kids) ==
  /\ pc[w] = "idle" /\ begun + kids < MaxRecords
  /\ begun' = begun + 1 + kids
  /\ children' = [children EXCEPT ![w] = kids]
  /\ GoTo(w, "waiting")
  /\ UNCHANGED <<lock, fileVars, numberVars>>

(* After its own record the logger of an attempt starts one for each       *)
(* camera and one for the selection, and waits for each.                   *)
LogEvent(l) == \E kids \in {0, CameraNodes + 1} : Call(l, kids)

\* Fault: the lock is not waited for.
TakeLockFault(w) ==
  /\ pc[w] = "waiting"
  /\ lock' = w
  /\ GoTo(w, IF w \in Apps THEN "sizing" ELSE "numbering")
  /\ UNCHANGED <<fileVars, numberVars, children, begun>>

TakeLock(w) ==
  /\ pc[w] = "waiting" /\ lock = Nobody
  /\ lock' = w
  /\ GoTo(w, IF w \in Apps THEN "sizing" ELSE "numbering")
  /\ UNCHANGED <<fileVars, numberVars, children, begun>>

(* The process of w ends: what it has locked is free.                      *)
Exit(w, step) ==
  /\ GoTo(w, step)
  /\ children' = [children EXCEPT ![w] = 0]
  /\ lock' = IF lock = w THEN Nobody ELSE lock

(* The file of the number is emptied, and written if there is room.        *)
TakeNumber(l) ==
  /\ pc[l] = "numbering"
  /\ \/ /\ lockSequence' = lockSequence + 1
        /\ number' = [number EXCEPT ![l] = lockSequence + 1]
        /\ GoTo(l, "sizing")
        /\ UNCHANGED <<lock, children, epoch>>
     \/ /\ "full" \in Faults /\ epoch = 0
        /\ lockSequence' = 0 /\ epoch' = epoch + 1
        /\ Exit(l, "idle")
        /\ UNCHANGED number
  /\ UNCHANGED <<fileVars, sequence, begun>>

-----------------------------------------------------------------------------
(* rotateIfNeeded(), and the same in the script.                           *)

CheckSize(w) ==
  /\ pc[w] = "sizing"
  /\ GoTo(w, IF Len(files[0]) < FileSize THEN "writing" ELSE "dropping")
  /\ UNCHANGED <<lock, fileVars, numberVars, children, begun>>

\* Fault: the renaming begins with the file that is to be the second oldest.
DropOldestFault(w) ==
  /\ pc[w] = "dropping"
  /\ files' = [files EXCEPT ![3] = <<>>]
  /\ at' = [at EXCEPT ![w] = 1]
  /\ GoTo(w, "shifting")
  /\ UNCHANGED <<lock, numberVars, children, begun, torn>>

DropOldest(w) ==
  /\ pc[w] = "dropping"
  /\ files' = [files EXCEPT ![3] = <<>>]
  /\ at' = [at EXCEPT ![w] = 2]
  /\ GoTo(w, "shifting")
  /\ UNCHANGED <<lock, numberVars, children, begun, torn>>

(* QFile::rename() replaces no file, mv does.                              *)
Renamed(w, i) ==
  IF files[i] = <<>> \/ (w \in Apps /\ files[i + 1] # <<>>) THEN files
  ELSE [files EXCEPT ![i + 1] = files[i], ![i] = <<>>]

Shift(w) ==
  /\ pc[w] = "shifting"
  /\ files' = Renamed(w, at[w])
  /\ \/ at[w] > 0 /\ at' = [at EXCEPT ![w] = @ - 1] /\ UNCHANGED pc
     \/ at[w] = 0 /\ GoTo(w, "writing") /\ UNCHANGED at
  /\ UNCHANGED <<lock, numberVars, children, begun, torn>>

-----------------------------------------------------------------------------
RecordOf(w) ==
  IF w \in Apps THEN [session |-> w, epoch |-> 0, sequence |-> sequence[w] + 1]
  ELSE [session |-> Subscriber, epoch |-> epoch, sequence |-> number[w]]

Counted(w) == IF w \in Apps THEN [sequence EXCEPT ![w] = @ + 1] ELSE sequence

\* Fault: the logger keeps the lock while it waits for the loggers it starts.
WriteFault(w) ==
  /\ pc[w] = "writing"
  /\ sequence' = Counted(w)
  /\ \/ /\ files' = [files EXCEPT ![0] = Append(@, RecordOf(w))]
        /\ lock' = IF children[w] = 0 THEN Nobody ELSE w
        /\ GoTo(w, IF children[w] = 0 THEN "idle" ELSE "parent")
        /\ UNCHANGED children
     \/ "open" \in Faults /\ Exit(w, "idle") /\ UNCHANGED files
  /\ UNCHANGED <<at, torn, lockSequence, number, epoch, begun>>

(* A record that cannot be written leaves a gap in the numbers.            *)
Write(w) ==
  /\ pc[w] = "writing"
  /\ sequence' = Counted(w)
  /\ \/ /\ files' = [files EXCEPT ![0] = Append(@, RecordOf(w))]
        /\ lock' = IF lock = w THEN Nobody ELSE lock
        /\ GoTo(w, IF children[w] = 0 THEN "idle" ELSE "parent")
        /\ UNCHANGED children
     \/ "open" \in Faults /\ Exit(w, "idle") /\ UNCHANGED files
  /\ UNCHANGED <<at, torn, lockSequence, number, epoch, begun>>

StartChild(l) ==
  /\ pc[l] = "parent"
  /\ children' = [children EXCEPT ![l] = @ - 1]
  /\ GoTo(l, "waiting")
  /\ UNCHANGED <<lock, fileVars, numberVars, begun>>

(* A session does not come back; the next logger is another process.       *)
Kill(w) ==
  /\ "kill" \in Faults /\ pc[w] # "dead"
  /\ Exit(w, IF w \in Apps THEN "dead" ELSE "idle")
  /\ torn' = (torn \/ (pc[w] = "shifting" /\ at[w] < 2))
  /\ UNCHANGED <<files, at, numberVars, begun>>

(* What a writer does by itself once it is called.                         *)
WriterStep(w) ==
  \/ TakeLock(w) \/ CheckSize(w) \/ DropOldest(w) \/ Shift(w) \/ Write(w)
  \/ w \in Loggers /\ (TakeNumber(w) \/ StartChild(w))

LogNext ==
  \/ \E a \in Apps : Call(a, 0)
  \/ \E l \in Loggers : LogEvent(l)
  \/ \E w \in Writers : WriterStep(w) \/ Kill(w)

LogSpec == LogInit /\ [][LogNext]_logVars

(* A process runs; the lock is given to those who wait in their order.     *)
LogFairness ==
  \A w \in Writers : WF_logVars(WriterStep(w)) /\ SF_logVars(TakeLock(w))

LiveLogSpec == LogSpec /\ LogFairness

-----------------------------------------------------------------------------
(* The files, read the oldest first, are the history that RecordHistory    *)
(* describes: rotation never reorders, repeats or loses records in the     *)
(* middle, and keeps three older files (docs/diagnostics.md: "It rotates   *)
(* at 1 MiB and retains three older files"; "sequence establishes ordering *)
(* inside a session").                                                     *)
Kept == files[3] \o files[2] \o files[1] \o files[0]

History == INSTANCE RecordHistory WITH kept <- Kept, whole <- ~torn

ImplementsHistory == History!Spec

(* Whatever file they are in and whoever has written or rotated it, the    *)
(* records of a session are in the order of their numbers, as long as its  *)
(* number is not lost: the order is that of an epoch. After a full disk,   *)
(* or a kill while log-event.sh writes the number, the session begins      *)
(* again at 1, and "sequence establishes ordering inside a session"        *)
(* (docs/diagnostics.md:37) is then not met.                               *)
InOrder == History!InOrder

(* Every record that is begun is written or given up: writers wait for     *)
(* each other, and a logger for those it starts, but not in a circle.      *)
EveryRecordEnds ==
  \A w \in Writers : pc[w] # "idle" ~> pc[w] \in {"idle", "dead"}
=============================================================================
