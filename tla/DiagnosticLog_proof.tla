---------------------------- MODULE DiagnosticLog_proof ----------------------------
(***************************************************************************)
(* Proofs about DiagnosticLog for any writers, sizes and bounds: types,    *)
(* the refinement of RecordHistory, and the order of the records.          *)
(*                                                                         *)
(* The refinement needs to know, at the step that drops the oldest file,   *)
(* that the others are full and without a gap, at each renaming, that no   *)
(* file is in the way, and, when a record is written, that its number is   *)
(* greater than all those of its session: LogInv says so, and that only    *)
(* the holder of the lock is between its first and its last step.          *)
(***************************************************************************)
EXTENDS DiagnosticLog, SequenceTheorems, TLAPS

(* Those who rotate, number and write hold the lock, and nobody else does. *)
LockHeld == \A w \in Writers : lock = w <=> pc[w] \in Holding

(* What was rotated was full.                                              *)
FilesFull == \A i \in 1..3 : files[i] # <<>> => Len(files[i]) >= FileSize

(* Who rotates has a full file, and room for the next one to be renamed.   *)
RoomToShift ==
  \A w \in Writers :
    /\ pc[w] \in {"dropping", "shifting"} => Len(files[0]) >= FileSize
    /\ pc[w] = "shifting" => files[at[w] + 1] = <<>>

(* Files leave no gap but the one that a rotation in progress moves.       *)
MidShift(w) == pc[w] = "shifting" /\ at[w] < 2

Gapless ==
  ~torn =>
    /\ (\A w \in Writers : ~MidShift(w)) =>
         /\ files[3] # <<>> => files[2] # <<>>
         /\ files[2] # <<>> => files[1] # <<>>
    /\ \A w \in Writers : pc[w] = "shifting" =>
         /\ at[w] = 1 /\ files[3] # <<>> => files[1] # <<>>
         /\ at[w] = 0 /\ files[3] # <<>> => files[2] # <<>>

(* No record has a number that was not given out.                          *)
Accounted(r) ==
  /\ r.session \in Apps => r.epoch = 0 /\ r.sequence <= sequence[r.session]
  /\ r.session = Subscriber =>
       r.epoch <= epoch /\ (r.epoch = epoch => r.sequence <= lockSequence)

Written == {r \in Records : \E i \in 0..3 : \E j \in 1..Len(files[i]) : files[i][j] = r}

AllAccounted == \A r \in Written : Accounted(r)

(* A logger's number is newer than all that are written.                   *)
NewerThan(r, n) == r.session = Subscriber /\ r.epoch = epoch => r.sequence < n

NumberIsNew ==
  \A l \in Loggers : pc[l] \in Holding \ {"numbering"} =>
    /\ number[l] = lockSequence
    /\ \A r \in Written : NewerThan(r, number[l])

(* TypeOK in parts.                                                        *)
StepTypes ==
  /\ lock \in Writers \cup {Nobody}
  /\ pc \in [Writers -> Steps] /\ at \in [Writers -> 0..2]
NumberTypes ==
  /\ sequence \in [Apps -> Nat] /\ lockSequence \in Nat /\ epoch \in Nat
  /\ number \in [Loggers -> Nat]
  /\ children \in [Writers -> Nat] /\ begun \in Nat
FileTypes == files \in [0..3 -> Seq(Records)]

(* Who is to start a camera record has one left.                           *)
KidsLeft == \A w \in Writers : pc[w] = "parent" => children[w] # 0

TypeInv == StepTypes /\ NumberTypes /\ KidsLeft /\ FileTypes /\ torn \in BOOLEAN

LogInv ==
  /\ TypeInv /\ LockHeld /\ FilesFull /\ RoomToShift
  /\ Gapless /\ AllAccounted /\ NumberIsNew

-----------------------------------------------------------------------------
(* Types.                                                                  *)

LEMMA TypesAreTypeOK == TypeInv => LogTypeOK
BY Zenon DEF TypeInv, StepTypes, NumberTypes, FileTypes, LogTypeOK

LEMMA StepTypesStep == TypeInv /\ LogNext => StepTypes'
<1> SUFFICES ASSUME TypeInv, LogNext PROVE StepTypes'
  OBVIOUS
<1> USE DEF TypeInv, StepTypes
<1>1. ASSUME NEW w \in Writers, NEW kids, Call(w, kids) PROVE StepTypes'
  BY <1>1, SMT DEF Call, GoTo, Steps, fileVars
<1>2. ASSUME NEW w \in Writers, TakeLock(w) PROVE StepTypes'
  BY <1>2, SMT DEF TakeLock, GoTo, Steps, fileVars
<1>3. ASSUME NEW w \in Writers, CheckSize(w) PROVE StepTypes'
  BY <1>3, SMT DEF CheckSize, GoTo, Steps, fileVars
<1>4. ASSUME NEW w \in Writers, DropOldest(w) PROVE StepTypes'
  BY <1>4, SMT DEF DropOldest, GoTo, Steps
<1>5. ASSUME NEW w \in Writers, Shift(w) PROVE StepTypes'
  BY <1>5, SMT DEF Shift, GoTo, Steps
<1>6. ASSUME NEW w \in Writers, Write(w) PROVE StepTypes'
  BY <1>6, SMT DEF Write, Exit, GoTo, Steps
<1>7. ASSUME NEW w \in Loggers, TakeNumber(w) PROVE StepTypes'
  BY <1>7, SMT DEF TakeNumber, Exit, GoTo, Steps, fileVars, Writers
<1>8. ASSUME NEW w \in Loggers, StartChild(w) PROVE StepTypes'
  BY <1>8, SMT DEF StartChild, GoTo, Steps, fileVars, Writers
<1>9. ASSUME NEW w \in Writers, Kill(w) PROVE StepTypes'
  BY <1>9, SMT DEF Kill, Exit, GoTo, Steps
<1>10. QED
  BY <1>1, <1>2, <1>3, <1>4, <1>5, <1>6, <1>7, <1>8, <1>9, Zenon
     DEF LogNext, WriterStep, LogEvent, Writers

LEMMA NumberTypesStep == TypeInv /\ LogNext => NumberTypes'
<1> SUFFICES ASSUME TypeInv, LogNext PROVE NumberTypes'
  OBVIOUS
<1> USE DiagnosticLogAssumption DEF TypeInv, NumberTypes
<1>1. ASSUME NEW w \in Writers, NEW kids \in Nat, Call(w, kids) PROVE NumberTypes'
  BY <1>1, SMT DEF Call, numberVars
<1>2. ASSUME NEW w \in Writers, TakeLock(w) PROVE NumberTypes'
  BY <1>2, SMT DEF TakeLock, numberVars
<1>3. ASSUME NEW w \in Writers, CheckSize(w) PROVE NumberTypes'
  BY <1>3, SMT DEF CheckSize, numberVars
<1>4. ASSUME NEW w \in Writers, DropOldest(w) PROVE NumberTypes'
  BY <1>4, SMT DEF DropOldest, numberVars
<1>5. ASSUME NEW w \in Writers, Shift(w) PROVE NumberTypes'
  BY <1>5, SMT DEF Shift, numberVars
<1>6. ASSUME NEW w \in Writers, Write(w) PROVE NumberTypes'
  BY <1>6, SMT DEF Write, Exit, Counted
<1>7. ASSUME NEW w \in Loggers, TakeNumber(w) PROVE NumberTypes'
  BY <1>7, SMT DEF TakeNumber, Exit, Writers
<1>8. ASSUME NEW w \in Loggers, StartChild(w) PROVE NumberTypes'
  <2>1. w \in Writers /\ children[w] \in Nat /\ children[w] # 0
    BY <1>8, SMT DEF StartChild, KidsLeft, Writers
  <2> QED
    BY <1>8, <2>1, SMT DEF StartChild, numberVars
<1>9. ASSUME NEW w \in Writers, Kill(w) PROVE NumberTypes'
  BY <1>9, SMT DEF Kill, Exit, numberVars
<1>10. \A kids \in {0, CameraNodes + 1} : kids \in Nat
  OBVIOUS
<1>11. QED
  BY <1>1, <1>2, <1>3, <1>4, <1>5, <1>6, <1>7, <1>8, <1>9, <1>10, Zenon
     DEF LogNext, WriterStep, LogEvent, Writers

LEMMA KidsLeftStep == TypeInv /\ LogNext => KidsLeft'
<1> SUFFICES ASSUME TypeInv, LogNext PROVE KidsLeft'
  OBVIOUS
<1> USE DEF TypeInv, KidsLeft, StepTypes, NumberTypes, GoTo
<1>1. ASSUME NEW w \in Writers, NEW kids, Call(w, kids) PROVE KidsLeft'
  BY <1>1, SMT DEF Call
<1>2. ASSUME NEW w \in Writers, TakeLock(w) PROVE KidsLeft'
  BY <1>2, SMT DEF TakeLock
<1>3. ASSUME NEW w \in Writers, CheckSize(w) PROVE KidsLeft'
  BY <1>3, SMT DEF CheckSize
<1>4. ASSUME NEW w \in Writers, DropOldest(w) PROVE KidsLeft'
  BY <1>4, SMT DEF DropOldest
<1>5. ASSUME NEW w \in Writers, Shift(w) PROVE KidsLeft'
  BY <1>5, SMT DEF Shift
<1>6. ASSUME NEW w \in Writers, Write(w) PROVE KidsLeft'
  BY <1>6, SMT DEF Write, Exit
<1>7. ASSUME NEW w \in Loggers, TakeNumber(w) PROVE KidsLeft'
  BY <1>7, SMT DEF TakeNumber, Exit, Writers
<1>8. ASSUME NEW w \in Loggers, StartChild(w) PROVE KidsLeft'
  BY <1>8, SMT DEF StartChild, Writers
<1>9. ASSUME NEW w \in Writers, Kill(w) PROVE KidsLeft'
  BY <1>9, SMT DEF Kill, Exit
<1>10. QED
  BY <1>1, <1>2, <1>3, <1>4, <1>5, <1>6, <1>7, <1>8, <1>9, Zenon
     DEF LogNext, WriterStep, LogEvent, Writers

LEMMA RecordIsTyped == ASSUME TypeInv, NEW w \in Writers PROVE RecordOf(w) \in Records
<1>1. CASE w \in Apps
  BY <1>1, SMT DEF TypeInv, NumberTypes, RecordOf, Records
<1>2. CASE w \notin Apps
  <2>1. w \in Loggers
    BY <1>2 DEF Writers
  <2>2. number[w] \in Nat /\ epoch \in Nat
    BY <2>1 DEF TypeInv, NumberTypes
  <2> QED
    BY <1>2, <2>2, SMT DEF RecordOf, Records
<1> QED
  BY <1>1, <1>2

LEMMA RenamedIsTyped ==
  ASSUME FileTypes, NEW w, NEW i \in 0..2
  PROVE  Renamed(w, i) \in [0..3 -> Seq(Records)]
<1>1. <<>> \in Seq(Records)
  BY EmptySeq
<1> QED
  BY <1>1, SMT DEF FileTypes, Renamed

(* The files stay as they are but for those who hold the lock.             *)
LEMMA OthersKeepFiles ==
  ASSUME NEW w,
         \/ \E kids : Call(w, kids)
         \/ TakeLock(w) \/ CheckSize(w) \/ TakeNumber(w) \/ StartChild(w) \/ Kill(w)
  PROVE  files' = files
BY Zenon DEF Call, TakeLock, CheckSize, TakeNumber, StartChild, Kill, fileVars

LEMMA FileTypesStep == TypeInv /\ LogNext => FileTypes' /\ torn' \in BOOLEAN
<1> SUFFICES ASSUME TypeInv, LogNext PROVE FileTypes' /\ torn' \in BOOLEAN
  OBVIOUS
<1>1. <<>> \in Seq(Records)
  BY EmptySeq
<1>2. ASSUME NEW w \in Writers, DropOldest(w) PROVE FileTypes'
  BY <1>1, <1>2, SMT DEF DropOldest, TypeInv, FileTypes
<1>3. ASSUME NEW w \in Writers, Shift(w) PROVE FileTypes'
  <2>1. at[w] \in 0..2
    BY Zenon DEF TypeInv, StepTypes
  <2> QED
    BY <1>3, <2>1, RenamedIsTyped, Zenon DEF Shift, TypeInv, FileTypes
<1>4. ASSUME NEW w \in Writers, Write(w) PROVE FileTypes'
  <2>1. RecordOf(w) \in Records
    BY RecordIsTyped
  <2>2. files[0] \in Seq(Records)
    BY SMT DEF TypeInv, FileTypes
  <2>3. Append(files[0], RecordOf(w)) \in Seq(Records)
    BY <2>1, <2>2, AppendProperties
  <2>4. [files EXCEPT ![0] = Append(files[0], RecordOf(w))] \in [0..3 -> Seq(Records)]
    BY <2>3, Zenon DEF TypeInv, FileTypes
  <2> QED
    BY <1>4, <2>4, Zenon DEF Write, TypeInv, FileTypes
<1>5. FileTypes'
  BY <1>2, <1>3, <1>4, OthersKeepFiles, Zenon
     DEF LogNext, LogEvent, WriterStep, TypeInv, FileTypes
<1>6. ASSUME NEW w \in Writers, Kill(w) PROVE torn' \in BOOLEAN
  BY <1>6 DEF Kill
<1>7. torn' \in BOOLEAN
  BY <1>6, Zenon
     DEF LogNext, LogEvent, WriterStep, Call, TakeLock, CheckSize, DropOldest, Shift,
         Write, TakeNumber, StartChild, fileVars, TypeInv
<1> QED
  BY <1>5, <1>7

LEMMA TypeInvStep == TypeInv /\ LogNext => TypeInv'
BY StepTypesStep, NumberTypesStep, KidsLeftStep, FileTypesStep, Zenon DEF TypeInv

LEMMA TypeInvInit == LogInit => TypeInv
<1> SUFFICES ASSUME LogInit PROVE TypeInv
  OBVIOUS
<1>1. FileTypes
  BY EmptySeq, SMT DEF LogInit, FileTypes
<1>2. StepTypes
  BY SMT DEF LogInit, StepTypes, Steps
<1>3. NumberTypes
  BY SMT DEF LogInit, NumberTypes
<1>4. KidsLeft
  BY SMT DEF LogInit, KidsLeft
<1> QED
  BY <1>1, <1>2, <1>3, <1>4, Zenon DEF LogInit, TypeInv

-----------------------------------------------------------------------------
(* The lock and the files.                                                 *)

LEMMA LockHeldStep == TypeInv /\ LockHeld /\ LogNext => LockHeld'
<1> SUFFICES ASSUME TypeInv, LockHeld, LogNext PROVE LockHeld'
  OBVIOUS
<1> USE DiagnosticLogAssumption DEF TypeInv, LockHeld, StepTypes, GoTo, Holding, Steps
<1>1. ASSUME NEW w \in Writers, NEW kids, Call(w, kids) PROVE LockHeld'
  BY <1>1, SMT DEF Call
<1>2. ASSUME NEW w \in Writers, TakeLock(w) PROVE LockHeld'
  BY <1>2, SMT DEF TakeLock
<1>3. ASSUME NEW w \in Writers, CheckSize(w) PROVE LockHeld'
  BY <1>3, SMT DEF CheckSize
<1>4. ASSUME NEW w \in Writers, DropOldest(w) PROVE LockHeld'
  BY <1>4, SMT DEF DropOldest
<1>5. ASSUME NEW w \in Writers, Shift(w) PROVE LockHeld'
  BY <1>5, SMT DEF Shift
<1>6. ASSUME NEW w \in Writers, Write(w) PROVE LockHeld'
  BY <1>6, SMT DEF Write, Exit
<1>7. ASSUME NEW w \in Loggers, TakeNumber(w) PROVE LockHeld'
  BY <1>7, SMT DEF TakeNumber, Exit, Writers
<1>8. ASSUME NEW w \in Loggers, StartChild(w) PROVE LockHeld'
  BY <1>8, SMT DEF StartChild, Writers
<1>9. ASSUME NEW w \in Writers, Kill(w) PROVE LockHeld'
  BY <1>9, SMT DEF Kill, Exit
<1>10. QED
  BY <1>1, <1>2, <1>3, <1>4, <1>5, <1>6, <1>7, <1>8, <1>9, Zenon
     DEF LogNext, WriterStep, LogEvent, Writers

(* With the lock one writer is between its first and its last step.        *)
LEMMA OneHolder ==
  ASSUME LockHeld, NEW v \in Writers, NEW w \in Writers,
         pc[v] \in Holding, pc[w] \in Holding
  PROVE  v = w
BY DEF LockHeld

LEMMA FilesFullStep == TypeInv /\ RoomToShift /\ FilesFull /\ LogNext => FilesFull'
<1> SUFFICES ASSUME TypeInv, RoomToShift, FilesFull, LogNext PROVE FilesFull'
  OBVIOUS
<1> USE DEF TypeInv, FileTypes, FilesFull
<1>1. ASSUME NEW w \in Writers, DropOldest(w) PROVE FilesFull'
  BY <1>1, SMT DEF DropOldest
<1>2. ASSUME NEW w \in Writers, Shift(w) PROVE FilesFull'
  <2>1. at[w] \in 0..2 /\ Len(files[0]) >= FileSize
    BY <1>2, SMT DEF StepTypes, Shift, RoomToShift
  <2>2. files' = files
        \/ files' = [files EXCEPT ![at[w] + 1] = files[at[w]], ![at[w]] = <<>>]
    BY <1>2, SMT DEF Shift, Renamed
  <2> QED
    BY <2>1, <2>2, SMT
<1>3. ASSUME NEW w \in Writers, Write(w) PROVE FilesFull'
  <2>1. \A i \in 1..3 : files'[i] = files[i]
    BY <1>3, SMT DEF Write
  <2> QED
    BY <2>1, Zenon
<1>4. QED
  BY <1>1, <1>2, <1>3, OthersKeepFiles, Zenon DEF LogNext, WriterStep, LogEvent

(* What OthersKeepFiles names changes neither who renames nor which file,  *)
(* but for a killed writer.                                                *)
LEMMA OthersKeepSteps ==
  ASSUME TypeInv, NEW w \in Writers,
         \/ \E kids : Call(w, kids)
         \/ TakeLock(w) \/ TakeNumber(w) \/ StartChild(w) \/ Kill(w)
  PROVE  /\ files' = files /\ at' = at
         /\ \A v \in Writers :
              pc'[v] \in {"dropping", "shifting"} => pc'[v] = pc[v]
<1>1. files' = files
  BY OthersKeepFiles, Zenon
<1>2. at' = at
  BY Zenon DEF Call, TakeLock, TakeNumber, StartChild, Kill, fileVars
<1>3. PICK step \in Steps \ {"dropping", "shifting"} : GoTo(w, step) 
  BY Zenon DEF Call, TakeLock, TakeNumber, StartChild, Kill, Exit, Steps
<1> QED
  BY <1>1, <1>2, <1>3, SMT DEF TypeInv, StepTypes, GoTo

LEMMA RoomToShiftStep ==
  TypeInv /\ LockHeld /\ RoomToShift /\ LogNext => RoomToShift'
<1> SUFFICES ASSUME TypeInv, LockHeld, RoomToShift, LogNext PROVE RoomToShift'
  OBVIOUS
<1> USE DEF TypeInv, StepTypes, FileTypes, RoomToShift
<1>1. ASSUME NEW w \in Writers, CheckSize(w) PROVE RoomToShift'
  BY <1>1, DiagnosticLogAssumption, SMT DEF CheckSize, GoTo, fileVars
<1>2. ASSUME NEW w \in Writers, DropOldest(w) PROVE RoomToShift'
  <2>1. \A v \in Writers \ {w} : pc'[v] \notin {"dropping", "shifting"}
    BY <1>2, OneHolder, SMT DEF DropOldest, GoTo, Holding
  <2>2. at'[w] = 2 /\ files'[3] = <<>> /\ files'[0] = files[0] /\ Len(files[0]) >= FileSize
    BY <1>2, SMT DEF DropOldest
  <2> QED
    BY <2>1, <2>2, SMT
<1>3. ASSUME NEW w \in Writers, Shift(w) PROVE RoomToShift'
  <2>1. \A v \in Writers \ {w} : pc'[v] \notin {"dropping", "shifting"}
    BY <1>3, OneHolder, SMT DEF Shift, GoTo, Holding
  <2>2. at[w] \in 0..2 /\ files[at[w] + 1] = <<>>
    BY <1>3, SMT DEF Shift
  <2>3. files' = [files EXCEPT ![at[w] + 1] = files[at[w]], ![at[w]] = <<>>]
        \/ (files' = files /\ files[at[w]] = <<>>)
    BY <1>3, <2>2, SMT DEF Shift, Renamed
  <2>4. files'[at[w]] = <<>>
    BY <2>2, <2>3, SMT
  <2>5. CASE at[w] > 0
    <3>1. at'[w] = at[w] - 1 /\ pc' = pc /\ files'[0] = files[0]
      BY <1>3, <2>2, <2>3, <2>5, SMT DEF Shift
    <3> QED
      BY <1>3, <2>1, <2>2, <2>4, <3>1, SMT DEF Shift
  <2>6. CASE at[w] = 0
    BY <1>3, <2>1, <2>6, SMT DEF Shift, GoTo
  <2> QED
    BY <2>2, <2>5, <2>6, SMT
<1>4. ASSUME NEW w \in Writers, Write(w) PROVE RoomToShift'
  <2>1. \A v \in Writers : pc'[v] \notin {"dropping", "shifting"}
    BY <1>4, OneHolder, SMT DEF Write, Exit, GoTo, Holding
  <2> QED
    BY <2>1, SMT
<1>5. ASSUME NEW w \in Writers,
             \/ \E kids : Call(w, kids)
             \/ TakeLock(w) \/ TakeNumber(w) \/ StartChild(w) \/ Kill(w)
      PROVE  RoomToShift'
  BY <1>5, OthersKeepSteps, SMT
<1>6. QED
  BY <1>1, <1>2, <1>3, <1>4, <1>5, Zenon DEF LogNext, WriterStep, LogEvent, Writers

LEMMA GaplessStep ==
  TypeInv /\ LockHeld /\ RoomToShift /\ Gapless /\ LogNext => Gapless'
<1> SUFFICES ASSUME TypeInv, LockHeld, RoomToShift, Gapless, LogNext,
                    ~torn'
             PROVE  /\ (\A v \in Writers : ~MidShift(v)') =>
                         /\ files'[3] # <<>> => files'[2] # <<>>
                         /\ files'[2] # <<>> => files'[1] # <<>>
                    /\ \A v \in Writers : pc'[v] = "shifting" =>
                         /\ at'[v] = 1 /\ files'[3] # <<>> => files'[1] # <<>>
                         /\ at'[v] = 0 /\ files'[3] # <<>> => files'[2] # <<>>
  BY Zenon DEF Gapless
<1> DEFINE NoGap == /\ files[3] # <<>> => files[2] # <<>>
                    /\ files[2] # <<>> => files[1] # <<>>
           Moved(v) == /\ at[v] = 1 /\ files[3] # <<>> => files[1] # <<>>
                       /\ at[v] = 0 /\ files[3] # <<>> => files[2] # <<>>
           Goal == /\ (\A v \in Writers : ~MidShift(v)') => NoGap'
                   /\ \A v \in Writers : pc'[v] = "shifting" => Moved(v)'
<1>1. /\ (\A v \in Writers : ~MidShift(v)) => NoGap
      /\ \A v \in Writers : pc[v] = "shifting" => Moved(v)
  <2>1. ~torn
    BY Zenon DEF LogNext, LogEvent, WriterStep, Call, TakeLock, CheckSize, DropOldest,
         Shift, Write, TakeNumber, StartChild, Kill, fileVars
  <2> QED
    BY <2>1, Zenon DEF Gapless
<1> USE DEF TypeInv, StepTypes, FileTypes, MidShift
<1>2. ASSUME NEW w \in Writers,
             CheckSize(w) \/ (\E kids : Call(w, kids))
             \/ TakeLock(w) \/ TakeNumber(w) \/ StartChild(w) \/ Kill(w)
      PROVE  Goal
  <2>1. files' = files /\ at' = at
    BY <1>2, OthersKeepSteps, OthersKeepFiles, Zenon DEF CheckSize, fileVars
  <2>2. \A v \in Writers : pc'[v] = "shifting" => pc[v] = "shifting"
    <3>1. CASE CheckSize(w)
      BY <3>1, SMT DEF CheckSize, GoTo
    <3> QED
      BY <1>2, <3>1, OthersKeepSteps, SMT
  <2>3. \A v \in Writers : MidShift(v) => MidShift(v)'
    <3>1. CASE Kill(w)
      <4>1. ~MidShift(w)
        BY <3>1, Zenon DEF Kill
      <4>2. \A v \in Writers \ {w} : pc'[v] = pc[v]
        BY <3>1, SMT DEF Kill, Exit, GoTo
      <4> QED
        BY <2>1, <4>1, <4>2, Zenon
    <3>2. CASE CheckSize(w)
      BY <2>1, <3>2, SMT DEF CheckSize, GoTo
    <3>3. CASE \E kids : Call(w, kids)
      BY <2>1, <3>3, SMT DEF Call, GoTo
    <3>4. CASE TakeLock(w)
      BY <2>1, <3>4, SMT DEF TakeLock, GoTo
    <3>5. CASE TakeNumber(w)
      BY <2>1, <3>5, SMT DEF TakeNumber, Exit, GoTo
    <3>6. CASE StartChild(w)
      BY <2>1, <3>6, SMT DEF StartChild, GoTo
    <3> QED
      BY <1>2, <3>1, <3>2, <3>3, <3>4, <3>5, <3>6, Zenon
  <2> QED
    BY <1>1, <2>1, <2>2, <2>3, Zenon
<1>3. ASSUME NEW w \in Writers, DropOldest(w) PROVE Goal
  <2>1. \A v \in Writers : pc[v] # "shifting"
    BY <1>3, OneHolder, SMT DEF DropOldest, Holding
  <2>2. NoGap
    BY <1>1, <2>1, Zenon
  <2>3. /\ files'[3] = <<>> /\ files'[2] = files[2] /\ files'[1] = files[1]
        /\ \A v \in Writers : pc'[v] = "shifting" => at'[v] = 2
    BY <1>3, <2>1, SMT DEF DropOldest, GoTo
  <2> QED
    BY <2>2, <2>3, SMT
<1>4. ASSUME NEW w \in Writers, Shift(w) PROVE Goal
  <2>1. \A v \in Writers \ {w} : pc[v] # "shifting" /\ pc'[v] # "shifting"
    BY <1>4, OneHolder, SMT DEF Shift, GoTo, Holding
  <2>2. at[w] \in 0..2 /\ files[at[w] + 1] = <<>> /\ pc[w] = "shifting"
        /\ Len(files[0]) >= FileSize
    BY <1>4, SMT DEF Shift, RoomToShift
  <2>3. files' = [files EXCEPT ![at[w] + 1] = files[at[w]], ![at[w]] = <<>>]
        \/ (files' = files /\ files[at[w]] = <<>>)
    BY <1>4, <2>2, SMT DEF Shift, Renamed
  <2>4. /\ files'[at[w] + 1] = files[at[w]]
        /\ \A i \in 0..3 : i \notin {at[w], at[w] + 1} => files'[i] = files[i]
        /\ files'[at[w]] = <<>>
    BY <2>2, <2>3, SMT
  <2>5. files[0] # <<>>
    BY <2>2, EmptySeq, DiagnosticLogAssumption, SMT
  <2>6. CASE at[w] = 2
    <3>1. NoGap
      BY <1>1, <2>1, <2>6, SMT
    <3>2. at'[w] = 1 /\ pc' = pc
      BY <1>4, <2>2, <2>6, SMT DEF Shift
    <3> QED
      BY <2>1, <2>2, <2>4, <2>6, <3>1, <3>2, SMT
  <2>7. CASE at[w] = 1
    <3>1. at'[w] = 0 /\ pc' = pc
      BY <1>4, <2>2, <2>7, SMT DEF Shift
    <3>2. files'[2] = files[1] /\ files'[3] = files[3]
      BY <2>4, <2>7, SMT
    <3>3. files[3] # <<>> => files[1] # <<>>
      BY <1>1, <2>2, <2>7, Zenon
    <3> QED
      BY <2>1, <2>2, <3>1, <3>2, <3>3, SMT
  <2>8. CASE at[w] = 0
    <3>1. pc'[w] = "writing"
      BY <1>4, <2>8, SMT DEF Shift, GoTo
    <3>2. files'[1] = files[0] /\ files'[2] = files[2] /\ files'[3] = files[3]
      BY <2>4, <2>8, SMT
    <3>3. files[3] # <<>> => files[2] # <<>>
      BY <1>1, <2>2, <2>8, Zenon
    <3> QED
      BY <2>1, <2>5, <3>1, <3>2, <3>3, SMT
  <2> QED
    BY <2>2, <2>6, <2>7, <2>8, SMT
<1>5. ASSUME NEW w \in Writers, Write(w) PROVE Goal
  <2>1. \A v \in Writers : pc[v] # "shifting" /\ pc'[v] # "shifting"
    BY <1>5, OneHolder, SMT DEF Write, Exit, GoTo, Holding
  <2>2. \A i \in 1..3 : files'[i] = files[i]
    BY <1>5, SMT DEF Write
  <2> QED
    BY <1>1, <2>1, <2>2, SMT
<1>6. QED
  BY <1>2, <1>3, <1>4, <1>5, Zenon DEF LogNext, WriterStep, LogEvent, Writers

-----------------------------------------------------------------------------
(* The numbers.                                                            *)

LEMMA WrittenMember ==
  ASSUME TypeInv, NEW i \in 0..3, NEW j \in 1..Len(files[i])
  PROVE  files[i][j] \in Written
<1>1. files[i] \in Seq(Records)
  BY Zenon DEF TypeInv, FileTypes
<1>2. files[i][j] \in Records
  BY <1>1, ElementOfSeq
<1> QED
  BY <1>2, Zenon DEF Written

(* Only writing adds a record.                                             *)
LEMMA WrittenShrinks ==
  ASSUME TypeInv, NEW w \in Writers, DropOldest(w) \/ Shift(w)
  PROVE  Written' \subseteq Written
<1> SUFFICES ASSUME NEW i \in 0..3, NEW j \in 1..Len(files'[i])
             PROVE  files'[i][j] \in Written
  BY Zenon DEF Written
<1>1. files'[i] = <<>> \/ \E k \in 0..3 : files'[i] = files[k]
  <2>1. CASE DropOldest(w)
    BY <2>1, SMT DEF DropOldest, TypeInv, FileTypes
  <2>2. CASE Shift(w)
    <3>1. at[w] \in 0..2
      BY Zenon DEF TypeInv, StepTypes
    <3> QED
      BY <2>2, <3>1, SMT DEF Shift, Renamed, TypeInv, FileTypes
  <2> QED
    BY <2>1, <2>2
<1>2. files'[i] # <<>>
  BY EmptySeq, SMT
<1>3. PICK k \in 0..3 : files'[i] = files[k]
  BY <1>1, <1>2
<1> QED
  BY <1>3, WrittenMember

LEMMA WrittenGrows ==
  ASSUME TypeInv, NEW w \in Writers, Write(w)
  PROVE  Written' \subseteq Written \cup {RecordOf(w)}
<1> SUFFICES ASSUME NEW i \in 0..3, NEW j \in 1..Len(files'[i])
             PROVE  files'[i][j] \in Written \cup {RecordOf(w)}
  BY Zenon DEF Written
<1>1. CASE files'[i] = files[i]
  BY <1>1, WrittenMember
<1>2. CASE files'[i] # files[i]
  <2>1. i = 0 /\ files'[0] = Append(files[0], RecordOf(w))
    BY <1>2, SMT DEF Write, TypeInv, FileTypes
  <2>2. files[0] \in Seq(Records) /\ RecordOf(w) \in Records
    BY RecordIsTyped, SMT DEF TypeInv, FileTypes
  <2>3. /\ Len(files'[0]) = Len(files[0]) + 1 /\ Len(files[0]) \in Nat
        /\ \A k \in 1..Len(files[0]) : files'[0][k] = files[0][k]
        /\ files'[0][Len(files[0]) + 1] = RecordOf(w)
    BY <2>1, <2>2, AppendProperties, LenProperties
  <2>4. j \in 1..Len(files[0]) \/ j = Len(files[0]) + 1
    BY <2>1, <2>3, SMT
  <2> QED
    BY <2>1, <2>3, <2>4, WrittenMember
<1> QED
  BY <1>1, <1>2

LEMMA WrittenStays ==
  ASSUME files' = files
  PROVE  Written' = Written
BY Zenon DEF Written

(* Numbers are only ever given out upwards.                                *)
LEMMA NumbersGrow ==
  ASSUME TypeInv, LogNext
  PROVE  /\ \A a \in Apps : sequence[a] <= sequence'[a]
         /\ epoch < epoch' \/ (epoch = epoch' /\ lockSequence <= lockSequence')
<1> USE DEF TypeInv, NumberTypes
<1> DEFINE Goal == /\ \A a \in Apps : sequence[a] <= sequence'[a]
                   /\ epoch < epoch' \/ (epoch = epoch' /\ lockSequence <= lockSequence')
<1>1. ASSUME NEW w \in Writers, Write(w) PROVE Goal
  BY <1>1, SMT DEF Write, Counted
<1>2. ASSUME NEW w \in Loggers, TakeNumber(w) PROVE Goal
  BY <1>2, SMT DEF TakeNumber
<1>3. ASSUME UNCHANGED numberVars PROVE Goal
  BY <1>3, SMT DEF numberVars
<1> QED
  BY <1>1, <1>2, <1>3, Zenon DEF LogNext, LogEvent, WriterStep, Call, TakeLock, CheckSize,
     DropOldest, Shift, StartChild, Kill

LEMMA AccountedStays ==
  ASSUME TypeInv, LogNext, NEW r \in Records, Accounted(r)
  PROVE  Accounted(r)'
<1>1. TypeInv'
  BY TypeInvStep
<1> QED
  BY <1>1, NumbersGrow, SMT DEF Accounted, Records, TypeInv, NumberTypes

LEMMA NewRecordAccounted ==
  ASSUME TypeInv, LockHeld, NumberIsNew, NEW w \in Writers, Write(w),
         NEW r, r = RecordOf(w)
  PROVE  Accounted(r)'
<1> USE DiagnosticLogAssumption DEF TypeInv, NumberTypes
<1>1. CASE w \in Apps
  <2>1. sequence'[w] = sequence[w] + 1
    BY <1>1, SMT DEF Write, Counted
  <2>2. r.session = w /\ r.epoch = 0 /\ r.sequence = sequence[w] + 1
    BY <1>1, SMT DEF RecordOf
  <2> QED
    BY <1>1, <2>1, <2>2, SMT DEF Accounted
<1>2. CASE w \notin Apps
  <2>1. w \in Loggers
    BY <1>2 DEF Writers
  <2>2. number[w] = lockSequence
    BY <2>1, SMT DEF NumberIsNew, Write, Holding
  <2>3. r.session = Subscriber /\ r.epoch = epoch /\ r.sequence = number[w]
    BY <1>2, SMT DEF RecordOf
  <2>4. epoch' = epoch /\ lockSequence' = lockSequence
    BY Zenon DEF Write
  <2> QED
    BY <2>2, <2>3, <2>4, SMT DEF Accounted
<1> QED
  BY <1>1, <1>2

LEMMA WrittenStep ==
  ASSUME TypeInv, LogNext
  PROVE  \/ Written' \subseteq Written
         \/ \E w \in Writers : Write(w) /\ Written' \subseteq Written \cup {RecordOf(w)}
<1>1. ASSUME NEW w \in Writers, DropOldest(w) \/ Shift(w) PROVE Written' \subseteq Written
  BY <1>1, WrittenShrinks, Zenon
<1>2. ASSUME NEW w \in Writers, Write(w)
      PROVE  Written' \subseteq Written \cup {RecordOf(w)}
  BY <1>2, WrittenGrows, Zenon
<1>3. ASSUME files' = files PROVE Written' \subseteq Written
  BY <1>3, WrittenStays, Zenon
<1> QED
  BY <1>1, <1>2, <1>3, OthersKeepFiles, Zenon DEF LogNext, LogEvent, WriterStep

LEMMA AllAccountedStep ==
  TypeInv /\ LockHeld /\ NumberIsNew /\ AllAccounted /\ LogNext => AllAccounted'
<1> SUFFICES ASSUME TypeInv, LockHeld, NumberIsNew, AllAccounted, LogNext,
                    NEW r \in Written'
             PROVE  Accounted(r)'
  BY Zenon DEF AllAccounted
<1>1. CASE r \in Written
  BY <1>1, AccountedStays, Zenon DEF AllAccounted, Written
<1>2. CASE r \notin Written
  <2>1. PICK w \in Writers : Write(w) /\ r = RecordOf(w)
    BY <1>2, WrittenStep, Zenon
  <2> QED
    BY <2>1, NewRecordAccounted, Zenon
<1> QED
  BY <1>1, <1>2

LEMMA NumberIsNewStep ==
  TypeInv /\ LockHeld /\ NumberIsNew /\ AllAccounted /\ LogNext => NumberIsNew'
<1> SUFFICES ASSUME TypeInv, LockHeld, NumberIsNew, AllAccounted, LogNext,
                    NEW l \in Loggers, pc'[l] \in Holding \ {"numbering"}
             PROVE  /\ number'[l] = lockSequence'
                    /\ \A r \in Written' : NewerThan(r, number[l])'
  BY Zenon DEF NumberIsNew
<1> DEFINE Goal == /\ number'[l] = lockSequence'
                   /\ \A r \in Written' : NewerThan(r, number[l])'
<1> USE DEF TypeInv, StepTypes
<1>0. l \in Writers /\ l \notin Apps
  BY DiagnosticLogAssumption DEF Writers
<1>1. ASSUME pc[l] \in Holding \ {"numbering"}, UNCHANGED numberVars,
             Written' \subseteq Written
      PROVE  Goal
  BY <1>1, Zenon DEF NumberIsNew, NewerThan, numberVars
<1>2. ASSUME NEW w \in Writers, TakeLock(w) \/ StartChild(w) \/ Kill(w)
                                \/ \E kids : Call(w, kids)
      PROVE  Goal
  <2>1. UNCHANGED numberVars /\ Written' = Written
    BY <1>2, OthersKeepFiles, WrittenStays, Zenon
       DEF TakeLock, StartChild, Kill, Call
  <2>2. PICK step \in {"waiting", "numbering", "sizing", "idle", "dead"} :
          /\ GoTo(w, step) 
          /\ step = "sizing" => w \in Apps
    BY <1>2, Zenon DEF TakeLock, StartChild, Kill, Exit, Call
  <2>3. pc[l] \in Holding \ {"numbering"}
    BY <1>0, <2>2, SMT DEF GoTo, Holding
  <2> QED
    BY <1>1, <2>1, <2>3, Zenon
<1>3. ASSUME NEW w \in Writers, CheckSize(w) \/ DropOldest(w) \/ Shift(w) PROVE Goal
  <2>1. UNCHANGED numberVars /\ Written' \subseteq Written
    BY <1>3, WrittenShrinks, WrittenStays, Zenon DEF CheckSize, DropOldest, Shift, fileVars
  <2>2. pc[l] \in Holding \ {"numbering"}
    BY <1>0, <1>3, SMT DEF CheckSize, DropOldest, Shift, GoTo, Holding
  <2> QED
    BY <1>1, <2>1, <2>2, Zenon
<1>4. ASSUME NEW w \in Writers, Write(w) PROVE Goal
  <2>1. l # w /\ pc[l] \in Holding /\ pc[w] \in Holding
    BY <1>0, <1>4, SMT DEF Write, Exit, GoTo, Holding
  <2> QED
    BY <1>0, <2>1, OneHolder
<1>5. ASSUME NEW w \in Loggers, TakeNumber(w) PROVE Goal
  <2>1. w \in Writers
    BY DEF Writers
  <2>2. w = l
    <3>1. CASE w # l
      <4>1. pc[l] \in Holding /\ pc[w] \in Holding
        BY <1>0, <1>5, <2>1, <3>1, SMT DEF TakeNumber, Exit, GoTo, Holding
      <4> QED
        BY <1>0, <2>1, <4>1, OneHolder
    <3> QED
      BY <3>1
  <2>3. /\ lockSequence' = lockSequence + 1 /\ epoch' = epoch
        /\ number'[l] = lockSequence + 1
    BY <1>0, <1>5, <2>2, SMT DEF TakeNumber, Exit, GoTo, Holding, NumberTypes
  <2>4. Written' = Written
    BY <1>5, OthersKeepFiles, WrittenStays, Zenon
  <2>5. ASSUME NEW r \in Written PROVE NewerThan(r, number[l])'
    <3>1. r \in Records /\ Accounted(r)
      BY Zenon DEF AllAccounted, Written
    <3> QED
      BY <2>3, <3>1, SMT DEF NewerThan, Accounted, Records, NumberTypes
  <2> QED
    BY <2>3, <2>4, <2>5, Zenon
<1>6. QED
  BY <1>2, <1>3, <1>4, <1>5, Zenon DEF LogNext, WriterStep, LogEvent, Writers

-----------------------------------------------------------------------------

LEMMA LogInvInit == LogInit => LogInv
<1> SUFFICES ASSUME LogInit PROVE LogInv
  OBVIOUS
<1>1. TypeInv
  BY TypeInvInit
<1>2. LockHeld
  BY DiagnosticLogAssumption, SMT DEF LogInit, LockHeld, Holding
<1>3. FilesFull /\ RoomToShift /\ Gapless
  BY SMT DEF LogInit, FilesFull, RoomToShift, Gapless
<1>4. Written = {}
  <2>1. \A i \in 0..3 : Len(files[i]) = 0
    BY EmptySeq, SMT DEF LogInit
  <2>2. \A i \in 0..3 : 1..Len(files[i]) = {}
    BY <2>1, SMT
  <2> QED
    BY <2>2, Zenon DEF Written
<1>5. AllAccounted
  BY <1>4, Zenon DEF AllAccounted
<1>6. NumberIsNew
  BY SMT DEF LogInit, NumberIsNew, Holding, Writers
<1> QED
  BY <1>1, <1>2, <1>3, <1>5, <1>6, Zenon DEF LogInv

LEMMA LogInvStep == LogInv /\ [LogNext]_logVars => LogInv'
<1>1. LogInv /\ LogNext => LogInv'
  BY TypeInvStep, LockHeldStep, FilesFullStep, RoomToShiftStep, GaplessStep,
     AllAccountedStep, NumberIsNewStep, Zenon DEF LogInv
<1>2. LogInv /\ UNCHANGED logVars => LogInv'
  <2> SUFFICES ASSUME LogInv, UNCHANGED logVars PROVE LogInv'
    OBVIOUS
  <2>1. TypeInv'
    BY Zenon DEF LogInv, TypeInv, StepTypes, NumberTypes, KidsLeft, FileTypes, logVars
  <2>2. LockHeld' /\ FilesFull' /\ RoomToShift'
    BY Zenon DEF LogInv, LockHeld, FilesFull, RoomToShift, logVars
  <2>3. Gapless'
    BY Zenon DEF LogInv, Gapless, MidShift, logVars
  <2>4. AllAccounted'
    BY Zenon DEF LogInv, AllAccounted, Accounted, Written, logVars
  <2>5. NumberIsNew'
    BY Zenon DEF LogInv, NumberIsNew, NewerThan, Written, logVars
  <2> QED
    BY <2>1, <2>2, <2>3, <2>4, <2>5, Zenon DEF LogInv
<1> QED
  BY <1>1, <1>2

(* What LogInv says holds in every state.                                  *)
THEOREM LogInvariant == LogSpec => []LogInv
BY LogInvInit, LogInvStep, PTL DEF LogSpec

(* Every variable stays within its type: the steps of the writers, their   *)
(* numbers, and files of records.                                          *)
THEOREM TypeCorrect == LogSpec => []LogTypeOK
<1>1. LogInv => LogTypeOK
  BY TypesAreTypeOK DEF LogInv
<1> QED
  BY <1>1, LogInvariant, PTL

-----------------------------------------------------------------------------
(* The files read as one history.                                          *)

LEMMA FilesAreSequences ==
  ASSUME FileTypes
  PROVE  /\ files[0] \in Seq(Records) /\ files[1] \in Seq(Records)
         /\ files[2] \in Seq(Records) /\ files[3] \in Seq(Records)
BY SMT DEF FileTypes

LEMMA KeptIsTyped ==
  ASSUME FileTypes
  PROVE  /\ Kept \in Seq(Records)
         /\ Len(Kept) = Len(files[3]) + Len(files[2]) + Len(files[1]) + Len(files[0])
BY FilesAreSequences, SMT DEF Kept

(* An element of a concatenation is one of its parts'.                     *)
LEMMA ConcatElement ==
  ASSUME NEW s \in Seq(Records), NEW t \in Seq(Records), NEW i \in 1..Len(s \o t)
  PROVE  \/ \E j \in 1..Len(s) : (s \o t)[i] = s[j]
         \/ \E j \in 1..Len(t) : (s \o t)[i] = t[j]
OBVIOUS

LEMMA KeptIsWritten ==
  ASSUME TypeInv, NEW i \in 1..Len(Kept)
  PROVE  Kept[i] \in Written
<1> DEFINE old == files[3] \o files[2]
           older == old \o files[1]
<1>0. /\ files[0] \in Seq(Records) /\ files[1] \in Seq(Records)
      /\ files[2] \in Seq(Records) /\ files[3] \in Seq(Records)
      /\ old \in Seq(Records) /\ older \in Seq(Records)
  BY FilesAreSequences, SMT DEF TypeInv
<1>1. ASSUME NEW j \in 1..Len(old) PROVE old[j] \in Written
  <2>1. \/ \E k \in 1..Len(files[3]) : old[j] = files[3][k]
        \/ \E k \in 1..Len(files[2]) : old[j] = files[2][k]
    BY <1>0, ConcatElement
  <2> HIDE DEF old
  <2> QED
    BY <2>1, WrittenMember, SMT
<1>2. ASSUME NEW j \in 1..Len(older) PROVE older[j] \in Written
  <2> HIDE DEF old
  <2>1. \/ \E k \in 1..Len(old) : older[j] = old[k]
        \/ \E k \in 1..Len(files[1]) : older[j] = files[1][k]
    BY <1>0, ConcatElement
  <2> HIDE DEF older
  <2> QED
    BY <1>1, <2>1, WrittenMember, SMT
<1>3. Kept = older \o files[0]
  BY Zenon DEF Kept
<1> HIDE DEF older
<1>4. \/ \E k \in 1..Len(older) : Kept[i] = older[k]
      \/ \E k \in 1..Len(files[0]) : Kept[i] = files[0][k]
  BY <1>0, <1>3, ConcatElement
<1> QED
  BY <1>2, <1>4, WrittenMember, SMT

LEMMA AppendLast ==
  \A s, t, u, v \in Seq(Records) : \A r \in Records :
    s \o t \o u \o Append(v, r) = Append(s \o t \o u \o v, r)
OBVIOUS

LEMMA DropFirst ==
  \A s, t, u, v \in Seq(Records) :
    <<>> \o t \o u \o v = SubSeq(s \o t \o u \o v, Len(s) + 1, Len(s \o t \o u \o v))
OBVIOUS

LEMMA KeptAppended ==
  ASSUME FileTypes, NEW r \in Records, files' = [files EXCEPT ![0] = Append(@, r)]
  PROVE  Kept' = Append(Kept, r)
<1>9. PICK s \in Seq(Records), t \in Seq(Records), u \in Seq(Records), v \in Seq(Records) :
         s = files[3] /\ t = files[2] /\ u = files[1] /\ v = files[0]
  BY FilesAreSequences
<1>0. Kept = s \o t \o u \o v
  BY <1>9, Zenon DEF Kept
<1>1. /\ files'[0] = Append(v, r) /\ files'[1] = u
      /\ files'[2] = t /\ files'[3] = s
  BY <1>9, SMT DEF FileTypes
<1>2. Kept' = s \o t \o u \o Append(v, r)
  BY <1>1, Zenon DEF Kept
<1>3. s \o t \o u \o Append(v, r) = Append(s \o t \o u \o v, r)
  BY AppendLast, SMTT(30)
<1> QED
  BY <1>0, <1>2, <1>3, Zenon

(* Renaming to a file that does not exist changes nothing for the reader.  *)
LEMMA KeptMoved ==
  ASSUME FileTypes, NEW i \in 0..2, files[i + 1] = <<>>,
         files' = [files EXCEPT ![i + 1] = files[i], ![i] = <<>>]
  PROVE  Kept' = Kept
<1> PICK s \in Seq(Records), t \in Seq(Records), u \in Seq(Records), v \in Seq(Records) :
       s = files[3] /\ t = files[2] /\ u = files[1] /\ v = files[0]
  BY FilesAreSequences
<1>0. Kept = s \o t \o u \o v
  BY Zenon DEF Kept
<1>1. CASE i = 2
  <2>1. /\ files'[3] = t /\ files'[2] = <<>> /\ files'[1] = u
        /\ files'[0] = v /\ s = <<>>
    BY <1>1, SMT DEF FileTypes
  <2>2. Kept' = t \o <<>> \o u \o v /\ Kept = <<>> \o t \o u \o v
    BY <1>0, <2>1, Zenon DEF Kept
  <2>3. t \o <<>> \o u \o v = <<>> \o t \o u \o v
    OBVIOUS
  <2> QED
    BY <2>2, <2>3, Zenon
<1>2. CASE i = 1
  <2>1. /\ files'[3] = s /\ files'[2] = u /\ files'[1] = <<>>
        /\ files'[0] = v /\ t = <<>>
    BY <1>2, SMT DEF FileTypes
  <2>2. Kept' = s \o u \o <<>> \o v /\ Kept = s \o <<>> \o u \o v
    BY <1>0, <2>1, Zenon DEF Kept
  <2>3. s \o u \o <<>> \o v = s \o <<>> \o u \o v
    OBVIOUS
  <2> QED
    BY <2>2, <2>3, Zenon
<1>3. CASE i = 0
  <2>1. /\ files'[3] = s /\ files'[2] = t /\ files'[1] = v
        /\ files'[0] = <<>> /\ u = <<>>
    BY <1>3, SMT DEF FileTypes
  <2>2. Kept' = s \o t \o v \o <<>> /\ Kept = s \o t \o <<>> \o v
    BY <1>0, <2>1, Zenon DEF Kept
  <2>3. s \o t \o v \o <<>> = s \o t \o <<>> \o v
    OBVIOUS
  <2> QED
    BY <2>2, <2>3, Zenon
<1> QED
  BY <1>1, <1>2, <1>3, SMT

LEMMA KeptDropped ==
  ASSUME FileTypes, files' = [files EXCEPT ![3] = <<>>]
  PROVE  Kept' = SubSeq(Kept, Len(files[3]) + 1, Len(Kept))
<1>9. PICK s \in Seq(Records), t \in Seq(Records), u \in Seq(Records), v \in Seq(Records) :
         s = files[3] /\ t = files[2] /\ u = files[1] /\ v = files[0]
  BY FilesAreSequences
<1>0. Kept = s \o t \o u \o v
  BY <1>9, Zenon DEF Kept
<1>1. files'[3] = <<>> /\ files'[2] = t /\ files'[1] = u /\ files'[0] = v
  BY <1>9, SMT DEF FileTypes
<1>2. Kept' = <<>> \o t \o u \o v
  BY <1>1, Zenon DEF Kept
<1>3. <<>> \o t \o u \o v
        = SubSeq(s \o t \o u \o v, Len(s) + 1, Len(s \o t \o u \o v))
  BY DropFirst, SMTT(30)
<1> QED
  BY <1>9, <1>0, <1>2, <1>3, Zenon

-----------------------------------------------------------------------------
(* The refinement: what each step is for the reader of the files.          *)

(* Every record that can be read is older than the one that is written.    *)
LEMMA WrittenLast ==
  ASSUME LogInv, NEW w \in Writers, Write(w), NEW r \in Written
  PROVE  History!Before(r, RecordOf(w))
<1> DEFINE new == RecordOf(w)
<1> USE DEF LogInv, TypeInv, NumberTypes
<1>1. r \in Records /\ Accounted(r)
  BY Zenon DEF AllAccounted, Written
<1>2. CASE w \in Apps
  <2>1. new.session = w /\ new.sequence = sequence[w] + 1 /\ sequence[w] \in Nat
    BY <1>2, SMT DEF RecordOf
  <2>2. r.session = w => r.sequence <= sequence[w]
    BY <1>1, <1>2, Zenon DEF Accounted
  <2>3. r.sequence \in Nat
    BY <1>1, SMT DEF Records
  <2> HIDE DEF new
  <2>4. r.session = new.session => r.sequence < new.sequence
    BY <2>1, <2>2, <2>3, SMT
  <2> QED
    BY <2>4, Zenon DEF History!Before, new
<1>3. CASE w \notin Apps
  <2>1. w \in Loggers
    BY <1>3 DEF Writers
  <2>2. NewerThan(r, number[w])
    BY <2>1, SMT DEF NumberIsNew, Write, Holding
  <2>3. new.session = Subscriber /\ new.epoch = epoch /\ new.sequence = number[w]
    BY <1>3, SMT DEF RecordOf
  <2> HIDE DEF new
  <2>4. r.session = new.session /\ r.epoch = new.epoch => r.sequence < new.sequence
    BY <2>2, <2>3, Zenon DEF NewerThan
  <2> QED
    BY <2>4, Zenon DEF History!Before, new
<1> QED
  BY <1>2, <1>3

LEMMA WriteExtends ==
  ASSUME LogInv, NEW w \in Writers, Write(w)
  PROVE  History!Next \/ UNCHANGED <<Kept, ~torn>>
<1>1. torn' = torn
  BY Zenon DEF Write
<1>2. CASE files' = files
  BY <1>1, <1>2, Zenon DEF Kept
<1>3. CASE files' = [files EXCEPT ![0] = Append(@, RecordOf(w))]
  <2> DEFINE r == RecordOf(w)
  <2>1. r \in Records /\ FileTypes /\ TypeInv
    BY RecordIsTyped, Zenon DEF LogInv, TypeInv
  <2>2. Kept' = Append(Kept, r) /\ Kept \in Seq(Records)
    BY <1>3, <2>1, KeptAppended, KeptIsTyped
  <2>3. \A i \in DOMAIN Kept : History!Before(Kept[i], r)
    <3>1. DOMAIN Kept = 1..Len(Kept)
      BY <2>2, LenProperties
    <3> QED
      BY <2>1, <3>1, KeptIsWritten, WrittenLast, Zenon
  <2> HIDE DEF r
  <2>4. Len(Kept) + 1 \in DOMAIN Kept' /\ Kept'[Len(Kept) + 1] = r
    BY <2>1, <2>2, SMT
  <2>5. History!Write(r)
    BY <1>1, <2>2, <2>3, Zenon DEF History!Write
  <2> QED
    BY <2>4, <2>5, Zenon DEF History!Next
<1> QED
  BY <1>2, <1>3, Zenon DEF Write

LEMMA DropForgets ==
  ASSUME LogInv, NEW w \in Writers, DropOldest(w)
  PROVE  History!Next \/ UNCHANGED <<Kept, ~torn>>
<1>1. FileTypes /\ torn' = torn
  BY Zenon DEF LogInv, TypeInv, DropOldest
<1>2. CASE files[3] = <<>>
  <2>1. files' = files
    BY <1>1, <1>2, SMT DEF DropOldest, FileTypes
  <2> QED
    BY <1>1, <2>1, Zenon DEF Kept
<1>3. CASE files[3] # <<>>
  <2>1. PICK n \in Nat, l2 \in Nat, l1 \in Nat, l0 \in Nat, all \in Nat :
           /\ n = Len(files[3]) /\ l2 = Len(files[2]) /\ l1 = Len(files[1])
           /\ l0 = Len(files[0]) /\ all = Len(Kept)
    BY <1>1, KeptIsTyped, FilesAreSequences, LenProperties
  <2>2. all = n + l2 + l1 + l0
    BY <1>1, <2>1, KeptIsTyped
  <2>3. Kept' = SubSeq(Kept, n + 1, all)
    BY <1>1, <2>1, KeptDropped, Zenon DEF DropOldest
  <2>4. l0 >= FileSize
    BY <2>1, SMT DEF LogInv, RoomToShift, DropOldest
  <2>5. ~torn => l1 >= FileSize /\ l2 >= FileSize
    <3>1. \A v \in Writers : ~MidShift(v)
      BY OneHolder, SMT DEF LogInv, DropOldest, MidShift, Holding
    <3>2. ~torn => files[2] # <<>> /\ files[1] # <<>>
      BY <1>3, <3>1, Zenon DEF LogInv, Gapless
    <3> QED
      BY <2>1, <3>2, SMT DEF LogInv, FilesFull
  <2>6. FileSize \in Nat
    BY DiagnosticLogAssumption
  <2>7. n + (IF ~torn THEN 3 * FileSize ELSE FileSize) <= all
    BY <2>2, <2>4, <2>5, <2>6, SMT
  <2>8. n # 0
    BY <1>1, <1>3, <2>1, FilesAreSequences, EmptySeq
  <2>9. n \in 1..all
    BY <2>2, <2>8, SMT
  <2>10. History!Forget(n)
    BY <1>1, <2>1, <2>3, <2>7, Zenon DEF History!Forget
  <2> QED
    BY <2>1, <2>9, <2>10, Zenon DEF History!Next
<1> QED
  BY <1>2, <1>3

LEMMA ShiftIsUnseen ==
  ASSUME LogInv, NEW w \in Writers, Shift(w)
  PROVE  UNCHANGED <<Kept, ~torn>>
<1>1. FileTypes /\ torn' = torn /\ at[w] \in 0..2 /\ files[at[w] + 1] = <<>>
  BY SMT DEF LogInv, TypeInv, StepTypes, RoomToShift, Shift
<1>2. files' = files
      \/ files' = [files EXCEPT ![at[w] + 1] = files[at[w]], ![at[w]] = <<>>]
  BY <1>1, Zenon DEF Shift, Renamed
<1>3. Kept' = Kept
  BY <1>1, <1>2, KeptMoved, Zenon DEF Kept
<1> QED
  BY <1>1, <1>3, Zenon

LEMMA KillTears ==
  ASSUME LogInv, NEW w \in Writers, Kill(w)
  PROVE  History!Next \/ UNCHANGED <<Kept, ~torn>>
<1>1. Kept' = Kept
  BY Zenon DEF Kill, Kept
<1>2. torn \in BOOLEAN /\ (torn' = torn \/ torn' = TRUE)
  BY Zenon DEF Kill, LogInv, TypeInv
<1> QED
  BY <1>1, <1>2, Zenon DEF History!Next, History!Tear

LEMMA StepIsHistory ==
  LogInv /\ [LogNext]_logVars => History!Next \/ UNCHANGED <<Kept, ~torn>>
<1> SUFFICES ASSUME LogInv, [LogNext]_logVars
             PROVE  History!Next \/ UNCHANGED <<Kept, ~torn>>
  OBVIOUS
<1>1. ASSUME NEW w \in Writers,
             \/ \E kids : Call(w, kids)
             \/ TakeLock(w) \/ CheckSize(w) \/ TakeNumber(w) \/ StartChild(w)
      PROVE  UNCHANGED <<Kept, ~torn>>
  <2>1. files' = files /\ torn' = torn
    BY <1>1, Zenon DEF Call, TakeLock, CheckSize, TakeNumber, StartChild, fileVars
  <2> QED
    BY <2>1, Zenon DEF Kept
<1>2. CASE UNCHANGED logVars
  BY <1>2, Zenon DEF logVars, Kept
<1>3. CASE LogNext
  BY <1>1, <1>3, WriteExtends, DropForgets, ShiftIsUnseen, KillTears, Zenon
     DEF LogNext, LogEvent, WriterStep, Writers
<1> QED
  BY <1>2, <1>3

(* Rotating writers in two programs keep one history: a step writes its    *)
(* next record, forgets its oldest part, or cannot be seen                 *)
(* (DiagnosticLog.cpp, log-event.sh).                                      *)
THEOREM LogImplementsHistory == LogSpec => ImplementsHistory
<1>1. LogInit => History!Init
  <2> SUFFICES ASSUME LogInit PROVE Kept = <<>> /\ (~torn) \in BOOLEAN
    BY Zenon DEF History!Init
  <2>1. files[0] = <<>> /\ files[1] = <<>> /\ files[2] = <<>> /\ files[3] = <<>>
    BY SMT DEF LogInit
  <2>2. <<>> \o <<>> = <<>>
    BY SMT
  <2> QED
    BY <2>1, <2>2, Zenon DEF Kept
<1>2. LogInv /\ [LogNext]_logVars => [History!Next]_<<Kept, ~torn>>
  BY StepIsHistory
<1> QED
  BY <1>1, <1>2, LogInvariant, PTL DEF LogSpec, ImplementsHistory, History!Spec

-----------------------------------------------------------------------------
(* A history that is written and forgotten so stays in order.              *)
LEMMA HistoryStaysInOrder ==
  ASSUME LogInv, LogInv', InOrder, History!Next \/ UNCHANGED <<Kept, ~torn>>
  PROVE  InOrder'
<1>0. Kept \in Seq(Records)
  BY KeptIsTyped, Zenon DEF LogInv, TypeInv
<1> USE DEF InOrder, History!InOrder
<1>1. ASSUME NEW k \in DOMAIN Kept', History!Write(Kept'[k]) PROVE InOrder'
  <2> DEFINE r == Kept'[k]
  <2>1. Kept' = Append(Kept, r) /\ \A i \in DOMAIN Kept : History!Before(Kept[i], r)
    BY <1>1, Zenon DEF History!Write
  <2> HIDE DEF r
  <2> SUFFICES ASSUME NEW i \in DOMAIN Kept', NEW j \in DOMAIN Kept', i < j
               PROVE  History!Before(Kept'[i], Kept'[j])
    BY Zenon
  <2>2. /\ i \in DOMAIN Kept /\ Kept'[i] = Kept[i]
        /\ \/ j \in DOMAIN Kept /\ Kept'[j] = Kept[j]
           \/ Kept'[j] = r
    BY <1>0, <2>1, SMT
  <2> QED
    BY <2>1, <2>2, Zenon
<1>2. ASSUME NEW n \in 1..Len(Kept), History!Forget(n) PROVE InOrder'
  <2>1. Kept' = SubSeq(Kept, n + 1, Len(Kept))
    BY <1>2, Zenon DEF History!Forget
  <2> SUFFICES ASSUME NEW i \in DOMAIN Kept', NEW j \in DOMAIN Kept', i < j
               PROVE  History!Before(Kept'[i], Kept'[j])
    BY Zenon
  <2>2. /\ n + i \in DOMAIN Kept /\ n + j \in DOMAIN Kept /\ n + i < n + j
        /\ Kept'[i] = Kept[n + i] /\ Kept'[j] = Kept[n + j]
    BY <1>0, <2>1, SMT
  <2> QED
    BY <2>2, Zenon
<1>3. ASSUME Kept' = Kept PROVE InOrder'
  BY <1>3, Zenon DEF History!Before
<1> QED
  BY <1>1, <1>2, <1>3, Zenon DEF History!Next, History!Tear

(* The records of a session are in the order of their numbers, in and      *)
(* across the files, within each epoch: as long as the session's number is *)
(* not lost (docs/diagnostics.md: "sequence establishes ordering inside a  *)
(* session").                                                              *)
THEOREM RecordsAreInOrder == LogSpec => []InOrder
<1>1. LogInit => InOrder
  <2> SUFFICES ASSUME LogInit PROVE DOMAIN Kept = {}
    BY Zenon DEF InOrder, History!InOrder
  <2>1. files[0] = <<>> /\ files[1] = <<>> /\ files[2] = <<>> /\ files[3] = <<>>
    BY SMT DEF LogInit
  <2>2. <<>> \o <<>> = <<>> /\ DOMAIN <<>> = {}
    BY SMT
  <2> QED
    BY <2>1, <2>2, Zenon DEF Kept
<1>2. LogInv /\ InOrder /\ [LogNext]_logVars => InOrder'
  BY StepIsHistory, LogInvStep, HistoryStaysInOrder, Zenon
<1> QED
  BY <1>1, <1>2, LogInvariant, PTL DEF LogSpec
=============================================================================
