----------------------------- MODULE RecordHistory -----------------------------
(***************************************************************************)
(* What a reader of the diagnostic log is promised (docs/diagnostics.md):  *)
(* one history of records, in the order in which each session has numbered *)
(* them, that only ever grows at its end and loses its oldest part, and    *)
(* of that never more than the size of the files that are kept allows.     *)
(***************************************************************************)
EXTENDS Naturals, Sequences

CONSTANT FileSize  \* the records of a full file

VARIABLES
  kept,   \* the records that can be read, the oldest first
  whole   \* no writer was killed while it renamed the files

(* Of two records of one numbering the first has the smaller number.       *)
Before(r, s) ==
  r.session = s.session /\ r.epoch = s.epoch => r.sequence < s.sequence

Init == kept = <<>> /\ whole \in BOOLEAN

Write(r) ==
  /\ \A i \in DOMAIN kept : Before(kept[i], r)
  /\ kept' = Append(kept, r)
  /\ UNCHANGED whole

(* Three files stay beside the one that is begun; one, if a writer was     *)
(* killed.                                                                 *)
Forget(n) ==
  /\ n + (IF whole THEN 3 * FileSize ELSE FileSize) <= Len(kept)
  /\ kept' = SubSeq(kept, n + 1, Len(kept))
  /\ UNCHANGED whole

Tear == whole' = FALSE /\ UNCHANGED kept

Next ==
  \/ \E i \in DOMAIN kept' : Write(kept'[i])
  \/ \E n \in 1..Len(kept) : Forget(n)
  \/ Tear

Spec == Init /\ [][Next]_<<kept, whole>>

(* The order of the records of a numbering is the order of their numbers.  *)
(* (A session whose number is lost begins a new numbering: across it this  *)
(* says nothing.)                                                          *)
InOrder ==
  \A i, j \in DOMAIN kept : i < j => Before(kept[i], kept[j])
=============================================================================
