------------------------------ MODULE MovePath ------------------------------
(***************************************************************************)
(* movePath of packages/nas-tools for a directory whose target is on       *)
(* another file system: copy the tree to a temporary name beside the       *)
(* target, rename the copy to the target, remove the source recursively.   *)
(* The copy and the removal work entry by entry and either may fail after  *)
(* some of them; the process may die at any point.                         *)
(***************************************************************************)
EXTENDS TLAPS

CONSTANT Entries  \* what the directory holds

VARIABLES source, temporary, target,  \* the entries below each name
          pc,
          halfway  \* history: rm of the source failed after it removed something

vars == <<source, temporary, target, pc, halfway>>

Init ==
  source = Entries /\ temporary = {} /\ target = {} /\ pc = "copy" /\ halfway = FALSE

(* cp copies one entry after the other.                                    *)
CopyEntry(e) ==
  /\ pc = "copy" /\ e \in source \ temporary
  /\ temporary' = temporary \cup {e}
  /\ UNCHANGED <<source, target, pc, halfway>>

(* cp or the rename fails: the outer catch removes the temporary copy.     *)
CopyFails ==
  pc = "copy" /\ pc' = "cleanup" /\ UNCHANGED <<source, temporary, target, halfway>>

(* Mutant: the rename does not wait for the end of the copy.               *)
RenameEarly ==
  /\ pc = "copy"
  /\ target' = temporary /\ temporary' = {} /\ pc' = "remove"
  /\ UNCHANGED <<source, halfway>>

(* cp has returned: rename(temporaryTargetPath, targetPath).               *)
RenameCopy ==
  /\ pc = "copy" /\ temporary = source
  /\ target' = temporary /\ temporary' = {} /\ pc' = "remove"
  /\ UNCHANGED <<source, halfway>>

(* rm(sourcePath, { recursive: true }) removes one entry after the other.  *)
RemoveEntry(e) ==
  /\ pc = "remove" /\ e \in source
  /\ source' = source \ {e}
  /\ UNCHANGED <<temporary, target, pc, halfway>>

(* rm has returned and so does movePath.                                   *)
Removed ==
  /\ pc = "remove" /\ source = {}
  /\ pc' = "moved"
  /\ UNCHANGED <<source, temporary, target, halfway>>

(* rm fails: the inner catch takes the copy back.                          *)
RemovalFails ==
  /\ pc = "remove"
  /\ pc' = "undo" /\ halfway' = (source # Entries)
  /\ UNCHANGED <<source, temporary, target>>

(* rm(targetPath, { recursive: true, force: true }), entry by entry; when  *)
(* it fails too, movePath throws an AggregateError.                        *)
UndoEntry(e) ==
  /\ pc = "undo" /\ e \in target
  /\ target' = target \ {e}
  /\ UNCHANGED <<source, temporary, pc, halfway>>

Undone ==
  /\ pc = "undo"
  /\ pc' = "cleanup"
  /\ UNCHANGED <<source, temporary, target, halfway>>

(* Mutant: the temporary copy is left behind.                              *)
CleanupForgotten ==
  pc = "cleanup" /\ pc' = "failed" /\ UNCHANGED <<source, temporary, target, halfway>>

(* The outer catch: rm of the temporary copy, then the error is rethrown.  *)
Cleanup ==
  /\ pc = "cleanup"
  /\ temporary' = {} /\ pc' = "failed"
  /\ UNCHANGED <<source, target, halfway>>

(* The process dies; nothing resumes a move.                               *)
Crash ==
  pc \notin {"moved", "failed", "dead"} /\ pc' = "dead" /\ UNCHANGED <<source, temporary, target, halfway>>

Next ==
  \/ \E e \in Entries : CopyEntry(e) \/ RemoveEntry(e) \/ UndoEntry(e)
  \/ CopyFails \/ RenameCopy \/ Removed \/ RemovalFails \/ Undone \/ Cleanup \/ Crash

Spec == Init /\ [][Next]_vars

----------------------------------------------------------------------------
(* The three trees hold entries of the directory, and pc is a point of     *)
(* movePath.                                                               *)
TypeOK ==
  /\ {source, temporary, target} \subseteq SUBSET Entries
  /\ pc \in {"copy", "remove", "undo", "cleanup", "moved", "failed", "dead"}
  /\ halfway \in BOOLEAN

(* At every moment, after every failure and after a crash, each entry of   *)
(* the directory is below the source or below the target: a move loses     *)
(* nothing, unless rm of the source failed half way, whose catch removes   *)
(* the complete copy.                                                      *)
NoEntryLost == ~halfway => source \cup target = Entries

(* What movePath reports is true: success means that everything was moved *)
(* and no copy is left; failure means that the directory is where it was,  *)
(* unless rm failed half way. Neither leaves a temporary copy behind.      *)
ReportIsTrue ==
  /\ pc = "moved" => target = Entries /\ source = {}
  /\ pc = "failed" => halfway \/ source = Entries
  /\ pc \in {"moved", "failed"} => temporary = {}

(* Nobody sees a partial target before the source is being removed: the    *)
(* target appears in one step.                                             *)
TargetAppearsWhole == [][target = {} /\ target' # {} => target' = Entries]_vars

----------------------------------------------------------------------------
(***************************************************************************)
(* Proofs.                                                                 *)
(***************************************************************************)

(* What is true between the steps: the source is whole until the removal   *)
(* begins, the target is whole while it is being removed, and the          *)
(* temporary copy is gone once it was renamed.                             *)
Whole ==
  /\ pc \in {"copy", "remove", "moved"} => ~halfway
  /\ pc = "copy" => source = Entries /\ target = {}
  /\ pc = "remove" => target = Entries /\ temporary = {}
  /\ pc = "undo" => (halfway \/ source = Entries) /\ temporary = {}
  /\ pc = "cleanup" => halfway \/ source = Entries
  /\ pc = "moved" => target = Entries /\ source = {} /\ temporary = {}
  /\ pc = "failed" => (halfway \/ source = Entries) /\ temporary = {}

IInv == TypeOK /\ NoEntryLost /\ Whole

(* IInv holds in every state movePath reaches: each step of it, each       *)
(* failure of cp, rename and rm, and a crash preserve it.                  *)
THEOREM Invariance == Spec => []IInv
<1>1. Init => IInv
  BY Zenon DEF Init, IInv, TypeOK, NoEntryLost, Whole
<1>2. IInv /\ [Next]_vars => IInv'
  <2> SUFFICES ASSUME IInv, [Next]_vars PROVE IInv'
    OBVIOUS
  <2> USE DEF IInv, TypeOK, NoEntryLost, Whole
  <2>1. ASSUME NEW e \in Entries, CopyEntry(e) PROVE IInv'
    BY <2>1 DEF CopyEntry
  <2>2. ASSUME NEW e \in Entries, RemoveEntry(e) PROVE IInv'
    BY <2>2 DEF RemoveEntry
  <2>3. ASSUME NEW e \in Entries, UndoEntry(e) PROVE IInv'
    BY <2>3 DEF UndoEntry
  <2>4. CASE CopyFails
    BY <2>4 DEF CopyFails
  <2>5. CASE RenameCopy
    BY <2>5 DEF RenameCopy
  <2>6. CASE Removed
    BY <2>6 DEF Removed
  <2>7. CASE RemovalFails
    BY Zenon, <2>7 DEF RemovalFails
  <2>8. CASE Undone
    BY <2>8 DEF Undone
  <2>9. CASE Cleanup
    BY <2>9 DEF Cleanup
  <2>10. CASE Crash
    BY <2>10 DEF Crash
  <2>11. CASE UNCHANGED vars
    BY <2>11 DEF vars
  <2> QED
    BY <2>1, <2>2, <2>3, <2>4, <2>5, <2>6, <2>7, <2>8, <2>9, <2>10, <2>11 DEF Next
<1> QED
  BY <1>1, <1>2, PTL DEF Spec

(* A cross-device move loses no entry of a directory of any size, also     *)
(* when it fails or the process dies, unless the removal failed half way.  *)
THEOREM NoEntryLostHolds == Spec => []NoEntryLost
<1>1. IInv => NoEntryLost
  BY DEF IInv
<1> QED
  BY Invariance, <1>1, PTL

(* What movePath reports is true, for a directory of any size: success     *)
(* means that everything was moved, failure that everything is still at    *)
(* the source, unless its removal failed half way.                         *)
THEOREM ReportIsTrueHolds == Spec => []ReportIsTrue
<1>1. IInv => ReportIsTrue
  BY DEF IInv, Whole, ReportIsTrue
<1> QED
  BY Invariance, <1>1, PTL
=============================================================================
