------------------------------ MODULE FastMove ------------------------------
(***************************************************************************)
(* executeSameFilesystemMove: a move within one device is one rename that  *)
(* never replaces, and the whole journal of the operation is written after *)
(* it.  With the catch block of execute, what mapResult reports of it, and *)
(* recoverInterruptedOperations for the records it leaves behind.          *)
(***************************************************************************)
EXTENDS Naturals, FiniteSets

CONSTANTS
  Ops,          \* moves of one job that want the same destination name
  NoOp,         \* nobody
  Foreign,      \* a file that is none of the operations'
  MaxName,      \* candidates are 0 .. MaxName
  MaxCrashes, MaxFaults   \* bounds: process deaths, failing requests

ASSUME NobodyAssumption == NoOp \notin Ops /\ Foreign \notin Ops /\ Foreign # NoOp
ASSUME BoundsAssumption == MaxName \in Nat /\ MaxCrashes \in Nat /\ MaxFaults \in Nat

Names  == 0 .. MaxName
NoName == MaxName + 1

VARIABLES
  atPath,     \* operations whose source is at its path
  dst,        \* what each candidate name holds
  marker,     \* reservation markers
  rec,        \* the journal, folded: state, committed, dest, rsv
  up, helperState, \* the process runs; the helper answers
  calledOff,  \* operations whose signal is aborted
  spent,      \* crashes and faults so far
  counter,    \* nextCounters for the target
  pc, cand, residue,   \* each execute call
  out         \* what mapResult reports: outcome and sourceRetained

disk == <<atPath, dst, marker>>
life == <<up, helperState, calledOff, spent>>
call == <<cand, residue>>
moveVars == <<disk, rec, life, counter, pc, call, out>>

NoRecord == [state |-> "none", committed |-> FALSE, dest |-> NoName, rsv |-> NoName]
NoReport == [outcome |-> "none", retained |-> FALSE]

MoveInit ==
  /\ atPath = Ops
  /\ dst = [n \in Names |-> NoOp] /\ marker = [n \in Names |-> NoOp]
  /\ rec = [o \in Ops |-> NoRecord]
  /\ up = TRUE /\ helperState = "ok" /\ calledOff = {}
  /\ spent = [crashes |-> 0, faults |-> 0] /\ counter = 0
  /\ pc = [o \in Ops |-> "idle"] /\ cand = [o \in Ops |-> NoName]
  /\ residue = [o \in Ops |-> FALSE]
  /\ out = [o \in Ops |-> NoReport]

-----------------------------------------------------------------------------
At(o, l)   == up /\ pc[o] = l
Goto(o, l) == pc' = [pc EXCEPT ![o] = l]
Journal(o, r) == rec' = [rec EXCEPT ![o] = r]

Free(n) == dst[n] = NoOp /\ marker[n] = NoOp

(* reserveCandidate by name only: the first candidate that is neither taken*)
(* nor marked.  An abort just after it leaves the marker behind.           *)
Reserve(o) ==
  /\ At(o, "idle")
  /\ \/ /\ helperState = "ok" /\ o \notin calledOff
        /\ \E n \in Names :
             /\ n >= counter /\ Free(n)
             /\ \A m \in counter .. n - 1 : ~Free(m)
             /\ marker' = [marker EXCEPT ![n] = o]
             /\ cand' = [cand EXCEPT ![o] = n] /\ counter' = n + 1
        /\ Goto(o, "rename")
     \/ /\ helperState # "ok" \/ o \in calledOff
        /\ Goto(o, "catch") /\ UNCHANGED <<marker, cand, counter>>
  /\ UNCHANGED <<atPath, dst, rec, life, residue, out>>

CancelledAfterReserve(o) ==
  /\ At(o, "rename") /\ o \in calledOff
  /\ Goto(o, "catch")
  /\ UNCHANGED <<disk, rec, life, counter, call, out>>

Unmarked(o) == IF helperState = "ok" THEN [marker EXCEPT ![cand[o]] = NoOp] ELSE marker

(* Mutant: the rename replaces a file that took the name meanwhile.        *)
RenameReplacing(o) ==
  /\ At(o, "rename") /\ helperState = "ok" /\ o \in atPath
  /\ dst' = [dst EXCEPT ![cand[o]] = o] /\ atPath' = atPath \ {o}
  /\ Goto(o, "renamed")
  /\ UNCHANGED <<marker, rec, life, counter, call, out>>

(* Mutant: the file is linked to its destination and never unlinked.       *)
RenameByLink(o) ==
  /\ At(o, "rename") /\ helperState = "ok" /\ dst[cand[o]] = NoOp
  /\ dst' = [dst EXCEPT ![cand[o]] = o]
  /\ Goto(o, "renamed")
  /\ UNCHANGED <<atPath, marker, rec, life, counter, call, out>>

(* renameNoReplace, under the identity of the opened source.               *)
Rename(o) ==
  /\ At(o, "rename")
  /\ \/ /\ helperState = "ok" /\ o \in atPath /\ dst[cand[o]] = NoOp
        /\ dst' = [dst EXCEPT ![cand[o]] = o] /\ atPath' = atPath \ {o}
        /\ Goto(o, "renamed") /\ UNCHANGED marker
     \/ /\ helperState # "ok" \/ o \notin atPath \/ dst[cand[o]] # NoOp
        /\ marker' = Unmarked(o)
        /\ Goto(o, "catch") /\ UNCHANGED <<atPath, dst>>
  /\ UNCHANGED <<rec, life, counter, call, out>>

(* The request is aborted, or the helper dies, while it is in flight: the  *)
(* core learns nothing, and the rename may have happened.                  *)
LoseHelper(o) ==
  /\ At(o, "rename") /\ helperState = "ok"
  /\ \/ o \in calledOff /\ UNCHANGED spent
     \/ spent.faults < MaxFaults /\ spent' = [spent EXCEPT !.faults = @ + 1]
  /\ helperState' = "fatal"
  /\ \/ UNCHANGED <<atPath, dst>>
     \/ /\ o \in atPath /\ dst[cand[o]] = NoOp
        /\ dst' = [dst EXCEPT ![cand[o]] = o] /\ atPath' = atPath \ {o}
  /\ Goto(o, "catch")
  /\ UNCHANGED <<marker, rec, up, calledOff, counter, call, out>>

(* The destination must be the inode that was renamed, and the rename must *)
(* be durable: the sync of the directory may fail.  Then the journal.      *)
Verify(o) ==
  /\ At(o, "renamed")
  /\ (dst[cand[o]] = o /\ Goto(o, "planned")) \/ Goto(o, "catch")
  /\ UNCHANGED <<disk, rec, life, counter, call, out>>

RecordPlanned(o) ==
  /\ At(o, "planned") /\ Journal(o, [rec[o] EXCEPT !.state = "planned"]) /\ Goto(o, "reserved")
  /\ UNCHANGED <<disk, life, counter, call, out>>

RecordReserved(o) ==
  /\ At(o, "reserved") /\ Goto(o, "committed")
  /\ Journal(o, [rec[o] EXCEPT !.state = "reserved", !.dest = cand[o], !.rsv = cand[o]])
  /\ UNCHANGED <<disk, life, counter, call, out>>

RecordCommitted(o) ==
  /\ At(o, "committed") /\ Goto(o, "unmark")
  /\ Journal(o, [rec[o] EXCEPT !.state = "committed", !.committed = TRUE])
  /\ UNCHANGED <<disk, life, counter, call, out>>

Unmark(o) ==
  /\ At(o, "unmark") /\ Goto(o, "completed")
  /\ marker' = Unmarked(o)
  /\ residue' = [residue EXCEPT ![o] = helperState # "ok"]
  /\ UNCHANGED <<atPath, dst, rec, life, counter, cand, out>>

Report(o, outcome, retained) ==
  /\ out' = [out EXCEPT ![o] = [outcome |-> outcome, retained |-> retained]]
  /\ Goto(o, "done")

RecordCompleted(o) ==
  /\ At(o, "completed")
  /\ Journal(o, [rec[o] EXCEPT !.state = "completed"]) /\ Report(o, "committed", FALSE)
  /\ UNCHANGED <<disk, life, counter, call>>

(* The catch block of execute: nothing counts as committed, and mapResult  *)
(* reports an uncommitted cancellation with the source retained.  The      *)
(* record of the failure may fail itself, which is reported as residue.    *)
Catch(o) ==
  LET status == IF o \in calledOff THEN "cancelled" ELSE "failed" IN
  /\ At(o, "catch")
  /\ \/ /\ Journal(o, [rec[o] EXCEPT !.state = status, !.committed = FALSE])
        /\ UNCHANGED residue
     \/ UNCHANGED rec /\ residue' = [residue EXCEPT ![o] = TRUE]
  /\ Report(o, status, status = "cancelled" \/ o \in atPath)
  /\ UNCHANGED <<disk, life, counter, cand>>

-----------------------------------------------------------------------------
Cancel(o) ==
  /\ up /\ o \notin calledOff /\ pc[o] # "done"
  /\ calledOff' = calledOff \cup {o}
  /\ UNCHANGED <<disk, rec, up, helperState, spent, counter, pc, call, out>>

(* Another program saves a file under a candidate name.                    *)
Save == /\ \E n \in Names : dst[n] = NoOp /\ dst' = [dst EXCEPT ![n] = Foreign]
        /\ \A n \in Names : dst[n] # Foreign
        /\ UNCHANGED <<atPath, marker, rec, life, counter, pc, call, out>>

Crash ==
  /\ up /\ spent.crashes < MaxCrashes
  /\ up' = FALSE /\ helperState' = "ok"
  /\ spent' = [spent EXCEPT !.crashes = @ + 1]
  /\ pc' = [o \in Ops |-> IF pc[o] = "idle" THEN "idle" ELSE "dead"]
  /\ counter' = 0
  /\ UNCHANGED <<disk, rec, calledOff, call, out>>

(* Mutant: an interrupted record is put down to the source's fate alone.   *)
RecoveredCompletes(o) ==
  IF rec[o].state \in {"planned", "reserved", "committed"}
    THEN [rec[o] EXCEPT !.state = "completed"] ELSE rec[o]

(* Mutant: recovery rewrites the records of operations that have ended.    *)
RecoveredAlways(o) ==
  IF rec[o].state # "none"
    THEN [rec[o] EXCEPT !.state = "cancelled"] ELSE rec[o]

(* recoverInterruptedOperations: an uncommitted record becomes `cancelled`;*)
(* one that is committed has no digest, and is left as it is.              *)
Recovered(o) ==
  IF rec[o].state \in {"planned", "reserved"}
    THEN [rec[o] EXCEPT !.state = "cancelled"] ELSE rec[o]

Reopen ==
  /\ ~up /\ up' = TRUE
  /\ rec' = [o \in Ops |-> Recovered(o)]
  /\ marker' = [n \in Names |-> NoOp]
  /\ UNCHANGED <<atPath, dst, helperState, calledOff, spent, counter, pc, call, out>>

Execute(o) ==
  \/ Reserve(o) \/ CancelledAfterReserve(o) \/ Rename(o) \/ LoseHelper(o)
  \/ Verify(o) \/ RecordPlanned(o) \/ RecordReserved(o) \/ RecordCommitted(o)
  \/ Unmark(o) \/ RecordCompleted(o) \/ Catch(o)

MoveNext == (\E o \in Ops : Execute(o) \/ Cancel(o)) \/ Save \/ Crash \/ Reopen

MoveSpec == MoveInit /\ [][MoveNext]_moveVars

-----------------------------------------------------------------------------
(* An original is at its path or under exactly one candidate name, whoever *)
(* else reserves, saves or dies: never both, never neither.                *)
ExactlyOnePlace ==
  \A o \in Ops :
    Cardinality({n \in Names : dst[n] = o}) = IF o \in atPath THEN 0 ELSE 1

(* A completed record, and a move reported as committed, name a file that  *)
(* has arrived where the record says.                                      *)
ArrivedWhenRecorded ==
  \A o \in Ops :
    /\ rec[o].state = "completed" => rec[o].dest \in Names /\ dst[rec[o].dest] = o
    /\ out[o].outcome = "committed" => rec[o].state = "completed"

MoveArrives == ExactlyOnePlace /\ ArrivedWhenRecorded

(* No move replaces a file, not even one saved after the reservation; and  *)
(* recovery never revises the record of an operation that had ended.       *)
NothingReplaced ==
  [][/\ \A n \in Names : dst[n] # NoOp => dst'[n] = dst[n]
     /\ \A o \in Ops : rec[o].state \in {"completed", "cancelled", "failed"}
                         => rec'[o] = rec[o]]_moveVars

(* An abort lets the active transaction settle: a cancellation reported as *)
(* before commit has its source where it was.                              *)
CancellationsTruthful ==
  \A o \in Ops :
    out[o].outcome = "cancelled" /\ out[o].retained => o \in atPath
=============================================================================
