--------------------------- MODULE JobHistoryStore ---------------------------
(***************************************************************************)
(* JobHistoryStore, the file: creation records and processing events of    *)
(* every job, appended one at a time, reconciled when an append fails,     *)
(* replayed through the job state machine when the application starts      *)
(* again, where each job that was still active is closed as interrupted.   *)
(* Who owns the file is HistoryLock's.                                     *)
(***************************************************************************)
EXTENDS JobStateMachine, Sequences, SequencesExt

CONSTANTS
  HistoryJobs,
  MaxHistorySequence, \* bound: sequence numbers of events
  MaxHistoryTroubles, \* bound: failing writes and syncs, ends of the process, power losses
  MaxLookFailures     \* bound: stat or lstat calls that fail

ASSUME HistoryAssumption ==
  MaxHistorySequence \in Nat /\ MaxHistoryTroubles \in Nat /\ MaxLookFailures \in Nat

VARIABLES
  records,   \* the complete lines of the file
  remnant,   \* what follows the last newline: none, torn, or a whole record
  safe,      \* how many lines a power loss is sure to leave
  storeAt,   \* down, recovering, ready, or corrupt: the load refused a line
  entries,   \* jobs, in memory: the machine of each, or Unknown
  poisoned,
  append,    \* the append under way: where it stands, and the record
  recorded,  \* records whose call was acknowledged
  issued,    \* jobs whose creation was attempted: a job id is a fresh UUID
  mine,      \* jobs this process created or moved on
  strain     \* troubles and failed looks so far

historyFile == <<records, remnant, safe>>
memory      == <<storeAt, entries, poisoned>>
historyVars == <<historyFile, memory, append, recorded, issued, mine, strain>>

Unknown    == [status |-> "unknown", last |-> 0]
Seeded     == [status |-> "ready", last |-> 2]     \* seedMachine
Active     == {"previewing", "queued", "processing", "cancelling"}
NoAppend   == [at |-> "none"]
Nobody     == [j \in HistoryJobs |-> Unknown]
Created(j) == [job |-> j, kind |-> "created", seq |-> 0]

HistoryInit ==
  /\ records = <<>> /\ remnant = "none" /\ safe = 0
  /\ storeAt = "down" /\ entries = Nobody /\ poisoned = FALSE
  /\ append = NoAppend /\ recorded = {} /\ issued = {} /\ mine = {}
  /\ strain = [trouble |-> 0, look |-> 0]

HistoryTrouble == strain.trouble < MaxHistoryTroubles /\ strain' = [strain EXCEPT !.trouble = @ + 1]

-----------------------------------------------------------------------------
(* applyPersistedRecord, over the whole file.                              *)
Refuses(ms, r) ==
  IF r.kind = "created" THEN ms[r.job] # Unknown
  ELSE ms[r.job] = Unknown \/ ~Accepts(ms[r.job], r.kind, r.seq)
Applied(ms, r) ==
  [ms EXCEPT ![r.job] = IF r.kind = "created" THEN Seeded ELSE After(@, r.kind, r.seq)]

JobsOf(lines) ==
  LET after[n \in 0..Len(lines)] == IF n = 0 THEN Nobody ELSE Applied(after[n - 1], lines[n])
  IN  after[Len(lines)]

Replays(lines) ==
  \A n \in 1..Len(lines) : ~Refuses(JobsOf(SubSeq(lines, 1, n - 1)), lines[n])

(* loadHistory: a torn tail is cut off, a whole one is applied and given   *)
(* its newline; either is synced.                                          *)
Load ==
  LET whole == IF remnant \in {"none", "torn"} THEN records ELSE Append(records, append.record) IN
  /\ storeAt = "down" /\ remnant' = "none" /\ append' = NoAppend
  /\ records' = whole /\ safe' = (IF remnant = "none" THEN safe ELSE Len(whole))
  /\ mine' = {} /\ poisoned' = FALSE
  /\ IF Replays(whole) THEN storeAt' = "recovering" /\ entries' = JobsOf(whole)
                       ELSE storeAt' = "corrupt" /\ UNCHANGED entries
  /\ UNCHANGED <<recorded, strain, issued>>

LoadFails ==
  /\ storeAt = "down" /\ HistoryTrouble
  /\ UNCHANGED <<historyFile, memory, append, recorded, mine, issued>>

(* recoverInterruptedJobs.                                                 *)
(* Mutant: a job that was only queued is left alone.                       *)
InterruptedButQueued == {j \in HistoryJobs : entries[j].status \in Active \ {"queued"}}
Interrupted          == {j \in HistoryJobs : entries[j].status \in Active}

CloseInterrupted(j) ==
  /\ storeAt = "recovering" /\ append.at = "none" /\ j \in Interrupted
  /\ append' = [at |-> "write",
                record |-> [job |-> j, kind |-> "failed", seq |-> entries[j].last + 1]]
  /\ UNCHANGED <<historyFile, memory, recorded, mine, strain, issued>>

Recovered ==
  /\ storeAt = "recovering" /\ append.at = "none" /\ Interrupted = {} /\ storeAt' = "ready"
  /\ UNCHANGED <<historyFile, entries, poisoned, append, recorded, mine, strain, issued>>

-----------------------------------------------------------------------------
(* createJob and appendEvent, when the write queue comes to them.          *)
Ready == storeAt = "ready" /\ append.at = "none" /\ ~poisoned

CreateJob(j) ==
  /\ Ready /\ j \notin issued
  /\ issued' = issued \cup {j}
  /\ append' = [at |-> "write", record |-> Created(j)]
  /\ UNCHANGED <<historyFile, memory, recorded, mine, strain>>

(* Mutant: the event is not put to the state machine first.                *)
AppendUnproved(j, kind, seq) ==
  /\ Ready /\ entries[j] # Unknown /\ seq > entries[j].last
  /\ append' = [at |-> "write", record |-> [job |-> j, kind |-> kind, seq |-> seq]]
  /\ UNCHANGED <<historyFile, memory, recorded, mine, strain, issued>>

AppendEvent(j, kind, seq) ==
  /\ Ready /\ entries[j] # Unknown /\ Accepts(entries[j], kind, seq)
  /\ append' = [at |-> "write", record |-> [job |-> j, kind |-> kind, seq |-> seq]]
  /\ UNCHANGED <<historyFile, memory, recorded, mine, strain, issued>>

(* appendRecord: written, synced, looked at once more.                     *)
WriteRecord ==
  /\ append.at = "write"
  /\ \/ /\ records' = Append(records, append.record) /\ append' = [append EXCEPT !.at = "sync"]
        /\ UNCHANGED <<remnant, strain>>
     \/ /\ HistoryTrouble /\ remnant' \in {"none", "torn"} /\ UNCHANGED records
        /\ append' = [append EXCEPT !.at = "reconcile"]
  /\ UNCHANGED <<safe, memory, recorded, mine, issued>>

SyncRecord ==
  /\ append.at = "sync"
  /\ \/ safe' = Len(records) /\ append' = [append EXCEPT !.at = "check"] /\ UNCHANGED strain
     \/ HistoryTrouble /\ append' = [append EXCEPT !.at = "reconcile"] /\ UNCHANGED safe
  /\ UNCHANGED <<records, remnant, memory, recorded, mine, issued>>

(* reconcileAmbiguousAppend: what is missing is written again, or the      *)
(* store is poisoned with the file as it happens to be.                    *)
Present == records # <<>> /\ Last(records) = append.record
Fails(poison) ==
  /\ poisoned' = poison /\ append' = NoAppend
  /\ storeAt' = IF storeAt = "recovering" THEN "down" ELSE storeAt

(* Mutant: a failed reconciliation rejects the call, no more.              *)
ReconcileMildly ==
  /\ append.at = "reconcile"
  /\ \/ /\ records' = (IF Present THEN records ELSE Append(records, append.record))
        /\ remnant' = "none" /\ safe' = Len(records') /\ append' = [append EXCEPT !.at = "check"]
        /\ UNCHANGED <<memory, strain>>
     \/ /\ HistoryTrouble /\ remnant' \in {remnant, "none"} /\ UNCHANGED <<records, safe>>
        /\ Fails(FALSE) /\ UNCHANGED entries
  /\ UNCHANGED <<recorded, mine, issued>>

Reconcile ==
  /\ append.at = "reconcile"
  /\ \/ /\ records' = (IF Present THEN records ELSE Append(records, append.record))
        /\ remnant' = "none" /\ safe' = Len(records') /\ append' = [append EXCEPT !.at = "check"]
        /\ UNCHANGED <<memory, strain>>
     \/ /\ HistoryTrouble /\ Fails(TRUE) /\ UNCHANGED entries
        /\ \/ remnant' \in {remnant, "none", "torn"} /\ UNCHANGED <<records, safe>>
           \/ ~Present /\ remnant' = "none" /\ records' = Append(records, append.record)
              /\ UNCHANGED safe
  /\ UNCHANGED <<recorded, mine, issued>>

(* assertOwnershipIdentity after the write: a changed identity poisons the *)
(* store; a look that fails does not.                                      *)
CheckRecord ==
  /\ append.at = "check"
  /\ \/ /\ entries' = Applied(entries, append.record) /\ append' = NoAppend
        /\ recorded' = recorded \cup {append.record}
        /\ mine' = IF storeAt = "ready" THEN mine \cup {append.record.job} ELSE mine
        /\ UNCHANGED <<storeAt, poisoned, strain>>
     \/ HistoryTrouble /\ Fails(TRUE) /\ UNCHANGED <<entries, recorded, mine>>
     \/ /\ strain.look < MaxLookFailures /\ strain' = [strain EXCEPT !.look = @ + 1]
        /\ Fails(FALSE) /\ UNCHANGED <<entries, recorded, mine>>
  /\ UNCHANGED <<historyFile, issued>>

CloseHistory ==
  /\ storeAt = "ready" /\ append.at = "none" /\ storeAt' = "down"
  /\ entries' = Nobody
  /\ UNCHANGED <<historyFile, poisoned, append, recorded, mine, strain, issued>>

(* The process ends: an append under way leaves nothing, a piece, or all   *)
(* of its line but the newline.                                            *)
HistoryProcessEnds ==
  /\ storeAt \in {"recovering", "ready"} /\ HistoryTrouble
  /\ remnant' \in IF append.at \in {"write", "reconcile"} /\ ~Present
                    THEN {"none", "torn", "whole"} ELSE {remnant}
  /\ append' = [append EXCEPT !.at = IF remnant' = "whole" THEN "left" ELSE "none"]
  /\ storeAt' = "down" /\ entries' = Nobody
  /\ UNCHANGED <<records, safe, poisoned, recorded, mine, issued>>

HistoryPowerFails ==
  /\ HistoryTrouble /\ storeAt' = "down" /\ entries' = Nobody
  /\ \E n \in safe..Len(records) :
       /\ records' = SubSeq(records, 1, n)
       /\ remnant' \in {"none", "torn"}
  /\ append' = NoAppend
  /\ UNCHANGED <<safe, poisoned, recorded, mine, issued>>

EventKinds == {"queued", "processing", "cancelling", "job_progress", "completed", "cancelled"}

HistoryNext ==
  \/ Load \/ LoadFails \/ Recovered \/ CloseHistory
  \/ WriteRecord \/ SyncRecord \/ Reconcile \/ CheckRecord
  \/ \E j \in HistoryJobs : CreateJob(j) \/ CloseInterrupted(j)
  \/ \E j \in HistoryJobs, kind \in EventKinds, seq \in 3..MaxHistorySequence :
       AppendEvent(j, kind, seq)
  \/ HistoryProcessEnds \/ HistoryPowerFails

HistorySpec == HistoryInit /\ [][HistoryNext]_historyVars

-----------------------------------------------------------------------------
(* Whatever happened to the process, the next one can load the history:    *)
(* its lines replay through the state machine, none is refused.            *)
HistoryReplays ==
  /\ storeAt # "corrupt"
  /\ Replays(records)
  /\ remnant = "whole" => Replays(Append(records, append.record))

(* What was acknowledged is in the file; what the store tells its readers  *)
(* is what the file says; and a job that a former process left active is   *)
(* told as failed, not as running.                                         *)
HistoryIsTold ==
  /\ recorded \subseteq ToSet(records)
  /\ storeAt = "ready" /\ append.at = "none" /\ ~poisoned => entries = JobsOf(records)
  /\ storeAt = "ready" => \A j \in HistoryJobs : entries[j].status \in Active => j \in mine
=============================================================================
