---------------------------- MODULE JournalLock ----------------------------
(***************************************************************************)
(* withFileLock of TransactionJournal: the lock file that one process at a *)
(* time holds while it repairs, appends to or folds a journal.  One system *)
(* call per action, or the snapshots of one lock taken together; processes *)
(* come back for the lock, die with it, and wait for each other.  An inode *)
(* is named by its process and the round it was written in (pid, token).   *)
(***************************************************************************)
EXTENDS Naturals, FiniteSets

CONSTANTS
  Users,         \* processes with a handle on the journal
  DeadUser,      \* a process that died before they started
  NoFile,        \* a name that names nothing
  MaxRounds,     \* bound: how often a process takes the lock
  MaxUserDeaths  \* bound: how many of them may die

ASSUME DeadUserAssumption == DeadUser \notin Users
ASSUME NoFileAssumption == NoFile \notin (Users \cup {DeadUser}) \X Nat
ASSUME RoundsAssumption == MaxRounds \in Nat \ {0} /\ MaxUserDeaths \in Nat

VARIABLES
  lockFile,   \* the inode the lock path names, or NoFile
  candidate,  \* u's candidate name
  reclaim,    \* u's ".reclaim." name
  up,         \* live processes
  stage,      \* control point of each process
  round,      \* how often it has gone for the lock
  sighted,    \* the snapshot it took of the lock
  found       \* whose quarantine it means to restore

journalLockVars == <<lockFile, candidate, reclaim, up, stage, round, sighted, found>>
lockNames == <<lockFile, candidate, reclaim>>
AllUsers == Users \cup {DeadUser}

(* A dead process left a lock, its candidate, both as one file, or a       *)
(* quarantine.                                                             *)
JournalLockInit ==
  \E l, c, r \in {NoFile, <<DeadUser, 1>>} :
    /\ r = NoFile \/ (l = NoFile /\ c = NoFile)
    /\ lockFile = l
    /\ candidate = [u \in AllUsers |-> IF u = DeadUser THEN c ELSE NoFile]
    /\ reclaim = [u \in AllUsers |-> IF u = DeadUser THEN r ELSE NoFile]
    /\ up = Users
    /\ stage = [u \in Users |-> "out"] /\ round = [u \in Users |-> 0]
    /\ sighted = [u \in Users |-> NoFile] /\ found = [u \in Users |-> DeadUser]

-----------------------------------------------------------------------------
On(u, s)     == u \in up /\ stage[u] = s
MoveTo(u, s) == stage' = [stage EXCEPT ![u] = s]
Token(u)     == <<u, round[u]>>
NamesOf(i)   == Cardinality({u \in AllUsers : candidate[u] = i})
                + Cardinality({u \in AllUsers : reclaim[u] = i})
                + (IF lockFile = i THEN 1 ELSE 0)

(* readLockSnapshot throws on a file with a second link.                   *)
Readable == lockFile # NoFile /\ NamesOf(lockFile) = 1
Unsafe   == lockFile # NoFile /\ NamesOf(lockFile) # 1
Unaliased(f) == [u \in AllUsers |-> IF lockFile # NoFile /\ f[u] = lockFile THEN NoFile ELSE f[u]]

(* Not yet: sleep and start over, or run out of LOCK_TIMEOUT_MS.  The lock  *)
(* of one that died before the call is as old as LOCK_STALE_MS by then and *)
(* has been looked at instead.                                             *)
WaitFor(u) ==
  \/ MoveTo(u, "start")
  \/ lockFile # <<DeadUser, 1>> /\ MoveTo(u, "failed")

Enter(u) ==
  /\ On(u, "out") /\ round[u] < MaxRounds
  /\ round' = [round EXCEPT ![u] = @ + 1] /\ MoveTo(u, "start")
  /\ UNCHANGED <<lockNames, up, sighted, found>>

(* restoreLockQuarantine: a lock is there: unlink its aliases.             *)
LookAtLock(u) ==
  /\ On(u, "start")
  /\ IF lockFile # NoFile
       THEN /\ candidate' = Unaliased(candidate) /\ reclaim' = Unaliased(reclaim)
            /\ MoveTo(u, "link")
       ELSE MoveTo(u, "scan") /\ UNCHANGED <<candidate, reclaim>>
  /\ UNCHANGED <<lockFile, up, round, sighted, found>>

(* No lock: a live process's quarantine is waited for, a dead one's is     *)
(* restored, several are refused.                                          *)
ScanReclaims(u) ==
  LET held == {v \in AllUsers : reclaim[v] # NoFile} IN
  /\ On(u, "scan")
  /\ \/ held = {} /\ MoveTo(u, "link") /\ UNCHANGED found
     \/ Cardinality(held) > 1 /\ MoveTo(u, "failed") /\ UNCHANGED found
     \/ \E v \in held \cap up : held = {v} /\ WaitFor(u) /\ UNCHANGED found
     \/ \E v \in held \ up :
          held = {v} /\ found' = [found EXCEPT ![u] = v] /\ MoveTo(u, "restore")
  /\ UNCHANGED <<lockNames, up, round, sighted>>

(* rename replaces whatever the lock path names by now.                    *)
RestoreReclaim(u) ==
  LET v == found[u] IN
  /\ On(u, "restore")
  /\ IF reclaim[v] # NoFile
       THEN lockFile' = reclaim[v] /\ reclaim' = [reclaim EXCEPT ![v] = NoFile]
       ELSE UNCHANGED <<lockFile, reclaim>>
  /\ MoveTo(u, "link")
  /\ UNCHANGED <<candidate, up, round, sighted, found>>

-----------------------------------------------------------------------------
(* A candidate is written and linked to the lock path.                     *)
WriteCandidate(u) ==
  /\ On(u, "link")
  /\ candidate' = [candidate EXCEPT ![u] = Token(u)] /\ MoveTo(u, "written")
  /\ UNCHANGED <<lockFile, reclaim, up, round, sighted, found>>

LinkLockFile(u) ==
  /\ On(u, "written")
  /\ IF lockFile = NoFile
       THEN lockFile' = Token(u) /\ MoveTo(u, "published")
       ELSE UNCHANGED lockFile /\ MoveTo(u, "exists")
  /\ UNCHANGED <<candidate, reclaim, up, round, sighted, found>>

(* Somebody's alias repair may have unlinked the candidate already; then   *)
(* the lock must still be the published one.                               *)
UnlinkOwnCandidate(u) ==
  /\ On(u, "published")
  /\ candidate' = [candidate EXCEPT ![u] = NoFile]
  /\ MoveTo(u, IF candidate[u] # NoFile \/ (lockFile = Token(u) /\ Readable)
                 THEN "inside" ELSE "leave")
  /\ UNCHANGED <<lockFile, reclaim, up, round, sighted, found>>

(* EEXIST: drop the candidate and the aliases; an old lock is looked at,   *)
(* any other is waited for.                                                *)
GiveWay(u) ==
  /\ On(u, "exists")
  /\ candidate' = [Unaliased(candidate) EXCEPT ![u] = NoFile]
  /\ reclaim' = Unaliased(reclaim)
  /\ MoveTo(u, "inspect") \/ WaitFor(u)
  /\ UNCHANGED <<lockFile, up, round, sighted, found>>

-----------------------------------------------------------------------------
(* reclaimDeadLock: whose lock is it ...                                   *)
Inspect1(u) ==
  /\ On(u, "inspect")
  /\ \/ lockFile = NoFile /\ MoveTo(u, "start") /\ UNCHANGED sighted
     \/ Unsafe /\ MoveTo(u, "failed") /\ UNCHANGED sighted
     \/ Readable /\ lockFile[1] \in up /\ WaitFor(u) /\ UNCHANGED sighted
     \/ /\ Readable /\ lockFile[1] \notin up
        /\ sighted' = [sighted EXCEPT ![u] = lockFile] /\ MoveTo(u, "inspect again")
  /\ UNCHANGED <<lockNames, up, round, found>>

(* ... is it still the same, twice ...                                     *)
Inspect2(u) ==
  /\ On(u, "inspect again") \/ On(u, "inspect once more")
  /\ \/ Unsafe /\ MoveTo(u, "failed")
     \/ ~Unsafe /\ lockFile # sighted[u] /\ WaitFor(u)
     \/ /\ Readable /\ lockFile = sighted[u]
        /\ MoveTo(u, IF stage[u] = "inspect again" THEN "inspect once more" ELSE "displace")
  /\ UNCHANGED <<lockNames, up, round, sighted, found>>

(* ... rename it aside, whatever it is by now ...                          *)
Displace(u) ==
  /\ On(u, "displace")
  /\ IF lockFile = NoFile
       THEN MoveTo(u, "failed") /\ UNCHANGED <<lockFile, reclaim>>
       ELSE /\ reclaim' = [reclaim EXCEPT ![u] = lockFile] /\ lockFile' = NoFile
            /\ MoveTo(u, "displaced")
  /\ UNCHANGED <<candidate, up, round, sighted, found>>

(* Mutant: what was displaced is unlinked without being read.              *)
DropUnread(u) ==
  /\ On(u, "displaced")
  /\ reclaim' = [reclaim EXCEPT ![u] = NoFile] /\ MoveTo(u, "start")
  /\ UNCHANGED <<lockFile, candidate, up, round, sighted, found>>

(* ... and unlink it, or link it back if it was another's.                 *)
DropDisplaced(u) ==
  LET i == reclaim[u] IN
  /\ On(u, "displaced")
  /\ \/ /\ i = sighted[u] /\ NamesOf(i) = 1
        /\ reclaim' = [reclaim EXCEPT ![u] = NoFile] /\ MoveTo(u, "start")
        /\ UNCHANGED lockFile
     \/ /\ i # NoFile /\ NamesOf(i) # 1 /\ MoveTo(u, "failed")
        /\ UNCHANGED <<lockFile, reclaim>>
     \/ /\ i # sighted[u] /\ (i = NoFile \/ NamesOf(i) = 1)
        /\ lockFile' = IF lockFile = NoFile THEN i ELSE lockFile
        /\ MoveTo(u, "failed") /\ UNCHANGED reclaim
  /\ UNCHANGED <<candidate, up, round, sighted, found>>

-----------------------------------------------------------------------------
FinishWork(u) ==
  /\ On(u, "inside") /\ MoveTo(u, "leave")
  /\ UNCHANGED <<lockNames, up, round, sighted, found>>

(* releaseOwnedLock: only while the path names this process's own file.    *)
CheckOwn(u) ==
  /\ On(u, "leave") \/ On(u, "leave again")
  /\ \/ Unsafe /\ MoveTo(u, "failed")
     \/ ~Unsafe /\ lockFile # Token(u) /\ MoveTo(u, "out")
     \/ /\ Readable /\ lockFile = Token(u)
        /\ MoveTo(u, IF stage[u] = "leave" THEN "leave again" ELSE "put aside")
  /\ UNCHANGED <<lockNames, up, round, sighted, found>>

PutAside(u) ==
  /\ On(u, "put aside")
  /\ IF lockFile = NoFile THEN UNCHANGED <<lockFile, reclaim>>
     ELSE reclaim' = [reclaim EXCEPT ![u] = lockFile] /\ lockFile' = NoFile
  /\ MoveTo(u, "put away")
  /\ UNCHANGED <<candidate, up, round, sighted, found>>

(* Nothing aside: somebody restored it, and it is put aside once more.     *)
UnlinkReleased(u) ==
  LET i == reclaim[u] IN
  /\ On(u, "put away")
  /\ \/ /\ i = NoFile /\ lockFile = Token(u) /\ Readable
        /\ reclaim' = [reclaim EXCEPT ![u] = lockFile] /\ lockFile' = NoFile
        /\ UNCHANGED stage
     \/ /\ i = NoFile /\ ~(lockFile = Token(u) /\ Readable)
        /\ MoveTo(u, IF Unsafe THEN "failed" ELSE "out") /\ UNCHANGED <<lockFile, reclaim>>
     \/ /\ i = Token(u) /\ NamesOf(i) = 1
        /\ reclaim' = [reclaim EXCEPT ![u] = NoFile] /\ MoveTo(u, "out") /\ UNCHANGED lockFile
     \/ /\ i # NoFile /\ ~(i = Token(u) /\ NamesOf(i) = 1)
        /\ lockFile' = IF lockFile = NoFile /\ NamesOf(i) = 1 THEN i ELSE lockFile
        /\ MoveTo(u, "failed") /\ UNCHANGED reclaim
  /\ UNCHANGED <<candidate, up, round, sighted, found>>

UserDies(u) ==
  /\ u \in up /\ Cardinality(Users \ up) < MaxUserDeaths
  /\ up' = up \ {u}
  /\ UNCHANGED <<lockNames, stage, round, sighted, found>>

TakeLock(u) ==
  \/ Enter(u) \/ LookAtLock(u) \/ ScanReclaims(u) \/ RestoreReclaim(u)
  \/ WriteCandidate(u) \/ LinkLockFile(u) \/ UnlinkOwnCandidate(u) \/ GiveWay(u)
Reclaim(u)  == Inspect1(u) \/ Inspect2(u) \/ Displace(u) \/ DropDisplaced(u)
GiveBack(u) == FinishWork(u) \/ CheckOwn(u) \/ PutAside(u) \/ UnlinkReleased(u)

JournalLockNext ==
  \E u \in Users : TakeLock(u) \/ Reclaim(u) \/ GiveBack(u) \/ UserDies(u)

JournalLockSpec == JournalLockInit /\ [][JournalLockNext]_journalLockVars

-----------------------------------------------------------------------------
Inside(u) == u \in up /\ stage[u] = "inside"

(* One live process at a time works on the journal.                        *)
OneInside == \A u, v \in Users : Inside(u) /\ Inside(v) => u = v

(* A call gives up only because of another live process that came for the  *)
(* lock: never because of what the dead left.                              *)
DeadAreReclaimed ==
  \A u \in Users : stage[u] = "failed" => \E v \in Users \ {u} : round[v] > 0
=============================================================================
