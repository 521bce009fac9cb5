------------------------------ MODULE CoreLock ------------------------------
(***************************************************************************)
(* The lock file that keeps a destination to one transaction core:         *)
(* acquireCoreLock, restoreCoreLockQuarantine, the alias repair and        *)
(* releaseCoreLock, one system call per action, for processes that start,  *)
(* die and leave again in any order.  An inode is named by the process and *)
(* the attempt that created it, which stands for its pid and token.        *)
(***************************************************************************)
EXTENDS Naturals, FiniteSets

CONSTANTS
  Procs,       \* processes that open the destination, one after its death is new
  Ghost,       \* a process that died before they started
  None,        \* no inode
  MaxDeaths    \* how many of Procs may die

ASSUME GhostAssumption == Ghost \notin Procs
ASSUME NoneAssumption == None \notin (Procs \cup {Ghost}) \X {0, 1}
ASSUME DeathsAssumption == MaxDeaths \in Nat

VARIABLES
  lockPath,  \* the inode named by the lock path, or None
  cand,      \* p's candidate file, or None
  quar,      \* p's (or the ghost's) reclaim quarantine, or None
  living,    \* running processes
  point, try,\* control point and attempt of each process
  snap,      \* the snapshot the process read of the lock
  residue    \* the quarantine the process means to restore, by its maker

files        == <<lockPath, cand, quar>>
coreLockVars == <<lockPath, cand, quar, living, point, try, snap, residue>>
Everyone == Procs \cup {Ghost}

CoreLockInit ==
  /\ lockPath \in {None, <<Ghost, 0>>}
  /\ \E left \in {None, <<Ghost, 0>>} :
       cand = [p \in Everyone |-> IF p = Ghost THEN left ELSE None]
  /\ \E left \in IF lockPath = None THEN {None, <<Ghost, 0>>} ELSE {None} :
       quar = [p \in Everyone |-> IF p = Ghost THEN left ELSE None]
  /\ living = Procs
  /\ point = [p \in Procs |-> "start"] /\ try = [p \in Procs |-> 0]
  /\ snap = [p \in Procs |-> None] /\ residue = [p \in Procs |-> Ghost]

-----------------------------------------------------------------------------
At(p, l)   == p \in living /\ point[p] = l
Advance(p, l) == point' = [point EXCEPT ![p] = l]
Links(i)   == Cardinality({p \in Everyone : cand[p] = i})
              + Cardinality({p \in Everyone : quar[p] = i})
              + (IF lockPath = i THEN 1 ELSE 0)
Mine(p)    == <<p, try[p]>>

(* The directory scan unlinks every candidate and quarantine name that is  *)
(* a second link of the lock.                                              *)
(* Mutant: second links of the lock are left alone.                        *)
AliasesKept(aliases) == aliases
WithoutAliases(aliases) ==
  [p \in Everyone |-> IF lockPath # None /\ aliases[p] = lockPath THEN None ELSE aliases[p]]

(* restoreCoreLockQuarantine: look at the lock, then at the quarantines.   *)
SeeLock(p) ==
  /\ At(p, "start")
  /\ IF lockPath # None
       THEN /\ cand' = WithoutAliases(cand) /\ quar' = WithoutAliases(quar)
            /\ Advance(p, "create")
       ELSE Advance(p, "scan") /\ UNCHANGED <<cand, quar>>
  /\ UNCHANGED <<lockPath, living, try, snap, residue>>

Quarantined == {q \in Everyone : quar[q] # None}
ScanQuarantines(p) ==
  /\ At(p, "scan")
  /\ \/ Quarantined = {} /\ Advance(p, "create") /\ UNCHANGED residue
     \/ /\ Cardinality(Quarantined) > 1 \/ Quarantined \cap living # {}
        /\ Advance(p, "refused") /\ UNCHANGED residue
     \/ \E q \in Quarantined \ living :
          /\ Quarantined = {q}
          /\ residue' = [residue EXCEPT ![p] = q] /\ Advance(p, "restore")
  /\ UNCHANGED <<files, living, try, snap>>

(* rename(quarantine, lock): it replaces whatever the lock path names now. *)
RestoreQuarantine(p) ==
  LET q == residue[p] IN
  /\ At(p, "restore")
  /\ IF quar[q] # None
       THEN lockPath' = quar[q] /\ quar' = [quar EXCEPT ![q] = None]
       ELSE UNCHANGED <<lockPath, quar>>
  /\ Advance(p, "create")
  /\ UNCHANGED <<cand, living, try, snap, residue>>

-----------------------------------------------------------------------------
(* acquireCoreLock: a private candidate is linked to the lock path.        *)
CreateCandidate(p) ==
  /\ At(p, "create")
  /\ cand' = [cand EXCEPT ![p] = Mine(p)]
  /\ Advance(p, "link")
  /\ UNCHANGED <<lockPath, quar, living, try, snap, residue>>

LinkLock(p) ==
  /\ At(p, "link")
  /\ IF lockPath = None
       THEN lockPath' = Mine(p) /\ Advance(p, "published")
       ELSE UNCHANGED lockPath /\ Advance(p, "exists")
  /\ UNCHANGED <<cand, quar, living, try, snap, residue>>

(* The candidate goes; if somebody's repair took it first, the lock must   *)
(* still be the one this process published.                                *)
DropCandidate(p) ==
  /\ At(p, "published")
  /\ cand' = [cand EXCEPT ![p] = None]
  /\ Advance(p, IF cand[p] # None \/ (lockPath = Mine(p) /\ Links(lockPath) = 1)
               THEN "holds" ELSE "failed-publication")
  /\ UNCHANGED <<lockPath, quar, living, try, snap, residue>>

(* EEXIST: drop the candidate, repair aliases, read the owner.             *)
DropAndRepair(p) ==
  /\ At(p, "exists")
  /\ cand' = [WithoutAliases(cand) EXCEPT ![p] = None]
  /\ quar' = WithoutAliases(quar)
  /\ Advance(p, "read")
  /\ UNCHANGED <<lockPath, living, try, snap, residue>>

Again(p) ==
  IF try[p] = 0
    THEN try' = [try EXCEPT ![p] = 1] /\ Advance(p, "create")
    ELSE UNCHANGED try /\ Advance(p, "refused")

ReadOwner(p) ==
  /\ At(p, "read")
  /\ \/ lockPath = None /\ Again(p) /\ UNCHANGED snap
     \/ /\ lockPath # None /\ (Links(lockPath) # 1 \/ lockPath[1] \in living)
        /\ Advance(p, "refused") /\ UNCHANGED <<try, snap>>
     \/ /\ lockPath # None /\ Links(lockPath) = 1 /\ lockPath[1] \notin living
        /\ snap' = [snap EXCEPT ![p] = lockPath] /\ Advance(p, "reread") /\ UNCHANGED try
  /\ UNCHANGED <<files, living, residue>>

RereadOwner(p) ==
  /\ At(p, "reread")
  /\ \/ lockPath = snap[p] /\ Links(lockPath) = 1 /\ Advance(p, "displace") /\ UNCHANGED try
     \/ /\ lockPath = None \/ (lockPath # snap[p] /\ Links(lockPath) = 1)
        /\ Again(p)
     \/ lockPath # None /\ Links(lockPath) # 1 /\ Advance(p, "refused") /\ UNCHANGED try
  /\ UNCHANGED <<files, living, snap, residue>>

(* rename(lock, quarantine): whoever's lock it is by now.                  *)
DisplaceLock(p) ==
  /\ At(p, "displace")
  /\ IF lockPath = None
       THEN Advance(p, "refused") /\ UNCHANGED <<lockPath, quar>>
       ELSE /\ quar' = [quar EXCEPT ![p] = lockPath] /\ lockPath' = None
            /\ Advance(p, "displaced")
  /\ UNCHANGED <<cand, living, try, snap, residue>>

(* Mutant: what was displaced is dropped without a second look.            *)
CheckNothing(p) ==
  /\ At(p, "displaced") /\ quar' = [quar EXCEPT ![p] = None] /\ Again(p)
  /\ UNCHANGED <<lockPath, cand, living, snap, residue>>

(* The quarantined inode must be the one whose owner was found dead; any   *)
(* other is linked back, unless the path has been taken meanwhile.         *)
CheckDisplaced(p) ==
  LET q == quar[p] IN
  /\ At(p, "displaced")
  /\ \/ /\ q = snap[p] /\ Links(q) = 1
        /\ quar' = [quar EXCEPT ![p] = None] /\ Again(p) /\ UNCHANGED lockPath
     \/ /\ q # None /\ Links(q) # 1                    \* the snapshot throws
        /\ Advance(p, "refused") /\ UNCHANGED <<lockPath, quar, try>>
     \/ /\ q # snap[p] /\ (q = None \/ Links(q) = 1)
        /\ lockPath' = IF lockPath = None /\ q # None THEN q ELSE lockPath
        /\ Advance(p, "refused") /\ UNCHANGED <<quar, try>>
  /\ UNCHANGED <<cand, living, snap, residue>>

-----------------------------------------------------------------------------
(* releaseCoreLock, by the holder and after a failed publication.          *)
StartRelease(p) ==
  /\ At(p, "holds") \/ At(p, "failed-publication")
  /\ Advance(p, IF lockPath = Mine(p) /\ Links(lockPath) = 1 THEN "quarantine" ELSE "gone")
  /\ UNCHANGED <<files, living, try, snap, residue>>

QuarantineOwn(p) ==
  /\ At(p, "quarantine")
  /\ IF lockPath = None THEN UNCHANGED <<lockPath, quar>>
     ELSE quar' = [quar EXCEPT ![p] = lockPath] /\ lockPath' = None
  /\ Advance(p, "releasing")
  /\ UNCHANGED <<cand, living, try, snap, residue>>

(* Only this process's inode is unlinked; another one is linked back.      *)
FinishRelease(p) ==
  LET q == quar[p] IN
  /\ At(p, "releasing")
  /\ IF q = None
       THEN lockPath' = (IF lockPath = Mine(p) THEN None ELSE lockPath) /\ UNCHANGED quar
       ELSE IF q = Mine(p) /\ Links(q) = 1
         THEN quar' = [quar EXCEPT ![p] = None] /\ UNCHANGED lockPath
         ELSE lockPath' = (IF lockPath = None /\ Links(q) = 1 THEN q ELSE lockPath) /\ UNCHANGED quar
  /\ Advance(p, "gone")
  /\ UNCHANGED <<cand, living, try, snap, residue>>

OwnerDies(p) ==
  /\ p \in living /\ Cardinality(Procs \ living) < MaxDeaths
  /\ living' = living \ {p}
  /\ UNCHANGED <<files, point, try, snap, residue>>

Acquire(p) ==
  \/ SeeLock(p) \/ ScanQuarantines(p) \/ RestoreQuarantine(p)
  \/ CreateCandidate(p) \/ LinkLock(p) \/ DropCandidate(p)
  \/ DropAndRepair(p) \/ ReadOwner(p) \/ RereadOwner(p)
  \/ DisplaceLock(p) \/ CheckDisplaced(p)
Release(p) == StartRelease(p) \/ QuarantineOwn(p) \/ FinishRelease(p)

CoreLockNext == \E p \in Procs : Acquire(p) \/ Release(p) \/ OwnerDies(p)

CoreLockSpec == CoreLockInit /\ [][CoreLockNext]_coreLockVars

-----------------------------------------------------------------------------
Owns(p) == p \in living /\ point[p] = "holds"

(* At most one live process believes that it owns the destination.         *)
OneOwner == \A p, q \in Procs : Owns(p) /\ Owns(q) => p = q

(* What a dead process left behind (a lock, an alias of it, a quarantine)  *)
(* never makes the first process that comes give up.                       *)
DeadNeverBlock ==
  \A p \in Procs : point[p] = "refused" => \E q \in Procs \ {p} : point[q] # "start"
=============================================================================
