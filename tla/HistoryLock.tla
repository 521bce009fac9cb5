---------------------------- MODULE HistoryLock ----------------------------
(***************************************************************************)
(* Who owns the job history: JobHistoryStore.acquireLock under the         *)
(* reclaimer file, publishLock, inspectLock, the removal of a lock by      *)
(* quarantine, assertOwnershipIdentity and releaseLock, one system call    *)
(* per action, for application processes that start, die and leave in any  *)
(* order.  An inode is named by the process that wrote it (its pid and     *)
(* token) and the path it was written for: a process publishes each path   *)
(* at most once.                                                           *)
(***************************************************************************)
EXTENDS Naturals, FiniteSets

CONSTANTS
  Stores,        \* processes that open the history
  DeadStore,     \* a process that died before they started
  NoInode,       \* a name that names nothing
  MaxStoreDeaths \* how many of Stores may die

ASSUME StoresAssumption == IsFiniteSet(Stores)
ASSUME DeadStoreAssumption == DeadStore \notin Stores
ASSUME StoreDeathsAssumption == MaxStoreDeaths \in Nat

Paths == {"lock", "reclaimer"}

VARIABLES
  named,     \* the inode each path names, or NoInode
  alias,     \* p's candidate name once it is a second link of a lock
  aside,     \* p's quarantine name
  running,   \* live processes
  at, task,  \* control point of each process, and what for
  look,      \* what its lstat saw
  seen,      \* the lock it observed, and whose it found it
  won        \* it has published the ownership lock

lockVars == <<named, alias, aside, running, at, task, look, seen, won>>
names    == <<named, alias, aside>>
Anyone   == Stores \cup {DeadStore}

ASSUME NoInodeAssumption == NoInode \notin Anyone \X Paths

(* What a dead process left: any of the two locks, one of them perhaps     *)
(* still linked to its candidate, or one quarantined and not yet unlinked. *)
LockInit ==
  /\ \E left \in SUBSET Paths :
       /\ named = [x \in Paths |-> IF x \in left THEN <<DeadStore, x>> ELSE NoInode]
       /\ \E a \in {NoInode} \cup {<<DeadStore, x>> : x \in left} :
            alias = [p \in Anyone |-> IF p = DeadStore THEN a ELSE NoInode]
       /\ \E a \in {NoInode} \cup {<<DeadStore, x>> : x \in Paths \ left} :
            aside = [p \in Anyone |-> IF p = DeadStore THEN a ELSE NoInode]
  /\ running = Stores
  /\ at = [p \in Stores |-> "link"]
  /\ task = [p \in Stores |-> "publish reclaimer"]
  /\ look = [p \in Stores |-> NoInode]
  /\ seen = [p \in Stores |-> <<NoInode, "none">>]
  /\ won = [p \in Stores |-> FALSE]

-----------------------------------------------------------------------------
ForReclaimer == {"publish reclaimer", "probe reclaimer", "recheck reclaimer",
                 "stale reclaimer", "failed reclaimer", "release reclaimer"}
PathOf(t) == IF t \in ForReclaimer THEN "reclaimer" ELSE "lock"

Here(p)    == named[PathOf(task[p])]
Own(p)     == <<p, PathOf(task[p])>>
LinksOf(i) == Cardinality({x \in Paths : named[x] = i})
              + Cardinality({p \in Anyone : alias[p] = i})
              + Cardinality({p \in Anyone : aside[p] = i})

Stands(p, a) == p \in running /\ at[p] = a
Do(p, a, t)  == at' = [at EXCEPT ![p] = a] /\ task' = [task EXCEPT ![p] = t]
Then(p, a)   == at' = [at EXCEPT ![p] = a] /\ UNCHANGED task

(* What a failure leads to: acquireLock always gives the reclaimer back,   *)
(* and initializeOnce gives back the lock it already has.                  *)
Fail(p) ==
  CASE task[p] \in {"publish lock", "probe lock", "confirm lock", "recheck lock",
                    "stale lock", "failed lock"} -> Do(p, "assert", "release reclaimer")
    [] task[p] = "release reclaimer" /\ won[p]   -> Do(p, "assert", "release lock")
    [] task[p] = "release lock"                  -> Then(p, "gone")
    [] OTHER                                     -> Then(p, "refused")

Removed(p) ==
  CASE task[p] = "stale reclaimer"   -> Do(p, "link", "publish reclaimer")
    [] task[p] = "stale lock"        -> Do(p, "link", "publish lock")
    [] task[p] = "release reclaimer" -> Then(p, IF won[p] THEN "holds" ELSE "refused")
    [] OTHER                         -> Fail(p)

-----------------------------------------------------------------------------
(* publishLock: a synced private candidate is linked to the path.          *)
LinkCandidate(p) ==
  /\ Stands(p, "link")
  /\ \/ /\ Here(p) = NoInode
        /\ named' = [named EXCEPT ![PathOf(task[p])] = Own(p)]
        /\ alias' = [alias EXCEPT ![p] = Own(p)]
        /\ Then(p, "drop")
     \/ /\ Here(p) # NoInode /\ UNCHANGED <<named, alias>>
        /\ IF task[p] = "publish lock" THEN Fail(p) ELSE Do(p, "see", "probe reclaimer")
  /\ UNCHANGED <<aside, running, look, seen, won>>

UnlinkCandidate(p) ==
  /\ Stands(p, "drop")
  /\ alias' = [alias EXCEPT ![p] = NoInode] /\ Then(p, "verify")
  /\ UNCHANGED <<named, aside, running, look, seen, won>>

(* The published lock must still be this one; if not, it is taken away     *)
(* again where it can be proved to be ours.                                *)
VerifyPublished(p) ==
  LET ok == Here(p) = Own(p) /\ LinksOf(Own(p)) = 1 IN
  /\ Stands(p, "verify")
  /\ IF ok /\ task[p] = "publish lock" THEN Do(p, "assert", "release reclaimer")
     ELSE IF ok THEN Do(p, "see", "probe lock")
     ELSE Do(p, "assert", IF task[p] = "publish lock" THEN "failed lock" ELSE "failed reclaimer")
  /\ won' = [won EXCEPT ![p] = @ \/ (ok /\ task[p] = "publish lock")]
  /\ UNCHANGED <<names, running, look, seen>>

-----------------------------------------------------------------------------
(* inspectLock: lstat, then open and read the record.  When the path names *)
(* nothing, acquireReclaimer waits and tries again (200 times at most),    *)
(* acquireLock goes on to publish, and a second inspection gives up.       *)
Contended(p) == Do(p, "link", "publish reclaimer") \/ Then(p, "refused")
Vanished(p) ==
  CASE task[p] = "probe reclaimer" -> Contended(p)
    [] task[p] = "probe lock"      -> Do(p, "link", "publish lock")
    [] OTHER                       -> Fail(p)

SeePath(p) ==
  /\ Stands(p, "see")
  /\ \/ Here(p) = NoInode /\ Vanished(p) /\ UNCHANGED look
     \/ /\ Here(p) # NoInode /\ LinksOf(Here(p)) # 1      \* an unsafe lock file
        /\ Fail(p) /\ UNCHANGED look
     \/ /\ Here(p) # NoInode /\ LinksOf(Here(p)) = 1
        /\ look' = [look EXCEPT ![p] = Here(p)] /\ Then(p, "read")
  /\ UNCHANGED <<names, running, seen, won>>

Observed(p) ==
  <<look[p], IF Here(p) # look[p] THEN "invalid"
             ELSE IF Here(p)[1] \in running THEN "live" ELSE "stale">>

(* A dead or foreign record is looked at again before it is removed: the   *)
(* reclaimer once more, the ownership lock twice more.                     *)
NextLook(t) ==
  CASE t = "probe reclaimer"   -> <<"see", "recheck reclaimer">>
    [] t = "recheck reclaimer" -> <<"assert", "stale reclaimer">>
    [] t = "probe lock"        -> <<"see", "confirm lock">>
    [] t = "confirm lock"      -> <<"see", "recheck lock">>
    [] t = "recheck lock"      -> <<"assert", "stale lock">>

ReadLock(p) ==
  LET obs   == Observed(p)
      probe == task[p] \in {"probe reclaimer", "probe lock"} IN
  /\ Stands(p, "read")
  /\ \/ Here(p) = NoInode /\ Vanished(p) /\ UNCHANGED seen
     \/ /\ Here(p) # NoInode /\ probe /\ obs[2] = "live" /\ UNCHANGED seen
        /\ IF task[p] = "probe lock" THEN Fail(p) ELSE Contended(p)
     \/ /\ Here(p) # NoInode /\ probe /\ obs[2] # "live"
        /\ seen' = [seen EXCEPT ![p] = obs]
        /\ Do(p, NextLook(task[p])[1], NextLook(task[p])[2])
     \/ /\ Here(p) # NoInode /\ ~probe /\ UNCHANGED seen
        /\ IF obs = seen[p] THEN Do(p, NextLook(task[p])[1], NextLook(task[p])[2])
           ELSE Fail(p)
  /\ UNCHANGED <<names, running, look, won>>

-----------------------------------------------------------------------------
(* quarantineOwnedLock, of a lock found stale or of one's own: assert,     *)
(* rename aside, assert again, unlink; what turns out to be another's is   *)
(* renamed back unless the path has been taken.                            *)
Wanted(p)    == IF task[p] \in {"stale reclaimer", "stale lock"} THEN seen[p][1] ELSE Own(p)
Releasing(p) == task[p] \in {"release reclaimer", "release lock"}

AssertOwned(p) ==
  /\ Stands(p, "assert")
  /\ \/ Here(p) = Wanted(p) /\ Then(p, "rename")
     \/ Here(p) = NoInode /\ Releasing(p) /\ Removed(p)       \* ENOENT is fine
     \/ Here(p) # Wanted(p) /\ ~(Here(p) = NoInode /\ Releasing(p)) /\ Fail(p)
  /\ UNCHANGED <<names, running, look, seen, won>>

RenameAside(p) ==
  /\ Stands(p, "rename")
  /\ IF Here(p) = NoInode
       THEN /\ UNCHANGED names
            /\ IF Releasing(p) THEN Removed(p) ELSE Fail(p)
       ELSE /\ named' = [named EXCEPT ![PathOf(task[p])] = NoInode]
            /\ aside' = [aside EXCEPT ![p] = Here(p)] /\ UNCHANGED alias
            /\ Then(p, "confirm")
  /\ UNCHANGED <<running, look, seen, won>>

(* Mutant: what was renamed aside is unlinked without a second look.       *)
UnlinkUnseen(p) ==
  /\ Stands(p, "confirm")
  /\ aside' = [aside EXCEPT ![p] = NoInode] /\ Removed(p)
  /\ UNCHANGED <<named, alias, running, look, seen, won>>

ConfirmAside(p) ==
  /\ Stands(p, "confirm")
  /\ IF aside[p] = Wanted(p)
       THEN aside' = [aside EXCEPT ![p] = NoInode] /\ Removed(p)
       ELSE UNCHANGED aside /\ Then(p, "restore")
  /\ UNCHANGED <<named, alias, running, look, seen, won>>

SeeBeforeRestore(p) ==
  /\ Stands(p, "restore")
  /\ IF Here(p) = NoInode THEN Then(p, "put back") ELSE Fail(p)
  /\ UNCHANGED <<names, running, look, seen, won>>

PutBack(p) ==
  /\ Stands(p, "put back")
  /\ named' = [named EXCEPT ![PathOf(task[p])] = aside[p]]
  /\ aside' = [aside EXCEPT ![p] = NoInode]
  /\ Fail(p)
  /\ UNCHANGED <<alias, running, look, seen, won>>

-----------------------------------------------------------------------------
(* Every operation of the owner first asserts the identity of the lock;    *)
(* a store that finds it changed writes no more.                           *)
FindLost(p) ==
  /\ Stands(p, "holds")
  /\ named["lock"] # <<p, "lock">> \/ LinksOf(<<p, "lock">>) # 1
  /\ Then(p, "poisoned")
  /\ UNCHANGED <<names, running, look, seen, won>>

CloseStore(p) ==
  /\ Stands(p, "holds") \/ Stands(p, "poisoned")
  /\ Do(p, "assert", "release lock")
  /\ UNCHANGED <<names, running, look, seen, won>>

StoreDies(p) ==
  /\ p \in running /\ Cardinality(Stores \ running) < MaxStoreDeaths
  /\ running' = running \ {p}
  /\ UNCHANGED <<names, at, task, seen, look, won>>

Publish(p)    == LinkCandidate(p) \/ UnlinkCandidate(p) \/ VerifyPublished(p)
Inspect(p)    == SeePath(p) \/ ReadLock(p)
Quarantine(p) ==
  \/ AssertOwned(p) \/ RenameAside(p) \/ ConfirmAside(p)
  \/ SeeBeforeRestore(p) \/ PutBack(p)

LockNext ==
  \E p \in Stores :
    Publish(p) \/ Inspect(p) \/ Quarantine(p) \/ FindLost(p) \/ CloseStore(p) \/ StoreDies(p)

LockSpec == LockInit /\ [][LockNext]_lockVars

-----------------------------------------------------------------------------
Opened(p) == p \in running /\ won[p] /\ (at[p] = "holds" \/ task[p] = "release reclaimer")

(* At most one live process has the history open for writing: two that     *)
(* find a dead owner's lock together never both take it over, and nobody's *)
(* reclamation ever unlinks the lock of a live owner.                      *)
OneHistoryOwner ==
  /\ \A p, q \in Stores : Opened(p) /\ Opened(q) => p = q
  /\ \A p \in Stores : Opened(p) => LinksOf(<<p, "lock">>) >= 1

(* What a dead process left behind never keeps the history from the first  *)
(* process that starts after it.                                           *)
RestartOpensHistory ==
  \A p \in Stores : at[p] = "refused" =>
    \E q \in Stores \ {p} : <<at[q], task[q]>> # <<"link", "publish reclaimer">>
=============================================================================
