----------------------------- MODULE LockProofs -----------------------------
(***************************************************************************)
(* The three locks of the application's files.                             *)
(*                                                                         *)
(* For any number of processes and of deaths among them: the history has   *)
(* one owner at a time as long as nobody dies with the reclaimer           *)
(* (HistoryHasOneOwner), and what a dead process left never makes the      *)
(* first one that comes for the core or the journal lock give up           *)
(* (DeadNeverKeepTheLocks).                                                *)
(*                                                                         *)
(* For two processes: they exclude each other at each of the three locks   *)
(* (TwoExcludeEachOther).  For three TLC shows that the core lock does not *)
(* (run core_lock_three), so nothing stronger can be proved.               *)
(***************************************************************************)
EXTENDS MCDurableFiles, FiniteSetTheorems, TLAPS

-----------------------------------------------------------------------------
(* HistoryLock: one owner, as long as nobody dies with the reclaimer.      *)
(*                                                                         *)
(* Who may publish or displace the ownership lock has the reclaimer, and   *)
(* gives it back itself; so the ownership lock of a live owner stays, and  *)
(* one that was found dead stays until whoever found it has removed it.    *)
ReclaimerLives == named["reclaimer"] # NoInode => named["reclaimer"][1] \in running

Asked == {"assert", "rename"}
Looks == {"probe lock", "confirm lock", "recheck lock"}
Tries == {"probe reclaimer", "recheck reclaimer"}

(* Where a process stands, and what for.                                   *)
Placed(p) ==
  \/ at[p] \in {"link", "drop", "verify"} /\ task[p] \in {"publish reclaimer", "publish lock"}
  \/ at[p] \in {"see", "read"} /\ task[p] \in Tries \cup Looks
  \/ /\ at[p] \in Asked \cup {"confirm"}
     /\ task[p] \in {"failed reclaimer", "release reclaimer", "stale lock", "failed lock",
                     "release lock"}
  \/ at[p] \in {"holds", "poisoned"} /\ task[p] = "release reclaimer" /\ won[p]
  \/ at[p] = "gone" /\ task[p] = "release lock"
  \/ at[p] = "refused" /\ task[p] \in Tries \cup {"failed reclaimer", "release reclaimer"}

Awaits(p) ==
  task[p] \in Tries \/ (task[p] = "publish reclaimer" /\ at[p] = "link")
HasReclaimer(p) ==
  \/ task[p] = "publish reclaimer" /\ at[p] \in {"drop", "verify"}
  \/ task[p] \in Looks \cup {"stale lock", "publish lock", "failed lock"}
  \/ task[p] \in {"failed reclaimer", "release reclaimer"} /\ at[p] \in Asked
HasLock(p) ==
  \/ won[p] /\ (task[p] = "release reclaimer" \/ at[p] \in {"holds", "poisoned"})
  \/ task[p] = "release lock" /\ at[p] \in Asked
  \/ task[p] = "publish lock" /\ at[p] \in {"drop", "verify"}
  \/ task[p] = "failed lock" /\ at[p] \in Asked

LockTypes ==
  /\ running \subseteq Stores
  /\ DOMAIN at = Stores /\ DOMAIN task = Stores /\ won \in [Stores -> BOOLEAN]
  /\ DOMAIN named = Paths /\ \A x \in Paths : named[x] \in {NoInode} \cup (Anyone \X {x})
  /\ DOMAIN aside = Anyone /\ DOMAIN look = Stores /\ DOMAIN seen = Stores

(* A reclaimer once displaced is not seen again: nobody but the one that   *)
(* released it displaced it.                                               *)
ReclaimerInv(p) ==
  /\ HasReclaimer(p) => named["reclaimer"] = <<p, "reclaimer">>
  /\ Awaits(p) => named["reclaimer"] # <<p, "reclaimer">>
  /\ task[p] \in Tries /\ at[p] = "read" =>
       \E q \in Stores : look[p] = <<q, "reclaimer">> /\ ~Awaits(q)
  /\ task[p] = "recheck reclaimer" =>
       /\ \E q \in Stores :
            /\ seen[p] = <<<<q, "reclaimer">>, "invalid">> /\ ~Awaits(q)
            /\ named["reclaimer"] # <<q, "reclaimer">>
       /\ at[p] = "read" => look[p] # seen[p][1]

OwnerInv(p) ==
  /\ won[p] => task[p] \in {"release reclaimer", "release lock"}
  /\ p \in running /\ HasLock(p) => named["lock"] = <<p, "lock">>
  /\ task[p] \in Looks /\ at[p] = "read" => look[p] # NoInode /\ named["lock"] \in {NoInode, look[p]}
  /\ task[p] \in {"confirm lock", "recheck lock", "stale lock"} =>
       seen[p][2] = "stale" /\ seen[p][1][1] \notin running
  /\ task[p] = "stale lock" /\ at[p] = "rename" => named["lock"] = seen[p][1]
  /\ at[p] = "confirm" => aside[p] = Wanted(p)

HistoryLockInv == LockTypes /\ \A p \in Stores : Placed(p) /\ ReclaimerInv(p) /\ OwnerInv(p)

(* What a step of one process leaves of the others.                        *)
Moved(p) ==
  \A q \in Stores \ {p} :
    /\ at'[q] = at[q] /\ task'[q] = task[q] /\ look'[q] = look[q] /\ seen'[q] = seen[q]
    /\ won'[q] = won[q] /\ aside'[q] = aside[q]
Displaced(p) ==
  /\ \/ named'["reclaimer"] = named["reclaimer"]
     \/ named["reclaimer"] = NoInode /\ named'["reclaimer"] = <<p, "reclaimer">> /\ Awaits(p)
     \/ HasReclaimer(p) /\ named'["reclaimer"] = NoInode
  /\ \/ named'["lock"] = named["lock"]
     \/ HasReclaimer(p) /\ (named["lock"] = NoInode \/ named["lock"][1] \notin running)
     \/ HasLock(p) /\ named'["lock"] = NoInode
  /\ Awaits(p)' => Awaits(p)

LEMMA Inodes ==
  /\ \A p \in Anyone, x \in Paths : <<p, x>> # NoInode
  /\ \A p, q \in Anyone, x \in Paths : <<p, x>> = <<q, x>> => p = q
BY NoInodeAssumption

LEMMA OthersKeepTheirs ==
  ASSUME HistoryLockInv, NEW p \in running, running' \subseteq running, Moved(p), Displaced(p),
         NEW q \in Stores, q # p
  PROVE  Placed(q)' /\ ReclaimerInv(q)' /\ OwnerInv(q)'
<1>1. /\ at'[q] = at[q] /\ task'[q] = task[q] /\ look'[q] = look[q] /\ seen'[q] = seen[q]
      /\ won'[q] = won[q] /\ aside'[q] = aside[q]
  BY DEF Moved
<1>2. Placed(q) /\ ReclaimerInv(q) /\ OwnerInv(q) /\ ReclaimerInv(p) /\ OwnerInv(p) /\ p \in Stores
  BY DEF HistoryLockInv, LockTypes
<1>8. /\ p \in Anyone /\ q \in Anyone /\ \A x \in {"lock", "reclaimer"} :
           <<p, x>> # <<q, x>> /\ <<p, x>>[1] = p /\ <<p, x>> # NoInode /\ <<q, x>> # NoInode /\ <<q, x>>[1] = q
  BY <1>2, Inodes DEF Anyone, Paths
<1>3. \A r \in Stores : Awaits(r)' => Awaits(r)
  BY DEF Displaced, Moved, Awaits
<1>4. HasReclaimer(p) => ~HasReclaimer(q)
  BY <1>2, <1>8 DEF ReclaimerInv
<1>5. \A i \in Stores : named'["reclaimer"] = <<i, "reclaimer">> =>
        named["reclaimer"] = <<i, "reclaimer">> \/ (i = p /\ Awaits(p))
  BY NoInodeAssumption DEF Displaced, Paths, Anyone
<1>6. ReclaimerInv(q)'
  <2>1. HasReclaimer(q)' = HasReclaimer(q) /\ Awaits(q)' = Awaits(q)
    BY <1>1 DEF HasReclaimer, Awaits
  <2>2. HasReclaimer(q) => named'["reclaimer"] = named["reclaimer"]
    BY <1>2, <1>4, <1>8 DEF Displaced, ReclaimerInv
  <2>. QED
    BY <1>1, <1>2, <1>3, <1>5, <2>1, <2>2 DEF ReclaimerInv
<1>7. OwnerInv(q)'
  <2>1. /\ HasLock(q)' = HasLock(q) /\ Wanted(q)' = Wanted(q)
    BY <1>1 DEF HasLock, Wanted, Own
  <2>2. q \in running /\ HasLock(q) => named'["lock"] = named["lock"]
    BY <1>2, <1>8 DEF Displaced, OwnerInv
  <2>3. task[q] \in Looks \cup {"stale lock"} =>
          named'["lock"] = named["lock"]
            \/ (named["lock"] = <<p, "lock">> /\ named'["lock"] = NoInode)
    BY <1>2, <1>4 DEF Displaced, OwnerInv, HasReclaimer
  <2>4. task[q] = "stale lock" /\ at[q] = "rename" => named'["lock"] = seen[q][1]
    BY <1>2, <1>8, <2>3 DEF OwnerInv
  <2>5. task[q] \in Looks /\ at[q] = "read" =>
          look[q] # NoInode /\ named'["lock"] \in {NoInode, look[q]}
    BY <1>2, <2>3 DEF OwnerInv
  <2>6. task[q] \in {"confirm lock", "recheck lock", "stale lock"} =>
          seen[q][2] = "stale" /\ seen[q][1][1] \notin running'
    BY <1>2 DEF OwnerInv
  <2>7. at[q] = "confirm" => aside[q] = Wanted(q)
    BY <1>2 DEF OwnerInv
  <2>. QED
    BY <1>1, <1>2, <2>1, <2>2, <2>4, <2>5, <2>6, <2>7 DEF OwnerInv
<1>9. Placed(q)'
  BY <1>1, <1>2 DEF Placed
<1>. QED
  BY <1>6, <1>7, <1>9

LEMMA StepOfOne ==
  ASSUME HistoryLockInv, NEW p \in running, running' = running, Moved(p), Displaced(p),
         LockTypes', Placed(p)', ReclaimerInv(p)', OwnerInv(p)'
  PROVE  HistoryLockInv'
BY OthersKeepTheirs DEF HistoryLockInv

(* Where a step leads its process.                                         *)
Goes(p, a, t) ==
  /\ DOMAIN at' = Stores /\ DOMAIN task' = Stores
  /\ at'[p] = a /\ task'[p] = t
  /\ \A q \in Stores \ {p} : at'[q] = at[q] /\ task'[q] = task[q]

LEMMA DoGoes ==
  ASSUME LockTypes, NEW p \in Stores, NEW a, NEW t, Do(p, a, t)
  PROVE  Goes(p, a, t)
BY DEF Do, Goes, LockTypes

LEMMA ThenGoes ==
  ASSUME LockTypes, NEW p \in Stores, NEW a, Then(p, a)
  PROVE  Goes(p, a, task[p])
BY DEF Then, Goes, LockTypes

FailGoes(p) ==
  \/ /\ task[p] \in Looks \cup {"stale lock", "publish lock", "failed lock"}
     /\ Goes(p, "assert", "release reclaimer")
  \/ task[p] = "release reclaimer" /\ won[p] /\ Goes(p, "assert", "release lock")
  \/ task[p] = "release lock" /\ Goes(p, "gone", "release lock")
  \/ /\ task[p] \in Tries \cup {"failed reclaimer", "release reclaimer"} /\ ~won[p]
     /\ Goes(p, "refused", task[p])

LEMMA FailLeads ==
  ASSUME LockTypes, NEW p \in Stores, Fail(p), Placed(p), OwnerInv(p),
         task[p] # "publish reclaimer"
  PROVE  FailGoes(p)
<1>. DEFINE L == {"publish lock", "probe lock", "confirm lock", "recheck lock",
                  "stale lock", "failed lock"}
<1>1. CASE task[p] \in L
  <2>1. Do(p, "assert", "release reclaimer")
    BY <1>1 DEF Fail
  <2>. QED
    BY <1>1, <2>1, DoGoes DEF FailGoes, Looks
<1>2. CASE task[p] = "release reclaimer" /\ won[p]
  <2>1. Do(p, "assert", "release lock")
    BY <1>2 DEF Fail
  <2>. QED
    BY <1>2, <2>1, DoGoes DEF FailGoes
<1>3. CASE task[p] = "release lock"
  <2>1. Then(p, "gone")
    BY <1>3 DEF Fail
  <2>. QED
    BY <1>3, <2>1, ThenGoes DEF FailGoes
<1>4. CASE task[p] \notin L \cup {"release lock"} /\ ~(task[p] = "release reclaimer" /\ won[p])
  <2>1. Then(p, "refused")
    BY <1>4 DEF Fail
  <2>2. task[p] \in Tries \cup {"failed reclaimer", "release reclaimer"} /\ ~won[p]
    BY <1>4 DEF Placed, Looks, Tries, OwnerInv
  <2>. QED
    BY <2>1, <2>2, ThenGoes DEF FailGoes
<1>. QED
  BY <1>1, <1>2, <1>3, <1>4

RemovedGoes(p) ==
  \/ task[p] = "stale lock" /\ Goes(p, "link", "publish lock")
  \/ /\ task[p] = "release reclaimer"
     /\ Goes(p, IF won[p] THEN "holds" ELSE "refused", "release reclaimer")
  \/ task[p] \in {"failed lock", "failed reclaimer", "release lock"} /\ FailGoes(p)

LEMMA RemovedLeads ==
  ASSUME LockTypes, NEW p \in Stores, Removed(p), Placed(p), OwnerInv(p),
         at[p] \in Asked \cup {"confirm"}
  PROVE  RemovedGoes(p)
<1>0. task[p] \in {"failed reclaimer", "release reclaimer", "stale lock", "failed lock",
                  "release lock"}
  BY DEF Placed, Asked
<1>1. CASE task[p] = "stale lock"
  <2>1. Do(p, "link", "publish lock")
    BY <1>1 DEF Removed
  <2>. QED
    BY <1>1, <2>1, DoGoes DEF RemovedGoes
<1>2. CASE task[p] = "release reclaimer"
  <2>1. Then(p, IF won[p] THEN "holds" ELSE "refused")
    BY <1>2 DEF Removed
  <2>. QED
    BY <1>2, <2>1, ThenGoes DEF RemovedGoes
<1>3. CASE task[p] \in {"failed lock", "failed reclaimer", "release lock"}
  <2>1. Fail(p)
    BY <1>3 DEF Removed
  <2>. QED
    BY <1>3, <2>1, FailLeads DEF RemovedGoes
<1>. QED
  BY <1>0, <1>1, <1>2, <1>3

(* What is common to the steps: they leave what is another's.              *)
Quiet(p) ==
  /\ running' = running /\ won' \in [Stores -> BOOLEAN]
  /\ DOMAIN aside' = Anyone /\ DOMAIN look' = Stores /\ DOMAIN seen' = Stores
  /\ \A q \in Stores \ {p} :
       look'[q] = look[q] /\ seen'[q] = seen[q] /\ won'[q] = won[q] /\ aside'[q] = aside[q]
Owned(p) == Placed(p) /\ ReclaimerInv(p) /\ OwnerInv(p)
NamedOk  == DOMAIN named' = Paths /\ \A x \in Paths : named'[x] \in {NoInode} \cup (Anyone \X {x})

LEMMA StepKeeps ==
  ASSUME HistoryLockInv, NEW p \in running, Quiet(p), NEW a, NEW t, Goes(p, a, t), NamedOk,
         Displaced(p), Owned(p)'
  PROVE  HistoryLockInv'
<1>1. Moved(p)
  BY DEF Moved, Quiet, Goes
<1>2. LockTypes'
  BY DEF Quiet, Goes, HistoryLockInv, LockTypes, NamedOk
<1>. QED
  BY <1>1, <1>2, StepOfOne DEF Quiet, Owned

(* A step that leaves the two paths alone.                                 *)
LEMMA PathsAlone ==
  ASSUME HistoryLockInv, NEW p \in running, Quiet(p), NEW a, NEW t, Goes(p, a, t),
         named' = named, Awaits(p)' => Awaits(p), Owned(p)'
  PROVE  HistoryLockInv'
<1>1. NamedOk /\ Displaced(p)
  BY DEF HistoryLockInv, LockTypes, NamedOk, Displaced
<1>. QED
  BY <1>1, StepKeeps

LEMMA Standing ==
  ASSUME HistoryLockInv, NEW p \in Stores, NEW a, Stands(p, a)
  PROVE  /\ p \in running /\ at[p] = a /\ LockTypes /\ Placed(p) /\ ReclaimerInv(p) /\ OwnerInv(p)
         /\ p \in Anyone
         /\ \A x \in {"lock", "reclaimer"} : <<p, x>> # NoInode /\ <<p, x>>[1] = p
                                             /\ <<p, x>> \in Anyone \X {x}
BY Inodes DEF Stands, HistoryLockInv, Anyone, Paths

LEMMA LinkCandidateKeeps ==
  ASSUME HistoryLockInv, NEW p \in Stores, LinkCandidate(p)
  PROVE  HistoryLockInv'
<1>1. /\ p \in running /\ at[p] = "link" /\ LockTypes /\ Placed(p) /\ ReclaimerInv(p)
      /\ OwnerInv(p) /\ p \in Anyone
      /\ \A x \in {"lock", "reclaimer"} : <<p, x>> # NoInode /\ <<p, x>> \in Anyone \X {x}
  BY Standing DEF LinkCandidate
<1>2. task[p] \in {"publish reclaimer", "publish lock"} /\ ~won[p]
  BY <1>1 DEF Placed, Asked, OwnerInv
<1>3. Quiet(p) /\ aside' = aside
  BY DEF LinkCandidate, Quiet, LockTypes, HistoryLockInv
<1>4. CASE Here(p) = NoInode /\ task[p] = "publish reclaimer"
  <2>1. /\ Goes(p, "drop", "publish reclaimer")
        /\ named' = [named EXCEPT !["reclaimer"] = <<p, "reclaimer">>]
        /\ named["reclaimer"] = NoInode
    <3>1. PathOf(task[p]) = "reclaimer"
      BY <1>4 DEF PathOf, ForReclaimer
    <3>2. /\ Then(p, "drop") /\ named["reclaimer"] = NoInode
          /\ named' = [named EXCEPT !["reclaimer"] = <<p, "reclaimer">>]
      BY <1>4, <3>1 DEF LinkCandidate, Here, Own
    <3>. QED
      BY <1>1, <1>4, <3>2, ThenGoes
  <2>2. /\ named'["reclaimer"] = <<p, "reclaimer">> /\ named'["lock"] = named["lock"]
        /\ NamedOk
    BY <1>1, <2>1 DEF LockTypes, Paths, NamedOk
  <2>3. Displaced(p)
    BY <1>1, <1>4, <2>1, <2>2 DEF Displaced, Awaits, Goes
  <2>4. Owned(p)'
    BY <1>1, <1>2, <1>3, <2>1, <2>2
       DEF LinkCandidate, Goes, Owned, Placed, ReclaimerInv, OwnerInv, HasReclaimer, HasLock, Awaits, Looks,
           Tries, Asked
  <2>. QED
    BY <1>1, <1>3, <2>1, <2>2, <2>3, <2>4, StepKeeps
<1>5. CASE Here(p) = NoInode /\ task[p] = "publish lock"
  <2>1. /\ Goes(p, "drop", "publish lock")
        /\ named' = [named EXCEPT !["lock"] = <<p, "lock">>]
        /\ named["lock"] = NoInode
    <3>1. PathOf(task[p]) = "lock"
      BY <1>5 DEF PathOf, ForReclaimer
    <3>2. /\ Then(p, "drop") /\ named["lock"] = NoInode
          /\ named' = [named EXCEPT !["lock"] = <<p, "lock">>]
      BY <1>5, <3>1 DEF LinkCandidate, Here, Own
    <3>. QED
      BY <1>1, <1>5, <3>2, ThenGoes
  <2>2. /\ named'["lock"] = <<p, "lock">> /\ named'["reclaimer"] = named["reclaimer"]
        /\ NamedOk
    BY <1>1, <2>1 DEF LockTypes, Paths, NamedOk
  <2>3. Displaced(p)
    BY <1>1, <1>5, <2>1, <2>2 DEF Displaced, HasReclaimer, Awaits, Goes, Tries
  <2>4. Owned(p)'
    BY <1>1, <1>2, <1>3, <1>5, <2>1, <2>2
       DEF LinkCandidate, Goes, Owned, Placed, ReclaimerInv, OwnerInv, HasReclaimer, HasLock, Awaits, Looks,
           Tries, Asked
  <2>. QED
    BY <1>1, <1>3, <2>1, <2>2, <2>3, <2>4, StepKeeps
<1>6. CASE Here(p) # NoInode
  <2>1. /\ named' = named /\ look' = look /\ seen' = seen /\ won' = won
        /\ \/ task[p] = "publish lock" /\ Goes(p, "assert", "release reclaimer")
           \/ task[p] = "publish reclaimer" /\ Goes(p, "see", "probe reclaimer")
    <3>1. CASE task[p] = "publish lock"
      BY <1>1, <1>6, <3>1, FailLeads DEF LinkCandidate, FailGoes, Looks, Tries
    <3>2. CASE task[p] = "publish reclaimer"
      BY <1>1, <1>6, <3>2, DoGoes DEF LinkCandidate
    <3>. QED
      BY <1>2, <3>1, <3>2
  <2>2. Awaits(p)' => Awaits(p)
    BY <1>1, <2>1 DEF Awaits, Goes, Tries
  <2>3. Owned(p)'
    BY <1>1, <1>2, <1>3, <2>1
       DEF Goes, Owned, Placed, ReclaimerInv, OwnerInv, HasReclaimer, HasLock, Awaits, Looks, Tries, Asked
  <2>4. \E a, t : Goes(p, a, t)
    BY <2>1
  <2>. QED
    BY <1>1, <1>3, <2>1, <2>2, <2>3, <2>4, PathsAlone
<1>. QED
  BY <1>2, <1>4, <1>5, <1>6

LEMMA UnlinkCandidateKeeps ==
  ASSUME HistoryLockInv, NEW p \in Stores, UnlinkCandidate(p)
  PROVE  HistoryLockInv'
<1>1. /\ p \in running /\ at[p] = "drop" /\ LockTypes /\ Placed(p) /\ ReclaimerInv(p) /\ OwnerInv(p)
  BY Standing DEF UnlinkCandidate
<1>2. Quiet(p) /\ Goes(p, "verify", task[p]) /\ named' = named
  BY <1>1, ThenGoes DEF UnlinkCandidate, Quiet, LockTypes
<1>3. Awaits(p)' => Awaits(p)
  BY <1>1, <1>2 DEF Awaits, Goes
<1>4. Owned(p)'
  BY <1>1, <1>2
     DEF UnlinkCandidate, Goes, Owned, Placed, ReclaimerInv, OwnerInv, HasReclaimer, HasLock, Awaits, Looks,
         Tries, Asked
<1>. QED
  BY <1>1, <1>2, <1>3, <1>4, PathsAlone

LEMMA VerifyPublishedKeeps ==
  ASSUME HistoryLockInv, NEW p \in Stores, VerifyPublished(p)
  PROVE  HistoryLockInv'
<1>1. /\ p \in running /\ at[p] = "verify" /\ LockTypes /\ Placed(p) /\ ReclaimerInv(p) /\ OwnerInv(p)
  BY Standing DEF VerifyPublished
<1>2. task[p] \in {"publish reclaimer", "publish lock"} /\ ~won[p]
  BY <1>1 DEF Placed, Asked, OwnerInv
<1>3. /\ named' = named /\ look' = look /\ seen' = seen /\ Quiet(p)
  BY <1>1 DEF VerifyPublished, names, Quiet, LockTypes
<1>4. \/ /\ task[p] = "publish lock"
         /\ \/ Goes(p, "assert", "release reclaimer") /\ won'[p]
            \/ Goes(p, "assert", "failed lock") /\ ~won'[p]
      \/ /\ task[p] = "publish reclaimer" /\ ~won'[p]
         /\ Goes(p, "see", "probe lock") \/ Goes(p, "assert", "failed reclaimer")
  <2>. DEFINE ok == Here(p) = Own(p) /\ LinksOf(Own(p)) = 1
  <2>. HIDE DEF ok
  <2>1. /\ won'[p] = (won[p] \/ (ok /\ task[p] = "publish lock"))
        /\ IF ok /\ task[p] = "publish lock" THEN Do(p, "assert", "release reclaimer")
           ELSE IF ok THEN Do(p, "see", "probe lock")
           ELSE Do(p, "assert", IF task[p] = "publish lock" THEN "failed lock" ELSE "failed reclaimer")
    BY <1>1 DEF VerifyPublished, LockTypes, ok
  <2>. QED
    BY <1>1, <1>2, <2>1, DoGoes
<1>5. Awaits(p)' => Awaits(p)
  BY <1>4 DEF Awaits, Goes, Tries
<1>6. Owned(p)'
  BY <1>1, <1>2, <1>3, <1>4
     DEF Goes, Owned, Placed, ReclaimerInv, OwnerInv, HasReclaimer, HasLock, Awaits, Looks, Tries, Asked
<1>7. \E a, t : Goes(p, a, t)
  BY <1>4
<1>. QED
  BY <1>1, <1>3, <1>5, <1>6, <1>7, PathsAlone

(* A step that looks and turns away: it waits, tries again or gives up.    *)
Turned(p) ==
  \E a, t :
    /\ Goes(p, a, t)
    /\ \/ /\ task[p] = "probe reclaimer"
          /\ <<a, t>> \in {<<"link", "publish reclaimer">>, <<"refused", "probe reclaimer">>}
       \/ task[p] = "recheck reclaimer" /\ a = "refused" /\ t = "recheck reclaimer"
       \/ task[p] = "probe lock" /\ a = "link" /\ t = "publish lock"
       \/ task[p] \in Looks /\ a = "assert" /\ t = "release reclaimer"

LEMMA TurnsAway ==
  ASSUME HistoryLockInv, NEW p \in running, Quiet(p), named' = named, won' = won, seen' = seen,
         look' = look, at[p] \in {"see", "read"}, Turned(p)
  PROVE  HistoryLockInv'
<1>1. /\ LockTypes /\ Placed(p) /\ ReclaimerInv(p) /\ OwnerInv(p) /\ p \in Stores
  BY DEF HistoryLockInv, LockTypes
<1>2. Awaits(p)' => Awaits(p)
  BY DEF Turned, Awaits, Goes, Tries, Looks
<1>3. Owned(p)'
  <2>1. Placed(p)'
    BY <1>1 DEF Turned, Goes, Placed, Looks, Tries, Asked
  <2>2. ReclaimerInv(p)'
    <3>1. \A q \in Stores : ~Awaits(q) => ~Awaits(q)'
      BY <1>2 DEF Turned, Awaits, Goes
    <3>. QED
      BY <1>1, <3>1 DEF Turned, Goes, ReclaimerInv, HasReclaimer, Awaits, Looks, Tries, Asked
  <2>3. OwnerInv(p)'
    BY <1>1 DEF Turned, Goes, Placed, OwnerInv, HasLock, Quiet, Looks, Tries, Asked
  <2>. QED
    BY <2>1, <2>2, <2>3 DEF Owned
<1>. QED
  BY <1>2, <1>3, PathsAlone DEF Turned

LEMMA FailTurns ==
  ASSUME HistoryLockInv, NEW p \in Stores, at[p] \in {"see", "read"}, Fail(p)
  PROVE  Turned(p)
<1>1. LockTypes /\ Placed(p) /\ OwnerInv(p)
  BY DEF HistoryLockInv
<1>2. task[p] \in Tries \cup Looks /\ ~won[p]
  BY <1>1 DEF Placed, Asked, OwnerInv, Tries, Looks
<1>3. FailGoes(p)
  BY <1>1, <1>2, FailLeads DEF Tries, Looks
<1>. QED
  BY <1>2, <1>3 DEF FailGoes, Turned, Tries, Looks

LEMMA ContendedTurns ==
  ASSUME HistoryLockInv, NEW p \in Stores, task[p] = "probe reclaimer", Contended(p)
  PROVE  Turned(p)
BY DoGoes, ThenGoes DEF Contended, Turned, HistoryLockInv

LEMMA VanishedTurns ==
  ASSUME HistoryLockInv, NEW p \in Stores, at[p] \in {"see", "read"}, Vanished(p)
  PROVE  Turned(p)
<1>1. CASE task[p] = "probe reclaimer"
  BY <1>1, ContendedTurns DEF Vanished
<1>2. CASE task[p] = "probe lock"
  <2>1. Do(p, "link", "publish lock")
    BY <1>2 DEF Vanished
  <2>. QED
    BY <1>2, <2>1, DoGoes DEF Turned, HistoryLockInv
<1>3. CASE task[p] \notin {"probe reclaimer", "probe lock"}
  BY <1>3, FailTurns DEF Vanished
<1>. QED
  BY <1>1, <1>2, <1>3

LEMMA SeePathKeeps ==
  ASSUME HistoryLockInv, ReclaimerLives, NEW p \in Stores, SeePath(p)
  PROVE  HistoryLockInv'
<1>1. /\ p \in running /\ at[p] = "see" /\ LockTypes /\ Placed(p) /\ ReclaimerInv(p) /\ OwnerInv(p)
  BY Standing DEF SeePath
<1>2. task[p] \in Tries \cup Looks /\ ~won[p]
  BY <1>1 DEF Placed, Asked, OwnerInv, Tries, Looks
<1>3. /\ named' = named /\ seen' = seen /\ won' = won /\ Quiet(p)
  BY <1>1 DEF SeePath, names, Quiet, LockTypes
<1>4. \/ Turned(p) /\ look' = look
      \/ Goes(p, "read", task[p]) /\ Here(p) # NoInode /\ look'[p] = Here(p)
  BY <1>1, FailTurns, VanishedTurns, ThenGoes DEF SeePath, LockTypes
<1>5. CASE Turned(p) /\ look' = look
  BY <1>1, <1>3, <1>5, TurnsAway
<1>6. CASE Goes(p, "read", task[p]) /\ Here(p) # NoInode /\ look'[p] = Here(p)
  <2>1. Awaits(p)' => Awaits(p)
    BY <1>6 DEF Awaits, Goes
  <2>2. CASE task[p] \in Tries
    <3>1. named["reclaimer"] # NoInode /\ look'[p] = named["reclaimer"]
      BY <1>6, <2>2 DEF Here, PathOf, ForReclaimer, Tries
    <3>2. PICK q \in Anyone : named["reclaimer"] = <<q, "reclaimer">>
      BY <1>1, <3>1 DEF LockTypes, Paths
    <3>3. q \in Stores
      BY <1>1, <3>1, <3>2 DEF ReclaimerLives, LockTypes
    <3>4. ~Awaits(q)'
      BY <1>6, <2>1, <3>2, <3>3 DEF HistoryLockInv, ReclaimerInv, Awaits, Goes
    <3>5. ASSUME NEW r \in Stores, ~Awaits(r) PROVE ~Awaits(r)'
      <4>1. CASE r = p
        BY <2>1, <3>5, <4>1
      <4>2. CASE r # p
        BY <1>6, <3>5, <4>2 DEF Awaits, Goes
      <4>. QED
        BY <4>1, <4>2
    <3>6. ReclaimerInv(p)'
      <4>1. look'[p] = <<q, "reclaimer">>
        BY <3>1, <3>2
      <4>2. ASSUME task[p] = "recheck reclaimer"
            PROVE  look'[p] # seen[p][1]
        <5>1. PICK r \in Stores : /\ seen[p] = <<<<r, "reclaimer">>, "invalid">>
                                  /\ named["reclaimer"] # <<r, "reclaimer">>
          BY <1>1, <4>2 DEF ReclaimerInv
        <5>. QED
          BY <3>1, <5>1
      <4>. QED
        BY <1>1, <1>3, <1>6, <2>2, <3>3, <3>4, <3>5, <4>1, <4>2
           DEF Goes, ReclaimerInv, HasReclaimer, Awaits, Looks, Tries, Asked
    <3>7. Placed(p)' /\ OwnerInv(p)'
      BY <1>1, <1>2, <1>3, <1>6, <2>2
         DEF Goes, Placed, OwnerInv, HasLock, Looks, Tries, Asked
    <3>. QED
      BY <1>1, <1>3, <1>6, <2>1, <3>6, <3>7, PathsAlone DEF Owned
  <2>3. CASE task[p] \in Looks
    <3>1. named["lock"] # NoInode /\ look'[p] = named["lock"]
      BY <1>6, <2>3 DEF Here, PathOf, ForReclaimer, Looks
    <3>2. ReclaimerInv(p)'
      BY <1>1, <1>3, <1>6, <2>3 DEF Goes, ReclaimerInv, HasReclaimer, Awaits, Looks, Tries, Asked
    <3>3. Placed(p)' /\ OwnerInv(p)'
      BY <1>1, <1>2, <1>3, <1>6, <2>3, <3>1
         DEF Goes, Placed, OwnerInv, HasLock, Looks, Tries, Asked, Quiet
    <3>. QED
      BY <1>1, <1>3, <1>6, <2>1, <3>2, <3>3, PathsAlone DEF Owned
  <2>. QED
    BY <1>2, <2>2, <2>3
<1>. QED
  BY <1>4, <1>5, <1>6

LEMMA ObservedIs ==
  ASSUME NEW p \in Stores
  PROVE  /\ Observed(p)[1] = look[p]
         /\ Observed(p)[2] = IF Here(p) # look[p] THEN "invalid"
                             ELSE IF Here(p)[1] \in running THEN "live" ELSE "stale"
<1>. DEFINE v == IF Here(p) # look[p] THEN "invalid"
                ELSE IF Here(p)[1] \in running THEN "live" ELSE "stale"
<1>1. Observed(p) = <<look[p], v>>
  BY DEF Observed
<1>. HIDE DEF v
<1>2. Observed(p)[1] = look[p] /\ Observed(p)[2] = v
  BY <1>1
<1>. QED
  BY <1>2 DEF v

LEMMA ReadLockKeeps ==
  ASSUME HistoryLockInv, ReclaimerLives, NEW p \in Stores, ReadLock(p)
  PROVE  HistoryLockInv'
<1>1. /\ p \in running /\ at[p] = "read" /\ LockTypes /\ Placed(p) /\ ReclaimerInv(p) /\ OwnerInv(p)
  BY Standing DEF ReadLock
<1>2. task[p] \in Tries \cup Looks /\ ~won[p]
  BY <1>1 DEF Placed, Asked, OwnerInv, Tries, Looks
<1>3. /\ named' = named /\ look' = look /\ won' = won /\ Quiet(p)
  BY <1>1 DEF ReadLock, names, Quiet, LockTypes
<1>4. \/ Turned(p) /\ seen' = seen
      \/ /\ Here(p) # NoInode /\ seen'[p] = Observed(p) /\ Observed(p)[2] # "live"
         /\ \/ task[p] = "probe reclaimer" /\ Goes(p, "see", "recheck reclaimer")
            \/ task[p] = "probe lock" /\ Goes(p, "see", "confirm lock")
      \/ /\ seen' = seen /\ Observed(p) = seen[p]
         /\ \/ task[p] = "recheck reclaimer"
            \/ task[p] = "confirm lock" /\ Goes(p, "see", "recheck lock")
            \/ task[p] = "recheck lock" /\ Goes(p, "assert", "stale lock")
  <2>1. CASE Here(p) = NoInode
    BY <1>1, <2>1, VanishedTurns DEF ReadLock
  <2>2. CASE Here(p) # NoInode /\ task[p] = "probe reclaimer"
    <3>1. CASE Observed(p)[2] = "live"
      BY <1>1, <2>2, <3>1, ContendedTurns DEF ReadLock
    <3>2. CASE Observed(p)[2] # "live"
      <4>1. NextLook(task[p])[1] = "see" /\ NextLook(task[p])[2] = "recheck reclaimer"
        BY <2>2 DEF NextLook
      <4>2. /\ seen' = [seen EXCEPT ![p] = Observed(p)]
            /\ Do(p, NextLook(task[p])[1], NextLook(task[p])[2])
        BY <2>2, <3>2 DEF ReadLock
      <4>3. Do(p, "see", "recheck reclaimer")
        BY <4>1, <4>2 DEF Do
      <4>. QED
        BY <1>1, <2>2, <3>2, <4>2, <4>3, DoGoes DEF LockTypes
    <3>. QED
      BY <3>1, <3>2
  <2>3. CASE Here(p) # NoInode /\ task[p] = "probe lock"
    <3>1. CASE Observed(p)[2] = "live"
      BY <1>1, <2>3, <3>1, FailTurns DEF ReadLock
    <3>2. CASE Observed(p)[2] # "live"
      <4>1. NextLook(task[p])[1] = "see" /\ NextLook(task[p])[2] = "confirm lock"
        BY <2>3 DEF NextLook
      <4>2. /\ seen' = [seen EXCEPT ![p] = Observed(p)]
            /\ Do(p, NextLook(task[p])[1], NextLook(task[p])[2])
        BY <2>3, <3>2 DEF ReadLock
      <4>3. Do(p, "see", "confirm lock")
        BY <4>1, <4>2 DEF Do
      <4>. QED
        BY <1>1, <2>3, <3>2, <4>2, <4>3, DoGoes DEF LockTypes
    <3>. QED
      BY <3>1, <3>2
  <2>4. CASE Here(p) # NoInode /\ task[p] \notin {"probe reclaimer", "probe lock"}
    <3>1. seen' = seen
      BY <2>4 DEF ReadLock
    <3>2. CASE Observed(p) # seen[p]
      BY <1>1, <2>4, <3>1, <3>2, FailTurns DEF ReadLock
    <3>3. CASE Observed(p) = seen[p]
      <4>1. Do(p, NextLook(task[p])[1], NextLook(task[p])[2])
        BY <2>4, <3>3 DEF ReadLock
      <4>2. /\ task[p] = "confirm lock" =>
                 NextLook(task[p])[1] = "see" /\ NextLook(task[p])[2] = "recheck lock"
            /\ task[p] = "recheck lock" =>
                 NextLook(task[p])[1] = "assert" /\ NextLook(task[p])[2] = "stale lock"
        BY DEF NextLook
      <4>6. /\ task[p] = "confirm lock" => Do(p, "see", "recheck lock")
            /\ task[p] = "recheck lock" => Do(p, "assert", "stale lock")
        BY <4>1, <4>2 DEF Do
      <4>3. task[p] \in {"recheck reclaimer", "confirm lock", "recheck lock"}
        BY <1>2, <2>4 DEF Tries, Looks
      <4>4. CASE task[p] = "confirm lock"
        BY <1>1, <3>1, <3>3, <4>6, <4>4, DoGoes
      <4>5. CASE task[p] = "recheck lock"
        BY <1>1, <3>1, <3>3, <4>6, <4>5, DoGoes
      <4>. QED
        BY <3>1, <3>3, <4>3, <4>4, <4>5
    <3>. QED
      BY <3>2, <3>3
  <2>. QED
    BY <2>1, <2>2, <2>3, <2>4
<1>5. CASE Turned(p) /\ seen' = seen
  BY <1>1, <1>3, <1>5, TurnsAway
<1>6. CASE /\ Here(p) # NoInode /\ seen'[p] = Observed(p) /\ Observed(p)[2] # "live"
           /\ task[p] = "probe reclaimer" /\ Goes(p, "see", "recheck reclaimer")
  <2>1. PICK q \in Stores : look[p] = <<q, "reclaimer">> /\ ~Awaits(q)
    BY <1>1, <1>6 DEF ReclaimerInv, Tries
  <2>2. Here(p) = named["reclaimer"] /\ named["reclaimer"][1] \in running
    BY <1>6 DEF Here, PathOf, ForReclaimer, ReclaimerLives
  <2>3. named["reclaimer"] # <<q, "reclaimer">> /\ seen'[p] = <<<<q, "reclaimer">>, "invalid">>
    BY <1>6, <2>1, <2>2 DEF Observed
  <2>4. Awaits(p)
    BY <1>6 DEF Awaits, Tries
  <2>5. ~Awaits(q)'
    BY <1>6, <2>1, <2>4 DEF Awaits, Goes
  <2>6. Owned(p)'
    BY <1>1, <1>2, <1>3, <1>6, <2>1, <2>3, <2>5
       DEF Goes, Owned, Placed, ReclaimerInv, OwnerInv, HasReclaimer, HasLock, Awaits, Looks, Tries, Asked
  <2>. QED
    BY <1>1, <1>3, <1>6, <2>4, <2>6, PathsAlone
<1>7. CASE /\ Here(p) # NoInode /\ seen'[p] = Observed(p) /\ Observed(p)[2] # "live"
           /\ task[p] = "probe lock" /\ Goes(p, "see", "confirm lock")
  <2>1. Here(p) = look[p]
    BY <1>1, <1>7 DEF OwnerInv, Here, PathOf, ForReclaimer, Looks
  <2>2. seen'[p][2] = "stale" /\ seen'[p][1] = look[p] /\ look[p][1] \notin running
    BY <1>7, <2>1, ObservedIs
  <2>3. Owned(p)'
    BY <1>1, <1>2, <1>3, <1>7, <2>2
       DEF Goes, Owned, Placed, ReclaimerInv, OwnerInv, HasReclaimer, HasLock, Awaits, Looks, Tries, Asked,
           Quiet
  <2>4. Awaits(p)' => Awaits(p)
    BY <1>7 DEF Awaits, Goes, Tries
  <2>. QED
    BY <1>1, <1>3, <1>7, <2>3, <2>4, PathsAlone
<1>8. CASE /\ seen' = seen /\ Observed(p) = seen[p]
           /\ \/ task[p] = "confirm lock" /\ Goes(p, "see", "recheck lock")
              \/ task[p] = "recheck lock" /\ Goes(p, "assert", "stale lock")
  <2>1. Owned(p)'
    BY <1>1, <1>2, <1>3, <1>8
       DEF Goes, Owned, Placed, ReclaimerInv, OwnerInv, HasReclaimer, HasLock, Awaits, Looks, Tries, Asked,
           Quiet
  <2>2. Awaits(p)' => Awaits(p)
    BY <1>8 DEF Awaits, Goes, Tries
  <2>3. \E a, t : Goes(p, a, t)
    BY <1>8
  <2>. QED
    BY <1>1, <1>3, <2>1, <2>2, <2>3, PathsAlone
<1>9. ~(Observed(p) = seen[p] /\ task[p] = "recheck reclaimer")
  BY <1>1, ObservedIs DEF ReclaimerInv, Tries
<1>. QED
  BY <1>4, <1>5, <1>6, <1>7, <1>8, <1>9

(* Whoever is about to take its own lock away finds it there.              *)
LEMMA FindsItsOwn ==
  ASSUME HistoryLockInv, NEW p \in running, at[p] \in Asked,
         task[p] \in {"failed reclaimer", "release reclaimer", "failed lock", "release lock"}
  PROVE  Here(p) = Own(p) /\ Wanted(p) = Own(p) /\ Own(p) # NoInode
<1>1. ReclaimerInv(p) /\ OwnerInv(p) /\ p \in Stores /\ p \in Anyone
  BY DEF HistoryLockInv, LockTypes, Anyone
<1>2. <<p, "lock">> # NoInode /\ <<p, "reclaimer">> # NoInode
  BY <1>1, Inodes DEF Paths
<1>3. Wanted(p) = Own(p)
  BY DEF Wanted
<1>4. CASE task[p] \in {"failed reclaimer", "release reclaimer"}
  BY <1>1, <1>2, <1>3, <1>4 DEF ReclaimerInv, HasReclaimer, Here, Own, PathOf, ForReclaimer
<1>5. CASE task[p] \in {"failed lock", "release lock"}
  BY <1>1, <1>2, <1>3, <1>5 DEF OwnerInv, HasLock, Here, Own, PathOf, ForReclaimer
<1>. QED
  BY <1>4, <1>5

LEMMA AssertOwnedKeeps ==
  ASSUME HistoryLockInv, NEW p \in Stores, AssertOwned(p)
  PROVE  HistoryLockInv'
<1>1. /\ p \in running /\ at[p] = "assert" /\ LockTypes /\ Placed(p) /\ ReclaimerInv(p) /\ OwnerInv(p)
  BY Standing DEF AssertOwned
<1>2. task[p] \in {"failed reclaimer", "release reclaimer", "stale lock", "failed lock", "release lock"}
  BY <1>1 DEF Placed
<1>3. /\ named' = named /\ look' = look /\ seen' = seen /\ won' = won /\ Quiet(p)
  BY <1>1 DEF AssertOwned, names, Quiet, LockTypes
<1>4. \/ Here(p) = Wanted(p) /\ Goes(p, "rename", task[p])
      \/ task[p] = "stale lock" /\ Goes(p, "assert", "release reclaimer")
  <2>1. CASE task[p] = "stale lock"
    <3>1. ~Releasing(p)
      BY <2>1 DEF Releasing
    <3>2. (Here(p) = Wanted(p) /\ Then(p, "rename")) \/ Fail(p)
      BY <3>1 DEF AssertOwned
    <3>. QED
      BY <1>1, <2>1, <3>2, ThenGoes, FailLeads DEF FailGoes, Tries
  <2>2. CASE task[p] # "stale lock"
    <3>1. Here(p) = Own(p) /\ Wanted(p) = Own(p) /\ Own(p) # NoInode
      BY <1>1, <1>2, <2>2, FindsItsOwn DEF Asked
    <3>2. Then(p, "rename")
      BY <3>1 DEF AssertOwned
    <3>. QED
      BY <1>1, <3>1, <3>2, ThenGoes
  <2>. QED
    BY <2>1, <2>2
<1>5. Awaits(p)' => Awaits(p)
  BY <1>4, <1>2 DEF Awaits, Goes, Tries
<1>6. task[p] = "stale lock" => Wanted(p) = seen[p][1] /\ Here(p) = named["lock"]
  BY DEF Wanted, Here, PathOf, ForReclaimer
<1>7. Owned(p)'
  BY <1>1, <1>2, <1>3, <1>4, <1>6
     DEF Goes, Owned, Placed, ReclaimerInv, OwnerInv, HasReclaimer, HasLock, Awaits, Looks, Tries, Asked, Quiet
<1>8. \E a, t : Goes(p, a, t)
  BY <1>4
<1>. QED
  BY <1>1, <1>3, <1>5, <1>7, <1>8, PathsAlone

LEMMA RenameAsideKeeps ==
  ASSUME HistoryLockInv, NEW p \in Stores, RenameAside(p)
  PROVE  HistoryLockInv'
<1>1. /\ p \in running /\ at[p] = "rename" /\ LockTypes /\ Placed(p) /\ ReclaimerInv(p) /\ OwnerInv(p)
      /\ p \in Anyone
  BY Standing DEF RenameAside
<1>2. task[p] \in {"failed reclaimer", "release reclaimer", "stale lock", "failed lock", "release lock"}
  BY <1>1 DEF Placed
<1>3. /\ look' = look /\ seen' = seen /\ won' = won /\ Quiet(p)
  <2>1. aside' = aside \/ aside' = [aside EXCEPT ![p] = Here(p)]
    BY <1>1 DEF RenameAside, names
  <2>2. /\ DOMAIN aside' = Anyone
        /\ \A q \in Stores \ {p} : aside'[q] = aside[q]
    BY <1>1, <2>1 DEF LockTypes, Anyone
  <2>. QED
    BY <1>1, <2>2 DEF RenameAside, Quiet, LockTypes
<1>4. Here(p) = Wanted(p) /\ (task[p] # "stale lock" => Here(p) = Own(p) /\ Here(p) # NoInode)
  <2>1. CASE task[p] = "stale lock"
    BY <1>1, <2>1 DEF OwnerInv, Wanted, Here, PathOf, ForReclaimer
  <2>2. CASE task[p] # "stale lock"
    BY <1>1, <1>2, <2>2, FindsItsOwn DEF Asked
  <2>. QED
    BY <2>1, <2>2
<1>5. CASE Here(p) = NoInode
  <2>1. named' = named /\ task[p] = "stale lock" /\ Fail(p)
    BY <1>4, <1>5 DEF RenameAside, Releasing, names
  <2>2. Goes(p, "assert", "release reclaimer")
    BY <1>1, <2>1, FailLeads DEF FailGoes, Tries
  <2>3. Awaits(p)' => Awaits(p)
    BY <2>2 DEF Awaits, Goes, Tries
  <2>4. Owned(p)'
    BY <1>1, <1>3, <2>1, <2>2
       DEF Goes, Owned, Placed, ReclaimerInv, OwnerInv, HasReclaimer, HasLock, Awaits, Looks, Tries, Asked,
           Quiet
  <2>. QED
    BY <1>1, <1>3, <2>1, <2>2, <2>3, <2>4, PathsAlone
<1>6. CASE Here(p) # NoInode
  <2>1. /\ named' = [named EXCEPT ![PathOf(task[p])] = NoInode]
        /\ aside' = [aside EXCEPT ![p] = Here(p)]
        /\ Goes(p, "confirm", task[p])
    BY <1>1, <1>6, ThenGoes DEF RenameAside
  <2>2. /\ task[p] \in {"failed reclaimer", "release reclaimer"} =>
             named'["reclaimer"] = NoInode /\ named'["lock"] = named["lock"]
        /\ task[p] \in {"stale lock", "failed lock", "release lock"} =>
             named'["lock"] = NoInode /\ named'["reclaimer"] = named["reclaimer"]
        /\ NamedOk
    BY <1>1, <1>2, <2>1 DEF PathOf, ForReclaimer, LockTypes, Paths, NamedOk
  <2>3. task[p] = "stale lock" => named["lock"][1] \notin running
    BY <1>1 DEF OwnerInv
  <2>4. Displaced(p)
    BY <1>1, <1>2, <2>1, <2>2, <2>3
       DEF Displaced, HasReclaimer, HasLock, Awaits, Goes, Tries, Asked
  <2>5. aside'[p] = Wanted(p) /\ Wanted(p)' = Wanted(p)
    <3>1. aside'[p] = Here(p)
      BY <1>1, <2>1 DEF LockTypes
    <3>2. Wanted(p)' = Wanted(p)
      BY <1>3, <2>1 DEF Wanted, Own, Goes
    <3>. QED
      BY <1>4, <3>1, <3>2
  <2>6. Placed(p)'
    BY <1>1, <1>2, <1>3, <2>1 DEF Placed, Goes, Asked
  <2>7. ReclaimerInv(p)'
    BY <1>1, <1>2, <1>3, <2>1, <2>2
       DEF Goes, ReclaimerInv, HasReclaimer, Awaits, Looks, Tries, Asked
  <2>8. OwnerInv(p)'
    BY <1>1, <1>2, <1>3, <2>1, <2>2, <2>5
       DEF Goes, OwnerInv, HasLock, Looks, Tries, Asked, Quiet
  <2>. QED
    BY <1>1, <1>3, <2>1, <2>2, <2>4, <2>6, <2>7, <2>8, StepKeeps DEF Owned
<1>. QED
  BY <1>5, <1>6

LEMMA ConfirmAsideKeeps ==
  ASSUME HistoryLockInv, NEW p \in Stores, ConfirmAside(p)
  PROVE  HistoryLockInv'
<1>1. /\ p \in running /\ at[p] = "confirm" /\ LockTypes /\ Placed(p) /\ ReclaimerInv(p) /\ OwnerInv(p)
  BY Standing DEF ConfirmAside
<1>2. task[p] \in {"failed reclaimer", "release reclaimer", "stale lock", "failed lock", "release lock"}
  BY <1>1 DEF Placed, Asked
<1>3. aside[p] = Wanted(p)
  BY <1>1 DEF OwnerInv
<1>4. /\ named' = named /\ look' = look /\ seen' = seen /\ won' = won /\ Quiet(p) /\ Removed(p)
  BY <1>1, <1>3 DEF ConfirmAside, Quiet, LockTypes, Anyone
<1>5. \/ task[p] = "stale lock" /\ Goes(p, "link", "publish lock")
      \/ task[p] = "release reclaimer" /\ won[p] /\ Goes(p, "holds", "release reclaimer")
      \/ task[p] \in {"release reclaimer", "failed reclaimer"} /\ ~won[p] /\ Goes(p, "refused", task[p])
      \/ task[p] = "failed lock" /\ Goes(p, "assert", "release reclaimer")
      \/ task[p] = "release lock" /\ Goes(p, "gone", "release lock")
  BY <1>1, <1>4, RemovedLeads DEF RemovedGoes, FailGoes, Asked, Tries, Looks
<1>6. Awaits(p)' => Awaits(p)
  BY <1>2, <1>5 DEF Awaits, Goes, Tries
<1>7. Placed(p)'
  BY <1>4, <1>5 DEF Placed, Goes, Asked
<1>8. ReclaimerInv(p)'
  BY <1>1, <1>4, <1>5 DEF Goes, ReclaimerInv, HasReclaimer, Awaits, Looks, Tries, Asked
<1>9. OwnerInv(p)'
  BY <1>1, <1>4, <1>5 DEF Goes, OwnerInv, HasLock, Looks, Tries, Asked
<1>10. \E a, t : Goes(p, a, t)
  BY <1>5
<1>. QED
  BY <1>1, <1>4, <1>6, <1>7, <1>8, <1>9, <1>10, PathsAlone DEF Owned

(* Nothing that is another's is ever renamed aside.                        *)
LEMMA NothingToRestore ==
  ASSUME HistoryLockInv, NEW p \in Stores
  PROVE  ~SeeBeforeRestore(p) /\ ~PutBack(p)
<1>1. Placed(p)
  BY DEF HistoryLockInv
<1>. QED
  BY <1>1 DEF Placed, Asked, SeeBeforeRestore, PutBack, Stands

LEMMA OwnerStepsKeep ==
  ASSUME HistoryLockInv, NEW p \in Stores, FindLost(p) \/ CloseStore(p)
  PROVE  HistoryLockInv'
<1>1. /\ p \in running /\ at[p] \in {"holds", "poisoned"} /\ LockTypes /\ Placed(p)
      /\ ReclaimerInv(p) /\ OwnerInv(p)
  BY Standing DEF FindLost, CloseStore
<1>2. task[p] = "release reclaimer" /\ won[p]
  BY <1>1 DEF Placed, Asked
<1>3. /\ named' = named /\ look' = look /\ seen' = seen /\ won' = won /\ Quiet(p)
  BY <1>1 DEF FindLost, CloseStore, names, Quiet, LockTypes
<1>4. Goes(p, "poisoned", "release reclaimer") \/ Goes(p, "assert", "release lock")
  BY <1>1, <1>2, DoGoes, ThenGoes DEF FindLost, CloseStore
<1>5. Awaits(p)' => Awaits(p)
  BY <1>4 DEF Awaits, Goes, Tries
<1>6. Owned(p)'
  BY <1>1, <1>2, <1>3, <1>4
     DEF Goes, Owned, Placed, ReclaimerInv, OwnerInv, HasReclaimer, HasLock, Awaits, Looks, Tries, Asked, Quiet
<1>7. \E a, t : Goes(p, a, t)
  BY <1>4
<1>. QED
  BY <1>1, <1>3, <1>5, <1>6, <1>7, PathsAlone

LEMMA StoreDiesKeeps ==
  ASSUME HistoryLockInv, UNCHANGED <<names, at, task, seen, look, won>>, running' \subseteq running
  PROVE  HistoryLockInv'
<1>1. UNCHANGED <<named, aside>>
  BY DEF names
<1>2. LockTypes'
  BY <1>1 DEF HistoryLockInv, LockTypes
<1>3. ASSUME NEW p \in Stores
      PROVE  Placed(p)' /\ ReclaimerInv(p)' /\ OwnerInv(p)'
  <2>1. Placed(p) /\ ReclaimerInv(p) /\ OwnerInv(p)
    BY DEF HistoryLockInv
  <2>2. Placed(p)' /\ ReclaimerInv(p)'
    BY <1>1, <2>1 DEF Placed, ReclaimerInv, HasReclaimer, Awaits
  <2>3. OwnerInv(p)'
    BY <1>1, <2>1 DEF OwnerInv, HasLock, Wanted, Own
  <2>. QED
    BY <2>2, <2>3
<1>. QED
  BY <1>2, <1>3 DEF HistoryLockInv

LEMMA LockInitInv ==
  ASSUME LockInit, ReclaimerLives
  PROVE  HistoryLockInv
<1>1. PICK left \in SUBSET Paths :
        named = [x \in Paths |-> IF x \in left THEN <<DeadStore, x>> ELSE NoInode]
  BY DEF LockInit
<1>2. /\ running = Stores /\ at = [p \in Stores |-> "link"]
      /\ task = [p \in Stores |-> "publish reclaimer"]
      /\ DOMAIN look = Stores /\ DOMAIN seen = Stores /\ DOMAIN aside = Anyone
      /\ won = [p \in Stores |-> FALSE]
  BY DEF LockInit
<1>3. LockTypes
  BY <1>1, <1>2 DEF LockTypes, Anyone
<1>4. ASSUME NEW p \in Stores
      PROVE  Placed(p) /\ ReclaimerInv(p) /\ OwnerInv(p)
  <2>1. named["reclaimer"] # <<p, "reclaimer">>
    <3>1. p # DeadStore /\ p \in Anyone /\ DeadStore \in Anyone
      BY DeadStoreAssumption DEF Anyone
    <3>. QED
      BY <1>1, <3>1, Inodes DEF Paths
  <2>. QED
    BY <1>2, <2>1
       DEF Placed, ReclaimerInv, OwnerInv, HasReclaimer, HasLock, Awaits, Looks, Tries, Asked
<1>. QED
  BY <1>3, <1>4 DEF HistoryLockInv

(* Whose live lock is at its path has the history for itself.              *)
LEMMA LocksTell ==
  ASSUME \A p \in Stores : Opened(p) => named["lock"] = <<p, "lock">>
  PROVE  OneHistoryOwner
<1>1. ASSUME NEW p \in Stores, NEW q \in Stores, Opened(p), Opened(q)
      PROVE  p = q
  BY <1>1, Inodes DEF Anyone, Paths
<1>2. ASSUME NEW p \in Stores, Opened(p)
      PROVE  LinksOf(<<p, "lock">>) >= 1
  <2>. DEFINE i == <<p, "lock">>
              X == {x \in Paths : named[x] = i}
              Y == {q \in Anyone : alias[q] = i}
              Z == {q \in Anyone : aside[q] = i}
  <2>1. IsFiniteSet(Paths) /\ IsFiniteSet(Anyone)
    <3>1. IsFiniteSet({"lock"}) /\ IsFiniteSet({"reclaimer"}) /\ IsFiniteSet({DeadStore})
      BY FS_Singleton
    <3>2. IsFiniteSet({"lock"} \cup {"reclaimer"}) /\ IsFiniteSet(Stores \cup {DeadStore})
      BY <3>1, StoresAssumption, FS_Union
    <3>3. {"lock"} \cup {"reclaimer"} = Paths
      BY DEF Paths
    <3>. QED
      BY <3>2, <3>3 DEF Anyone
  <2>2. IsFiniteSet(X) /\ IsFiniteSet(Y) /\ IsFiniteSet(Z)
    BY <2>1, FS_Subset
  <2>3. X # {}
    BY <1>2 DEF Paths
  <2>4. Cardinality(X) \in Nat \ {0} /\ Cardinality(Y) \in Nat /\ Cardinality(Z) \in Nat
    BY <2>2, <2>3, FS_CardinalityType, FS_EmptySet
  <2>. HIDE DEF X, Y, Z
  <2>5. LinksOf(i) = Cardinality(X) + Cardinality(Y) + Cardinality(Z)
    BY DEF LinksOf, X, Y, Z
  <2>. QED
    BY <2>4, <2>5
<1>. QED
  BY <1>1, <1>2 DEF OneHistoryOwner

(* As long as the reclaimer path never names the file of a process that    *)
(* has died, at most one live process has the history open, and its lock   *)
(* is there: however many start, die and leave, and whatever ownership     *)
(* locks the dead have left behind.                                        *)
THEOREM HistoryHasOneOwner == LockSpec /\ []ReclaimerLives => []OneHistoryOwner
<1>1. LockInit /\ ReclaimerLives => HistoryLockInv
  BY LockInitInv
<1>2. HistoryLockInv /\ ReclaimerLives /\ [LockNext]_lockVars => HistoryLockInv'
  <2>. SUFFICES ASSUME HistoryLockInv, ReclaimerLives, [LockNext]_lockVars
                PROVE  HistoryLockInv'
    OBVIOUS
  <2>1. CASE UNCHANGED lockVars
    BY <2>1, StoreDiesKeeps DEF lockVars, names
  <2>2. ASSUME NEW p \in Stores,
               \/ Publish(p) \/ Inspect(p) \/ Quarantine(p)
               \/ FindLost(p) \/ CloseStore(p) \/ StoreDies(p)
        PROVE  HistoryLockInv'
    <3>1. CASE Publish(p)
      BY <3>1, LinkCandidateKeeps, UnlinkCandidateKeeps, VerifyPublishedKeeps DEF Publish
    <3>2. CASE Inspect(p)
      BY <3>2, SeePathKeeps, ReadLockKeeps DEF Inspect
    <3>3. CASE Quarantine(p)
      BY <3>3, AssertOwnedKeeps, RenameAsideKeeps, ConfirmAsideKeeps, NothingToRestore DEF Quarantine
    <3>4. CASE FindLost(p) \/ CloseStore(p)
      BY <3>4, OwnerStepsKeep
    <3>5. CASE StoreDies(p)
      <4>1. UNCHANGED <<names, at, task, seen, look, won>> /\ running' \subseteq running
        BY <3>5 DEF StoreDies
      <4>. QED
        BY <4>1, StoreDiesKeeps
    <3>. QED
      BY <2>2, <3>1, <3>2, <3>3, <3>4, <3>5
  <2>. QED
    BY <2>1, <2>2 DEF LockNext
<1>3. HistoryLockInv => OneHistoryOwner
  <2>. SUFFICES ASSUME HistoryLockInv PROVE OneHistoryOwner
    OBVIOUS
  <2>1. ASSUME NEW p \in Stores, Opened(p)
        PROVE  named["lock"] = <<p, "lock">>
    <3>1. p \in running /\ won[p] /\ (at[p] = "holds" \/ task[p] = "release reclaimer")
      BY <2>1 DEF Opened
    <3>2. OwnerInv(p)
      BY DEF HistoryLockInv
    <3>. QED
      BY <3>1, <3>2 DEF OwnerInv, HasLock
  <2>. QED
    BY <2>1, LocksTell
<1>. QED
  BY <1>1, <1>2, <1>3, PTL DEF LockSpec

-----------------------------------------------------------------------------
(* CoreLock: the first process that comes is not refused.                  *)
(*                                                                         *)
(* A process that finds nobody else under way finds what the dead process  *)
(* left and nothing else: CoreAlone follows it from there, call by call,   *)
(* until it has its lock.                                                  *)
OfGhost == <<Ghost, 0>>
LeftOf(f, p) ==
  f[Ghost] \in {None, OfGhost} /\ \A q \in Procs \ {p} : f[q] = None

CoreTypes ==
  /\ living \subseteq Procs /\ DOMAIN point = Procs /\ DOMAIN snap = Procs /\ DOMAIN residue = Procs
  /\ DOMAIN cand = Everyone /\ DOMAIN quar = Everyone
  /\ try \in [Procs -> {0, 1}]
  /\ \A p \in Procs : point[p] = "start" => cand[p] = None /\ quar[p] = None /\ try[p] = 0

CoreAlone(p) ==
  (\A q \in Procs \ {p} : point[q] = "start") =>
    /\ point[p] # "refused"
    /\ point[p] \in {"start", "scan", "restore", "create", "link", "exists", "read", "reread",
                     "displace", "displaced"} =>
         /\ LeftOf(cand, p) /\ LeftOf(quar, p)
         /\ point[p] # "displaced" => quar[p] = None /\ lockPath \in {None, OfGhost}
         /\ point[p] \notin {"link", "exists"} => cand[p] = None
    /\ point[p] = "start" /\ lockPath # None => quar[Ghost] = None
    /\ point[p] \in {"scan", "restore"} => try[p] = 0 /\ lockPath = None
    /\ point[p] = "restore" => residue[p] = Ghost
    /\ point[p] \in {"create", "link", "exists", "read", "reread", "displace", "displaced"} =>
         quar[Ghost] = None
    /\ point[p] \in {"create", "link"} /\ try[p] = 1 => lockPath = None
    /\ point[p] \in {"exists", "read", "reread", "displace"} => lockPath = OfGhost /\ try[p] = 0
    /\ point[p] \in {"read", "reread", "displace", "displaced"} => cand[Ghost] = None
    /\ point[p] \in {"reread", "displace", "displaced"} => snap[p] = OfGhost
    /\ point[p] = "displaced" => quar[p] = OfGhost /\ lockPath = None /\ try[p] = 0

CoreInv == CoreTypes /\ \A p \in Procs : CoreAlone(p)

LEMMA CoreInodes ==
  /\ OfGhost # None /\ Ghost \notin Procs
  /\ \A p \in Procs, n \in {0, 1} : <<p, n>> # None /\ <<p, n>> # OfGhost
BY NoneAssumption, GhostAssumption DEF OfGhost

(* The only link of a lock that was published or displaced.                *)
LEMMA OnlyLink ==
  ASSUME NEW i, \A q \in Everyone : cand[q] # i,
         NEW p \in Everyone,
         \/ lockPath = i /\ \A q \in Everyone : quar[q] # i
         \/ lockPath # i /\ quar[p] = i /\ \A q \in Everyone \ {p} : quar[q] # i
  PROVE  Links(i) = 1
<1>1. {q \in Everyone : cand[q] = i} = {}
  OBVIOUS
<1>2. Cardinality({q \in Everyone : cand[q] = i}) = 0
  BY <1>1, FS_EmptySet
<1>3. CASE lockPath = i /\ \A q \in Everyone : quar[q] # i
  <2>1. {q \in Everyone : quar[q] = i} = {}
    BY <1>3
  <2>2. Cardinality({q \in Everyone : quar[q] = i}) = 0
    BY <2>1, FS_EmptySet
  <2>. QED
    BY <1>2, <1>3, <2>2 DEF Links
<1>4. CASE lockPath # i /\ quar[p] = i /\ \A q \in Everyone \ {p} : quar[q] # i
  <2>1. {q \in Everyone : quar[q] = i} = {p}
    BY <1>4
  <2>2. Cardinality({q \in Everyone : quar[q] = i}) = 1
    BY <2>1, FS_Singleton
  <2>. QED
    BY <1>2, <1>4, <2>2 DEF Links
<1>. QED
  BY <1>3, <1>4

LEMMA SeeLockAlone ==
  ASSUME CoreInv, NEW p \in Procs, SeeLock(p)
  PROVE  CoreTypes' /\ CoreAlone(p)' /\ point'[p] # "start"
<1>1. CoreTypes /\ CoreAlone(p)
  BY DEF CoreInv
<1>2. CoreTypes' /\ point'[p] # "start"
  BY <1>1 DEF SeeLock, At, Advance, files, Mine, WithoutAliases, CoreTypes, Everyone
<1>3. ASSUME \A q \in Procs \ {p} : point'[q] = "start"
      PROVE  CoreAlone(p)'
  <2>1. \A q \in Procs \ {p} : point[q] = "start"
    BY <1>1, <1>3 DEF SeeLock, At, Advance, CoreTypes
  <2>. QED
    BY <1>1, <1>3, <2>1, CoreInodes DEF SeeLock, At, Advance, files, Mine, WithoutAliases, CoreTypes, Everyone, CoreAlone, LeftOf
<1>. QED
  BY <1>2, <1>3 DEF CoreAlone

LEMMA ScanQuarantinesAlone ==
  ASSUME CoreInv, NEW p \in Procs, ScanQuarantines(p)
  PROVE  CoreTypes' /\ CoreAlone(p)' /\ point'[p] # "start"
<1>1. CoreTypes /\ CoreAlone(p)
  BY DEF CoreInv
<1>2. CoreTypes' /\ point'[p] # "start"
  BY <1>1 DEF ScanQuarantines, Quarantined, At, Advance, files, Mine, WithoutAliases, CoreTypes, Everyone
<1>3. ASSUME \A q \in Procs \ {p} : point'[q] = "start"
      PROVE  CoreAlone(p)'
  <2>1. \A q \in Procs \ {p} : point[q] = "start"
    BY <1>1, <1>3 DEF ScanQuarantines, Quarantined, At, Advance, CoreTypes
  <2>2. \A q \in Procs : quar[q] = None
    BY <1>1, <2>1 DEF ScanQuarantines, At, CoreAlone, LeftOf
  <2>3. Quarantined = {} \/ Quarantined = {Ghost}
    BY <2>2 DEF Quarantined, Everyone
  <2>4. ~(Cardinality(Quarantined) > 1 \/ Quarantined \cap living # {})
    <3>1. Cardinality(Quarantined) \in {0, 1}
      BY <2>3, FS_EmptySet, FS_Singleton
    <3>2. Quarantined \cap living = {}
      BY <1>1, <2>3, CoreInodes DEF CoreTypes
    <3>. QED
      BY <3>1, <3>2
  <2>5. Quarantined = {} => quar[Ghost] = None
    BY DEF Quarantined, Everyone
  <2>6. \/ Quarantined = {} /\ Advance(p, "create") /\ UNCHANGED residue
        \/ residue' = [residue EXCEPT ![p] = Ghost] /\ Advance(p, "restore")
    BY <2>3, <2>4 DEF ScanQuarantines
  <2>. QED
    BY <1>1, <1>3, <2>1, <2>2, <2>5, <2>6, CoreInodes DEF ScanQuarantines, At, Advance, files, Mine, WithoutAliases, CoreTypes, Everyone, CoreAlone, LeftOf
<1>. QED
  BY <1>2, <1>3 DEF CoreAlone

LEMMA RestoreQuarantineAlone ==
  ASSUME CoreInv, NEW p \in Procs, RestoreQuarantine(p)
  PROVE  CoreTypes' /\ CoreAlone(p)' /\ point'[p] # "start"
<1>1. CoreTypes /\ CoreAlone(p)
  BY DEF CoreInv
<1>2. CoreTypes' /\ point'[p] # "start"
  BY <1>1 DEF RestoreQuarantine, At, Advance, files, Mine, WithoutAliases, CoreTypes, Everyone
<1>3. ASSUME \A q \in Procs \ {p} : point'[q] = "start"
      PROVE  CoreAlone(p)'
  <2>1. \A q \in Procs \ {p} : point[q] = "start"
    BY <1>1, <1>3 DEF RestoreQuarantine, At, Advance, CoreTypes
  <2>2. /\ residue[p] = Ghost /\ lockPath = None /\ cand' = cand /\ try' = try
        /\ quar[Ghost] \in {None, OfGhost} /\ cand[p] = None /\ LeftOf(cand, p) /\ LeftOf(quar, p)
        /\ quar[p] = None /\ try[p] = 0
    BY <1>1, <2>1 DEF RestoreQuarantine, At, CoreAlone, LeftOf
  <2>3. lockPath' \in {None, OfGhost} /\ quar'[Ghost] = None /\ \A q \in Procs : quar'[q] = quar[q]
    BY <1>1, <2>2, CoreInodes DEF RestoreQuarantine, CoreTypes, Everyone
  <2>. QED
    BY <1>1, <1>3, <2>1, <2>2, <2>3, CoreInodes DEF RestoreQuarantine, At, Advance, files, Mine, WithoutAliases, CoreTypes, Everyone, CoreAlone, LeftOf
<1>. QED
  BY <1>2, <1>3 DEF CoreAlone

LEMMA CreateCandidateAlone ==
  ASSUME CoreInv, NEW p \in Procs, CreateCandidate(p)
  PROVE  CoreTypes' /\ CoreAlone(p)' /\ point'[p] # "start"
<1>1. CoreTypes /\ CoreAlone(p)
  BY DEF CoreInv
<1>2. CoreTypes' /\ point'[p] # "start"
  BY <1>1 DEF CreateCandidate, At, Advance, files, Mine, WithoutAliases, CoreTypes, Everyone
<1>3. ASSUME \A q \in Procs \ {p} : point'[q] = "start"
      PROVE  CoreAlone(p)'
  <2>1. \A q \in Procs \ {p} : point[q] = "start"
    BY <1>1, <1>3 DEF CreateCandidate, At, Advance, CoreTypes
  <2>. QED
    BY <1>1, <1>3, <2>1, CoreInodes DEF CreateCandidate, At, Advance, files, Mine, WithoutAliases, CoreTypes, Everyone, CoreAlone, LeftOf
<1>. QED
  BY <1>2, <1>3 DEF CoreAlone

LEMMA LinkLockAlone ==
  ASSUME CoreInv, NEW p \in Procs, LinkLock(p)
  PROVE  CoreTypes' /\ CoreAlone(p)' /\ point'[p] # "start"
<1>1. CoreTypes /\ CoreAlone(p)
  BY DEF CoreInv
<1>2. CoreTypes' /\ point'[p] # "start"
  BY <1>1 DEF LinkLock, At, Advance, files, Mine, WithoutAliases, CoreTypes, Everyone
<1>3. ASSUME \A q \in Procs \ {p} : point'[q] = "start"
      PROVE  CoreAlone(p)'
  <2>1. \A q \in Procs \ {p} : point[q] = "start"
    BY <1>1, <1>3 DEF LinkLock, At, Advance, CoreTypes
  <2>. QED
    BY <1>1, <1>3, <2>1, CoreInodes DEF LinkLock, At, Advance, files, Mine, WithoutAliases, CoreTypes, Everyone, CoreAlone, LeftOf
<1>. QED
  BY <1>2, <1>3 DEF CoreAlone

LEMMA DropCandidateAlone ==
  ASSUME CoreInv, NEW p \in Procs, DropCandidate(p)
  PROVE  CoreTypes' /\ CoreAlone(p)' /\ point'[p] # "start"
<1>1. CoreTypes /\ CoreAlone(p)
  BY DEF CoreInv
<1>2. CoreTypes' /\ point'[p] # "start"
  BY <1>1 DEF DropCandidate, At, Advance, files, Mine, WithoutAliases, CoreTypes, Everyone
<1>3. ASSUME \A q \in Procs \ {p} : point'[q] = "start"
      PROVE  CoreAlone(p)'
  <2>1. \A q \in Procs \ {p} : point[q] = "start"
    BY <1>1, <1>3 DEF DropCandidate, At, Advance, CoreTypes
  <2>. QED
    BY <1>1, <1>3, <2>1, CoreInodes DEF DropCandidate, At, Advance, files, Mine, WithoutAliases, CoreTypes, Everyone, CoreAlone, LeftOf
<1>. QED
  BY <1>2, <1>3 DEF CoreAlone

LEMMA DropAndRepairAlone ==
  ASSUME CoreInv, NEW p \in Procs, DropAndRepair(p)
  PROVE  CoreTypes' /\ CoreAlone(p)' /\ point'[p] # "start"
<1>1. CoreTypes /\ CoreAlone(p)
  BY DEF CoreInv
<1>2. CoreTypes' /\ point'[p] # "start"
  BY <1>1 DEF DropAndRepair, At, Advance, files, Mine, WithoutAliases, CoreTypes, Everyone
<1>3. ASSUME \A q \in Procs \ {p} : point'[q] = "start"
      PROVE  CoreAlone(p)'
  <2>1. \A q \in Procs \ {p} : point[q] = "start"
    BY <1>1, <1>3 DEF DropAndRepair, At, Advance, CoreTypes
  <2>. QED
    BY <1>1, <1>3, <2>1, CoreInodes DEF DropAndRepair, At, Advance, files, Mine, WithoutAliases, CoreTypes, Everyone, CoreAlone, LeftOf
<1>. QED
  BY <1>2, <1>3 DEF CoreAlone

LEMMA ReadOwnerAlone ==
  ASSUME CoreInv, NEW p \in Procs, ReadOwner(p)
  PROVE  CoreTypes' /\ CoreAlone(p)' /\ point'[p] # "start"
<1>1. CoreTypes /\ CoreAlone(p)
  BY DEF CoreInv
<1>2. CoreTypes' /\ point'[p] # "start"
  BY <1>1 DEF ReadOwner, Again, At, Advance, files, Mine, WithoutAliases, CoreTypes, Everyone
<1>3. ASSUME \A q \in Procs \ {p} : point'[q] = "start"
      PROVE  CoreAlone(p)'
  <2>1. \A q \in Procs \ {p} : point[q] = "start"
    BY <1>1, <1>3 DEF ReadOwner, Again, At, Advance, CoreTypes
  <2>2. lockPath = OfGhost /\ OfGhost[1] = Ghost /\ Links(OfGhost) = 1
    <3>1. \A q \in Everyone : cand[q] # OfGhost /\ quar[q] # OfGhost
      BY <1>1, <2>1, CoreInodes DEF ReadOwner, At, CoreAlone, LeftOf, Everyone
    <3>2. lockPath = OfGhost /\ OfGhost[1] = Ghost /\ p \in Everyone
      BY <1>1, <2>1 DEF ReadOwner, At, CoreAlone, OfGhost, Everyone
    <3>. QED
      BY <3>1, <3>2, OnlyLink
  <2>. QED
    BY <1>1, <1>3, <2>1, <2>2, CoreInodes DEF ReadOwner, Again, At, Advance, files, Mine, WithoutAliases, CoreTypes, Everyone, CoreAlone, LeftOf
<1>. QED
  BY <1>2, <1>3 DEF CoreAlone

LEMMA RereadOwnerAlone ==
  ASSUME CoreInv, NEW p \in Procs, RereadOwner(p)
  PROVE  CoreTypes' /\ CoreAlone(p)' /\ point'[p] # "start"
<1>1. CoreTypes /\ CoreAlone(p)
  BY DEF CoreInv
<1>2. CoreTypes' /\ point'[p] # "start"
  BY <1>1 DEF RereadOwner, Again, At, Advance, files, Mine, WithoutAliases, CoreTypes, Everyone
<1>3. ASSUME \A q \in Procs \ {p} : point'[q] = "start"
      PROVE  CoreAlone(p)'
  <2>1. \A q \in Procs \ {p} : point[q] = "start"
    BY <1>1, <1>3 DEF RereadOwner, Again, At, Advance, CoreTypes
  <2>2. lockPath = OfGhost /\ OfGhost[1] = Ghost /\ Links(OfGhost) = 1
    <3>1. \A q \in Everyone : cand[q] # OfGhost /\ quar[q] # OfGhost
      BY <1>1, <2>1, CoreInodes DEF RereadOwner, At, CoreAlone, LeftOf, Everyone
    <3>2. lockPath = OfGhost /\ OfGhost[1] = Ghost /\ p \in Everyone
      BY <1>1, <2>1 DEF RereadOwner, At, CoreAlone, OfGhost, Everyone
    <3>. QED
      BY <3>1, <3>2, OnlyLink
  <2>. QED
    BY <1>1, <1>3, <2>1, <2>2, CoreInodes DEF RereadOwner, Again, At, Advance, files, Mine, WithoutAliases, CoreTypes, Everyone, CoreAlone, LeftOf
<1>. QED
  BY <1>2, <1>3 DEF CoreAlone

LEMMA DisplaceLockAlone ==
  ASSUME CoreInv, NEW p \in Procs, DisplaceLock(p)
  PROVE  CoreTypes' /\ CoreAlone(p)' /\ point'[p] # "start"
<1>1. CoreTypes /\ CoreAlone(p)
  BY DEF CoreInv
<1>2. CoreTypes' /\ point'[p] # "start"
  BY <1>1 DEF DisplaceLock, At, Advance, files, Mine, WithoutAliases, CoreTypes, Everyone
<1>3. ASSUME \A q \in Procs \ {p} : point'[q] = "start"
      PROVE  CoreAlone(p)'
  <2>1. \A q \in Procs \ {p} : point[q] = "start"
    BY <1>1, <1>3 DEF DisplaceLock, At, Advance, CoreTypes
  <2>. QED
    BY <1>1, <1>3, <2>1, CoreInodes DEF DisplaceLock, At, Advance, files, Mine, WithoutAliases, CoreTypes, Everyone, CoreAlone, LeftOf
<1>. QED
  BY <1>2, <1>3 DEF CoreAlone

LEMMA CheckDisplacedAlone ==
  ASSUME CoreInv, NEW p \in Procs, CheckDisplaced(p)
  PROVE  CoreTypes' /\ CoreAlone(p)' /\ point'[p] # "start"
<1>1. CoreTypes /\ CoreAlone(p)
  BY DEF CoreInv
<1>2. CoreTypes' /\ point'[p] # "start"
  BY <1>1 DEF CheckDisplaced, Again, At, Advance, files, Mine, WithoutAliases, CoreTypes, Everyone
<1>3. ASSUME \A q \in Procs \ {p} : point'[q] = "start"
      PROVE  CoreAlone(p)'
  <2>1. \A q \in Procs \ {p} : point[q] = "start"
    BY <1>1, <1>3 DEF CheckDisplaced, Again, At, Advance, CoreTypes
  <2>2. quar[p] = OfGhost /\ snap[p] = OfGhost /\ Links(OfGhost) = 1
    <3>1. /\ \A q \in Everyone : cand[q] # OfGhost
          /\ \A q \in Everyone \ {p} : quar[q] # OfGhost
      BY <1>1, <2>1, CoreInodes DEF CheckDisplaced, At, CoreAlone, LeftOf, Everyone
    <3>2. lockPath # OfGhost /\ quar[p] = OfGhost /\ snap[p] = OfGhost /\ p \in Everyone
      BY <1>1, <2>1, CoreInodes DEF CheckDisplaced, At, CoreAlone, Everyone
    <3>. QED
      BY <3>1, <3>2, OnlyLink
  <2>. QED
    BY <1>1, <1>3, <2>1, <2>2, CoreInodes DEF CheckDisplaced, Again, At, Advance, files, Mine, WithoutAliases, CoreTypes, Everyone, CoreAlone, LeftOf
<1>. QED
  BY <1>2, <1>3 DEF CoreAlone

LEMMA StartReleaseAlone ==
  ASSUME CoreInv, NEW p \in Procs, StartRelease(p)
  PROVE  CoreTypes' /\ CoreAlone(p)' /\ point'[p] # "start"
<1>1. CoreTypes /\ CoreAlone(p)
  BY DEF CoreInv
<1>2. CoreTypes' /\ point'[p] # "start"
  BY <1>1 DEF StartRelease, At, Advance, files, Mine, WithoutAliases, CoreTypes, Everyone
<1>3. ASSUME \A q \in Procs \ {p} : point'[q] = "start"
      PROVE  CoreAlone(p)'
  <2>1. \A q \in Procs \ {p} : point[q] = "start"
    BY <1>1, <1>3 DEF StartRelease, At, Advance, CoreTypes
  <2>. QED
    BY <1>1, <1>3, <2>1, CoreInodes DEF StartRelease, At, Advance, files, Mine, WithoutAliases, CoreTypes, Everyone, CoreAlone, LeftOf
<1>. QED
  BY <1>2, <1>3 DEF CoreAlone

LEMMA QuarantineOwnAlone ==
  ASSUME CoreInv, NEW p \in Procs, QuarantineOwn(p)
  PROVE  CoreTypes' /\ CoreAlone(p)' /\ point'[p] # "start"
<1>1. CoreTypes /\ CoreAlone(p)
  BY DEF CoreInv
<1>2. CoreTypes' /\ point'[p] # "start"
  BY <1>1 DEF QuarantineOwn, At, Advance, files, Mine, WithoutAliases, CoreTypes, Everyone
<1>3. ASSUME \A q \in Procs \ {p} : point'[q] = "start"
      PROVE  CoreAlone(p)'
  <2>1. \A q \in Procs \ {p} : point[q] = "start"
    BY <1>1, <1>3 DEF QuarantineOwn, At, Advance, CoreTypes
  <2>. QED
    BY <1>1, <1>3, <2>1, CoreInodes DEF QuarantineOwn, At, Advance, files, Mine, WithoutAliases, CoreTypes, Everyone, CoreAlone, LeftOf
<1>. QED
  BY <1>2, <1>3 DEF CoreAlone

LEMMA FinishReleaseAlone ==
  ASSUME CoreInv, NEW p \in Procs, FinishRelease(p)
  PROVE  CoreTypes' /\ CoreAlone(p)' /\ point'[p] # "start"
<1>1. CoreTypes /\ CoreAlone(p)
  BY DEF CoreInv
<1>2. CoreTypes' /\ point'[p] # "start"
  BY <1>1 DEF FinishRelease, At, Advance, files, Mine, WithoutAliases, CoreTypes, Everyone
<1>3. ASSUME \A q \in Procs \ {p} : point'[q] = "start"
      PROVE  CoreAlone(p)'
  <2>1. \A q \in Procs \ {p} : point[q] = "start"
    BY <1>1, <1>3 DEF FinishRelease, At, Advance, CoreTypes
  <2>. QED
    BY <1>1, <1>3, <2>1, CoreInodes DEF FinishRelease, At, Advance, files, Mine, WithoutAliases, CoreTypes, Everyone, CoreAlone, LeftOf
<1>. QED
  BY <1>2, <1>3 DEF CoreAlone

LEMMA CoreInitAlone == CoreLockInit => CoreInv
<1>. SUFFICES ASSUME CoreLockInit PROVE CoreInv
  OBVIOUS
<1>1. CoreTypes
  BY CoreInodes DEF CoreLockInit, CoreTypes, Everyone
<1>2. \A p \in Procs : CoreAlone(p)
  BY CoreInodes DEF CoreLockInit, CoreAlone, LeftOf, Everyone, OfGhost
<1>. QED
  BY <1>1, <1>2 DEF CoreInv

LEMMA CoreStep == CoreInv /\ [CoreLockNext]_coreLockVars => CoreInv'
<1>. SUFFICES ASSUME CoreInv, [CoreLockNext]_coreLockVars
              PROVE  CoreInv'
  OBVIOUS
<1>1. ASSUME NEW p \in Procs, Acquire(p) \/ Release(p)
      PROVE  CoreInv'
  <2>1. CoreTypes' /\ CoreAlone(p)' /\ point'[p] # "start"
    BY <1>1, SeeLockAlone, ScanQuarantinesAlone, RestoreQuarantineAlone, CreateCandidateAlone,
       LinkLockAlone, DropCandidateAlone, DropAndRepairAlone, ReadOwnerAlone, RereadOwnerAlone,
       DisplaceLockAlone, CheckDisplacedAlone, StartReleaseAlone, QuarantineOwnAlone,
       FinishReleaseAlone
       DEF Acquire, Release
  <2>2. ASSUME NEW q \in Procs, q # p
        PROVE  CoreAlone(q)'
    BY <2>1, <2>2 DEF CoreAlone
  <2>. QED
    BY <2>1, <2>2 DEF CoreInv
<1>2. CASE UNCHANGED <<files, point, try, snap, residue>> /\ living' \subseteq living
  <2>1. CoreTypes'
    BY <1>2 DEF CoreInv, CoreTypes, files
  <2>2. ASSUME NEW p \in Procs
        PROVE  CoreAlone(p)'
    BY <1>2, <2>2 DEF CoreInv, CoreAlone, LeftOf, files
  <2>. QED
    BY <2>1, <2>2 DEF CoreInv
<1>. QED
  BY <1>1, <1>2 DEF CoreLockNext, OwnerDies, coreLockVars, files

(* A process that wants the core's lock is refused only if another one     *)
(* came for it too: never because of what a dead process left behind.      *)
THEOREM DeadNeverBlockTheCore == CoreLockSpec => []DeadNeverBlock
<1>1. CoreInv => DeadNeverBlock
  BY DEF CoreInv, CoreAlone, DeadNeverBlock
<1>. QED
  BY <1>1, CoreInitAlone, CoreStep, PTL DEF CoreLockSpec

-----------------------------------------------------------------------------
(* JournalLock: the only process that comes never gives up.                *)
(*                                                                         *)
(* The same for the journal's lock, which a process takes and gives back   *)
(* as often as it likes.                                                   *)
OfDead == <<DeadUser, 1>>
LeftFile(f, u) ==
  f[DeadUser] \in {NoFile, OfDead} /\ \A v \in Users \ {u} : f[v] = NoFile

UserTypes ==
  /\ up \subseteq Users /\ DOMAIN stage = Users /\ DOMAIN sighted = Users /\ DOMAIN found = Users
  /\ DOMAIN candidate = AllUsers /\ DOMAIN reclaim = AllUsers
  /\ round \in [Users -> Nat]
  /\ \A u \in Users : round[u] = 0 => stage[u] = "out" /\ candidate[u] = NoFile /\ reclaim[u] = NoFile

Way(u) ==
  /\ stage[u] \in {"out", "start", "scan", "restore", "link", "written", "published", "inside", "leave",
                   "leave again", "put aside", "put away", "exists", "inspect", "inspect again",
                   "inspect once more", "displace", "displaced"}
  /\ LeftFile(candidate, u) /\ LeftFile(reclaim, u)
  /\ reclaim[DeadUser] # NoFile => lockFile = NoFile /\ candidate[DeadUser] = NoFile
  /\ stage[u] \in {"written", "published", "exists"} <=> candidate[u] # NoFile
  /\ candidate[u] \in {NoFile, Token(u)}
  /\ stage[u] \in {"displaced", "put away"} <=> reclaim[u] # NoFile
  /\ stage[u] = "displaced" => reclaim[u] = OfDead /\ lockFile = NoFile
  /\ stage[u] = "put away" => reclaim[u] = Token(u) /\ lockFile = NoFile
  /\ stage[u] \in {"out", "start", "link", "written"} => lockFile \in {NoFile, OfDead}
  /\ stage[u] \in {"scan", "restore"} => lockFile = NoFile
  /\ stage[u] = "restore" => found[u] = DeadUser
  /\ stage[u] \in {"published", "inside", "leave", "leave again", "put aside"} => lockFile = Token(u)
  /\ stage[u] \in {"exists", "inspect", "inspect again", "inspect once more", "displace"} =>
       lockFile = OfDead
  /\ stage[u] \in {"inspect again", "inspect once more", "displace", "displaced"} => sighted[u] = OfDead
  /\ stage[u] \in {"link", "written", "exists", "inspect", "inspect again", "inspect once more",
                   "displace", "displaced", "published"} => reclaim[DeadUser] = NoFile
  /\ stage[u] \in {"inspect", "inspect again", "inspect once more", "displace", "displaced"} =>
       candidate[DeadUser] = NoFile

UserAlone(u) == (\A v \in Users \ {u} : round[v] = 0) => Way(u)

UserInv == UserTypes /\ \A u \in Users : UserAlone(u)

LEMMA LockInodes ==
  /\ OfDead # NoFile /\ DeadUser \notin Users /\ OfDead[1] = DeadUser
  /\ \A u \in Users, n \in Nat : <<u, n>> # NoFile /\ <<u, n>> # OfDead /\ <<u, n>>[1] = u
BY NoFileAssumption, DeadUserAssumption DEF OfDead

LEMMA DeadIs == OfDead # NoFile /\ DeadUser \notin Users /\ OfDead[1] = DeadUser
BY LockInodes

LEMMA TokenIs ==
  ASSUME UserTypes, NEW u \in Users
  PROVE  Token(u) # NoFile /\ Token(u) # OfDead /\ Token(u)[1] = u
<1>1. round[u] \in Nat
  BY DEF UserTypes
<1>. QED
  BY <1>1, LockInodes DEF Token

(* The only name of a lock that was published or put aside.                *)
LEMMA OnlyName ==
  ASSUME NEW i, \A v \in AllUsers : candidate[v] # i,
         NEW u \in AllUsers,
         \/ lockFile = i /\ \A v \in AllUsers : reclaim[v] # i
         \/ lockFile # i /\ reclaim[u] = i /\ \A v \in AllUsers \ {u} : reclaim[v] # i
  PROVE  NamesOf(i) = 1
<1>1. {v \in AllUsers : candidate[v] = i} = {}
  OBVIOUS
<1>2. Cardinality({v \in AllUsers : candidate[v] = i}) = 0
  BY <1>1, FS_EmptySet
<1>3. CASE lockFile = i /\ \A v \in AllUsers : reclaim[v] # i
  <2>1. {v \in AllUsers : reclaim[v] = i} = {}
    BY <1>3
  <2>2. Cardinality({v \in AllUsers : reclaim[v] = i}) = 0
    BY <2>1, FS_EmptySet
  <2>. QED
    BY <1>2, <1>3, <2>2 DEF NamesOf
<1>4. CASE lockFile # i /\ reclaim[u] = i /\ \A v \in AllUsers \ {u} : reclaim[v] # i
  <2>1. {v \in AllUsers : reclaim[v] = i} = {u}
    BY <1>4
  <2>2. Cardinality({v \in AllUsers : reclaim[v] = i}) = 1
    BY <2>1, FS_Singleton
  <2>. QED
    BY <1>2, <1>4, <2>2 DEF NamesOf
<1>. QED
  BY <1>3, <1>4

(* Nobody but u under way: what has the names its lock or the dead one's   *)
(* may have.                                                               *)
Lonely(u) == UserTypes /\ Way(u) /\ \A v \in Users \ {u} : round[v] = 0

LEMMA LockIsReadable ==
  ASSUME NEW u \in Users, Lonely(u),
         stage[u] \in {"inspect", "inspect again", "inspect once more", "inside", "leave",
                       "leave again", "put aside"}
  PROVE  Readable /\ ~Unsafe
<1>1. Token(u) # NoFile /\ Token(u) # OfDead
  BY TokenIs DEF Lonely
<1>2. /\ candidate[u] = NoFile /\ reclaim[u] = NoFile
      /\ candidate[DeadUser] \in {NoFile, OfDead} /\ reclaim[DeadUser] \in {NoFile, OfDead}
      /\ \A v \in Users \ {u} : candidate[v] = NoFile /\ reclaim[v] = NoFile
  BY DEF Lonely, Way, LeftFile
<1>3. \/ lockFile = Token(u)
      \/ lockFile = OfDead /\ candidate[DeadUser] = NoFile /\ reclaim[DeadUser] = NoFile
  BY DEF Lonely, Way
<1>4. lockFile # NoFile /\ \A v \in AllUsers : candidate[v] # lockFile /\ reclaim[v] # lockFile
  BY <1>1, <1>2, <1>3, DeadIs DEF AllUsers
<1>5. NamesOf(lockFile) = 1
  BY <1>4, OnlyName DEF AllUsers
<1>. QED
  BY <1>4, <1>5 DEF Readable, Unsafe

LEMMA AsideIsAlone ==
  ASSUME NEW u \in Users, Lonely(u), stage[u] \in {"displaced", "put away"}
  PROVE  NamesOf(reclaim[u]) = 1
<1>1. Token(u) # NoFile /\ Token(u) # OfDead
  BY TokenIs DEF Lonely
<1>2. /\ candidate[u] = NoFile /\ lockFile = NoFile
      /\ candidate[DeadUser] \in {NoFile, OfDead} /\ reclaim[DeadUser] \in {NoFile, OfDead}
      /\ \A v \in Users \ {u} : candidate[v] = NoFile /\ reclaim[v] = NoFile
  BY DEF Lonely, Way, LeftFile
<1>3. \/ reclaim[u] = Token(u)
      \/ reclaim[u] = OfDead /\ candidate[DeadUser] = NoFile /\ reclaim[DeadUser] = NoFile
  BY DEF Lonely, Way
<1>4. /\ lockFile # reclaim[u] /\ \A v \in AllUsers : candidate[v] # reclaim[u]
      /\ \A v \in AllUsers \ {u} : reclaim[v] # reclaim[u]
  BY <1>1, <1>2, <1>3, DeadIs DEF AllUsers
<1>. QED
  BY <1>4, OnlyName DEF AllUsers

(* Unlinking the aliases of the dead one's lock.                           *)
UnaliasedNames(u) ==
  \A f \in {candidate, reclaim} :
    /\ DOMAIN Unaliased(f) = AllUsers
    /\ f[u] = NoFile => Unaliased(f)[u] = NoFile
    /\ Unaliased(f)[DeadUser] = NoFile
    /\ \A v \in Users \ {u} : Unaliased(f)[v] = NoFile

LEMMA DroppedAliases ==
  ASSUME NEW u \in Users, Lonely(u), lockFile = OfDead
  PROVE  UnaliasedNames(u)
<1>1. \A f \in {candidate, reclaim} : LeftFile(f, u)
  BY DEF Lonely, Way
<1>2. ASSUME NEW f, LeftFile(f, u)
      PROVE  /\ DOMAIN Unaliased(f) = AllUsers
             /\ f[u] = NoFile => Unaliased(f)[u] = NoFile
             /\ Unaliased(f)[DeadUser] = NoFile
             /\ \A v \in Users \ {u} : Unaliased(f)[v] = NoFile
  BY <1>2, DeadIs DEF Unaliased, LeftFile, AllUsers
<1>. QED
  BY <1>1, <1>2 DEF UnaliasedNames

LEMMA EnterAlone ==
  ASSUME UserInv, NEW u \in Users, Enter(u)
  PROVE  UserTypes' /\ UserAlone(u)' /\ round'[u] # 0
<1>1. UserTypes /\ UserAlone(u)
  BY DEF UserInv
<1>2. UserTypes' /\ round'[u] # 0
  BY <1>1 DEF Enter, On, MoveTo, lockNames, UserTypes, AllUsers
<1>3. ASSUME \A v \in Users \ {u} : round'[v] = 0
      PROVE  UserAlone(u)'
  <2>1. Lonely(u)
    BY <1>1, <1>3 DEF Enter, lockNames, Lonely, UserTypes, UserAlone
  <2>. QED
    BY <1>1, <1>3, <2>1, DeadIs DEF Enter, On, MoveTo, lockNames, Lonely, UserTypes, AllUsers, UserAlone, Way, LeftFile, Token
<1>. QED
  BY <1>2, <1>3 DEF UserAlone

LEMMA LookAtLockAlone ==
  ASSUME UserInv, NEW u \in Users, LookAtLock(u)
  PROVE  UserTypes' /\ UserAlone(u)' /\ round'[u] # 0
<1>1. UserTypes /\ UserAlone(u)
  BY DEF UserInv
<1>2. UserTypes' /\ round'[u] # 0
  BY <1>1 DEF LookAtLock, Unaliased, On, MoveTo, lockNames, UserTypes, AllUsers
<1>3. ASSUME \A v \in Users \ {u} : round'[v] = 0
      PROVE  UserAlone(u)'
  <2>1. Lonely(u)
    BY <1>1, <1>3 DEF LookAtLock, Unaliased, lockNames, Lonely, UserTypes, UserAlone
  <2>2. Token(u) # NoFile /\ Token(u) # OfDead /\ Token(u)' = Token(u)
    <3>1. Token(u)' = Token(u)
      BY DEF LookAtLock, Token
    <3>. QED
      BY <1>1, <3>1, TokenIs
  <2>. QED
    <3>1. CASE lockFile = NoFile
      <4>1. UNCHANGED <<lockFile, candidate, reclaim, sighted, found>> /\ MoveTo(u, "scan") /\ On(u, "start")
        BY <3>1 DEF LookAtLock
      <4>2. Way(u)'
        BY <2>1, <2>2, <3>1, <4>1, DeadIs DEF On, MoveTo, Lonely, UserTypes, Way, LeftFile
      <4>. QED
        BY <4>2 DEF UserAlone
    <3>2. CASE lockFile # NoFile
      <4>1. On(u, "start") /\ lockFile = OfDead /\ candidate[u] = NoFile /\ reclaim[u] = NoFile
        BY <2>1, <3>2 DEF LookAtLock, On, Lonely, Way
      <4>2. UnaliasedNames(u)
        BY <2>1, <4>1, DroppedAliases
      <4>3. UNCHANGED <<lockFile, sighted, found>> /\ MoveTo(u, "link")
        BY <3>2 DEF LookAtLock, lockNames
      <4>4. candidate' = Unaliased(candidate) /\ reclaim' = Unaliased(reclaim)
        BY <3>2 DEF LookAtLock
      <4>5. /\ candidate'[u] = NoFile /\ reclaim'[u] = NoFile
            /\ candidate'[DeadUser] = NoFile /\ reclaim'[DeadUser] = NoFile
            /\ \A v \in Users \ {u} : candidate'[v] = NoFile /\ reclaim'[v] = NoFile
        BY <4>1, <4>2, <4>4 DEF UnaliasedNames
      <4>6. stage'[u] = "link"
        BY <2>1, <4>3 DEF MoveTo, Lonely, UserTypes
      <4>7. Way(u)'
        BY <2>2, <4>1, <4>3, <4>5, <4>6, DeadIs DEF Way, LeftFile
      <4>. QED
        BY <4>7 DEF UserAlone
    <3>. QED
      BY <3>1, <3>2
<1>. QED
  BY <1>2, <1>3 DEF UserAlone

LEMMA ScanReclaimsAlone ==
  ASSUME UserInv, NEW u \in Users, ScanReclaims(u)
  PROVE  UserTypes' /\ UserAlone(u)' /\ round'[u] # 0
<1>1. UserTypes /\ UserAlone(u)
  BY DEF UserInv
<1>2. UserTypes' /\ round'[u] # 0
  <2>1. /\ UNCHANGED <<lockFile, candidate, reclaim, up, round, sighted>> /\ On(u, "scan")
        /\ \E s : MoveTo(u, s)
        /\ found' = found \/ \E v : found' = [found EXCEPT ![u] = v]
    BY DEF ScanReclaims, WaitFor, lockNames
  <2>. QED
    BY <1>1, <2>1 DEF On, MoveTo, lockNames, UserTypes, AllUsers
<1>3. ASSUME \A v \in Users \ {u} : round'[v] = 0
      PROVE  UserAlone(u)'
  <2>1. Lonely(u)
    BY <1>1, <1>3 DEF ScanReclaims, lockNames, Lonely, UserTypes, UserAlone
  <2>2. Token(u) # NoFile /\ Token(u) # OfDead /\ Token(u)' = Token(u)
    <3>1. Token(u)' = Token(u)
      BY DEF ScanReclaims, Token
    <3>. QED
      BY <1>1, <3>1, TokenIs
  <2>3. \A v \in Users : reclaim[v] = NoFile
    BY <2>1 DEF ScanReclaims, On, Lonely, Way, LeftFile
  <2>. DEFINE held == {v \in AllUsers : reclaim[v] # NoFile}
  <2>4. held = {} \/ held = {DeadUser}
    BY <2>3 DEF AllUsers
  <2>5. Cardinality(held) \in {0, 1} /\ held \cap up = {}
    BY <1>1, <2>4, DeadIs, FS_EmptySet, FS_Singleton DEF UserTypes
  <2>6. \/ held = {} /\ MoveTo(u, "link") /\ UNCHANGED found
        \/ found' = [found EXCEPT ![u] = DeadUser] /\ MoveTo(u, "restore")
    BY <2>4, <2>5 DEF ScanReclaims
  <2>7. held = {} => reclaim[DeadUser] = NoFile
    BY DEF AllUsers
  <2>. HIDE DEF held
  <2>. QED
    BY <1>1, <1>3, <2>1, <2>2, <2>6, <2>7, DeadIs DEF ScanReclaims, On, MoveTo, lockNames, Lonely, UserTypes, AllUsers, UserAlone, Way, LeftFile
<1>. QED
  BY <1>2, <1>3 DEF UserAlone

LEMMA RestoreReclaimAlone ==
  ASSUME UserInv, NEW u \in Users, RestoreReclaim(u)
  PROVE  UserTypes' /\ UserAlone(u)' /\ round'[u] # 0
<1>1. UserTypes /\ UserAlone(u)
  BY DEF UserInv
<1>2. UserTypes' /\ round'[u] # 0
  BY <1>1 DEF RestoreReclaim, On, MoveTo, lockNames, UserTypes, AllUsers
<1>3. ASSUME \A v \in Users \ {u} : round'[v] = 0
      PROVE  UserAlone(u)'
  <2>1. Lonely(u)
    BY <1>1, <1>3 DEF RestoreReclaim, lockNames, Lonely, UserTypes, UserAlone
  <2>2. Token(u) # NoFile /\ Token(u) # OfDead /\ Token(u)' = Token(u)
    <3>1. Token(u)' = Token(u)
      BY DEF RestoreReclaim, Token
    <3>. QED
      BY <1>1, <3>1, TokenIs
  <2>. QED
    BY <1>1, <1>3, <2>1, <2>2, DeadIs DEF RestoreReclaim, On, MoveTo, lockNames, Lonely, UserTypes, AllUsers, UserAlone, Way, LeftFile
<1>. QED
  BY <1>2, <1>3 DEF UserAlone

LEMMA WriteCandidateAlone ==
  ASSUME UserInv, NEW u \in Users, WriteCandidate(u)
  PROVE  UserTypes' /\ UserAlone(u)' /\ round'[u] # 0
<1>1. UserTypes /\ UserAlone(u)
  BY DEF UserInv
<1>2. UserTypes' /\ round'[u] # 0
  BY <1>1 DEF WriteCandidate, On, MoveTo, lockNames, UserTypes, AllUsers
<1>3. ASSUME \A v \in Users \ {u} : round'[v] = 0
      PROVE  UserAlone(u)'
  <2>1. Lonely(u)
    BY <1>1, <1>3 DEF WriteCandidate, lockNames, Lonely, UserTypes, UserAlone
  <2>2. Token(u) # NoFile /\ Token(u) # OfDead /\ Token(u)' = Token(u)
    <3>1. Token(u)' = Token(u)
      BY DEF WriteCandidate, Token
    <3>. QED
      BY <1>1, <3>1, TokenIs
  <2>. QED
    BY <1>1, <1>3, <2>1, <2>2, DeadIs DEF WriteCandidate, On, MoveTo, lockNames, Lonely, UserTypes, AllUsers, UserAlone, Way, LeftFile
<1>. QED
  BY <1>2, <1>3 DEF UserAlone

LEMMA LinkLockFileAlone ==
  ASSUME UserInv, NEW u \in Users, LinkLockFile(u)
  PROVE  UserTypes' /\ UserAlone(u)' /\ round'[u] # 0
<1>1. UserTypes /\ UserAlone(u)
  BY DEF UserInv
<1>2. UserTypes' /\ round'[u] # 0
  BY <1>1 DEF LinkLockFile, On, MoveTo, lockNames, UserTypes, AllUsers
<1>3. ASSUME \A v \in Users \ {u} : round'[v] = 0
      PROVE  UserAlone(u)'
  <2>1. Lonely(u)
    BY <1>1, <1>3 DEF LinkLockFile, lockNames, Lonely, UserTypes, UserAlone
  <2>2. Token(u) # NoFile /\ Token(u) # OfDead /\ Token(u)' = Token(u)
    <3>1. Token(u)' = Token(u)
      BY DEF LinkLockFile, Token
    <3>. QED
      BY <1>1, <3>1, TokenIs
  <2>. QED
    BY <1>1, <1>3, <2>1, <2>2, DeadIs DEF LinkLockFile, On, MoveTo, lockNames, Lonely, UserTypes, AllUsers, UserAlone, Way, LeftFile
<1>. QED
  BY <1>2, <1>3 DEF UserAlone

LEMMA UnlinkOwnCandidateAlone ==
  ASSUME UserInv, NEW u \in Users, UnlinkOwnCandidate(u)
  PROVE  UserTypes' /\ UserAlone(u)' /\ round'[u] # 0
<1>1. UserTypes /\ UserAlone(u)
  BY DEF UserInv
<1>2. UserTypes' /\ round'[u] # 0
  BY <1>1 DEF UnlinkOwnCandidate, On, MoveTo, lockNames, UserTypes, AllUsers
<1>3. ASSUME \A v \in Users \ {u} : round'[v] = 0
      PROVE  UserAlone(u)'
  <2>1. Lonely(u)
    BY <1>1, <1>3 DEF UnlinkOwnCandidate, lockNames, Lonely, UserTypes, UserAlone
  <2>2. Token(u) # NoFile /\ Token(u) # OfDead /\ Token(u)' = Token(u)
    <3>1. Token(u)' = Token(u)
      BY DEF UnlinkOwnCandidate, Token
    <3>. QED
      BY <1>1, <3>1, TokenIs
  <2>. QED
    BY <1>1, <1>3, <2>1, <2>2, DeadIs DEF UnlinkOwnCandidate, On, MoveTo, lockNames, Lonely, UserTypes, AllUsers, UserAlone, Way, LeftFile
<1>. QED
  BY <1>2, <1>3 DEF UserAlone

LEMMA GiveWayAlone ==
  ASSUME UserInv, NEW u \in Users, GiveWay(u)
  PROVE  UserTypes' /\ UserAlone(u)' /\ round'[u] # 0
<1>1. UserTypes /\ UserAlone(u)
  BY DEF UserInv
<1>2. UserTypes' /\ round'[u] # 0
  BY <1>1 DEF GiveWay, Unaliased, WaitFor, On, MoveTo, lockNames, UserTypes, AllUsers
<1>3. ASSUME \A v \in Users \ {u} : round'[v] = 0
      PROVE  UserAlone(u)'
  <2>1. Lonely(u)
    BY <1>1, <1>3 DEF GiveWay, Unaliased, WaitFor, lockNames, Lonely, UserTypes, UserAlone
  <2>2. Token(u) # NoFile /\ Token(u) # OfDead /\ Token(u)' = Token(u)
    <3>1. Token(u)' = Token(u)
      BY DEF GiveWay, Token
    <3>. QED
      BY <1>1, <3>1, TokenIs
  <2>. QED
    <3>1. On(u, "exists") /\ lockFile = OfDead /\ reclaim[u] = NoFile
      BY <2>1 DEF GiveWay, On, Lonely, Way
    <3>2. UnaliasedNames(u)
      BY <2>1, <3>1, DroppedAliases
    <3>3. /\ candidate' = [Unaliased(candidate) EXCEPT ![u] = NoFile]
          /\ reclaim' = Unaliased(reclaim) /\ UNCHANGED <<lockFile, sighted, found>>
      BY DEF GiveWay
    <3>4. /\ candidate'[u] = NoFile /\ reclaim'[u] = NoFile
          /\ candidate'[DeadUser] = NoFile /\ reclaim'[DeadUser] = NoFile
          /\ \A v \in Users \ {u} : candidate'[v] = NoFile /\ reclaim'[v] = NoFile
      BY <3>1, <3>2, <3>3, DeadIs DEF UnaliasedNames, AllUsers
    <3>5. stage'[u] \in {"inspect", "start"}
      <4>1. MoveTo(u, "inspect") \/ MoveTo(u, "start")
        BY <3>1 DEF GiveWay, WaitFor, OfDead
      <4>. QED
        BY <2>1, <4>1 DEF MoveTo, Lonely, UserTypes
    <3>6. Way(u)'
      BY <2>2, <3>1, <3>3, <3>4, <3>5, DeadIs DEF Way, LeftFile
    <3>. QED
      BY <3>6 DEF UserAlone
<1>. QED
  BY <1>2, <1>3 DEF UserAlone

LEMMA Inspect1Alone ==
  ASSUME UserInv, NEW u \in Users, Inspect1(u)
  PROVE  UserTypes' /\ UserAlone(u)' /\ round'[u] # 0
<1>1. UserTypes /\ UserAlone(u)
  BY DEF UserInv
<1>2. UserTypes' /\ round'[u] # 0
  BY <1>1 DEF Inspect1, WaitFor, On, MoveTo, lockNames, UserTypes, AllUsers
<1>3. ASSUME \A v \in Users \ {u} : round'[v] = 0
      PROVE  UserAlone(u)'
  <2>1. Lonely(u)
    BY <1>1, <1>3 DEF Inspect1, WaitFor, lockNames, Lonely, UserTypes, UserAlone
  <2>2. Token(u) # NoFile /\ Token(u) # OfDead /\ Token(u)' = Token(u)
    <3>1. Token(u)' = Token(u)
      BY DEF Inspect1, Token
    <3>. QED
      BY <1>1, <3>1, TokenIs
  <2>. QED
    BY <1>1, <1>3, <2>1, <2>2, DeadIs, LockIsReadable DEF Inspect1, WaitFor, On, MoveTo, lockNames, Lonely, UserTypes, AllUsers, UserAlone, Way, LeftFile
<1>. QED
  BY <1>2, <1>3 DEF UserAlone

LEMMA Inspect2Alone ==
  ASSUME UserInv, NEW u \in Users, Inspect2(u)
  PROVE  UserTypes' /\ UserAlone(u)' /\ round'[u] # 0
<1>1. UserTypes /\ UserAlone(u)
  BY DEF UserInv
<1>2. UserTypes' /\ round'[u] # 0
  BY <1>1 DEF Inspect2, WaitFor, On, MoveTo, lockNames, UserTypes, AllUsers
<1>3. ASSUME \A v \in Users \ {u} : round'[v] = 0
      PROVE  UserAlone(u)'
  <2>1. Lonely(u)
    BY <1>1, <1>3 DEF Inspect2, WaitFor, lockNames, Lonely, UserTypes, UserAlone
  <2>2. Token(u) # NoFile /\ Token(u) # OfDead /\ Token(u)' = Token(u)
    <3>1. Token(u)' = Token(u)
      BY DEF Inspect2, Token
    <3>. QED
      BY <1>1, <3>1, TokenIs
  <2>. QED
    BY <1>1, <1>3, <2>1, <2>2, DeadIs, LockIsReadable DEF Inspect2, WaitFor, On, MoveTo, lockNames, Lonely, UserTypes, AllUsers, UserAlone, Way, LeftFile
<1>. QED
  BY <1>2, <1>3 DEF UserAlone

LEMMA DisplaceAlone ==
  ASSUME UserInv, NEW u \in Users, Displace(u)
  PROVE  UserTypes' /\ UserAlone(u)' /\ round'[u] # 0
<1>1. UserTypes /\ UserAlone(u)
  BY DEF UserInv
<1>2. UserTypes' /\ round'[u] # 0
  BY <1>1 DEF Displace, On, MoveTo, lockNames, UserTypes, AllUsers
<1>3. ASSUME \A v \in Users \ {u} : round'[v] = 0
      PROVE  UserAlone(u)'
  <2>1. Lonely(u)
    BY <1>1, <1>3 DEF Displace, lockNames, Lonely, UserTypes, UserAlone
  <2>2. Token(u) # NoFile /\ Token(u) # OfDead /\ Token(u)' = Token(u)
    <3>1. Token(u)' = Token(u)
      BY DEF Displace, Token
    <3>. QED
      BY <1>1, <3>1, TokenIs
  <2>. QED
    BY <1>1, <1>3, <2>1, <2>2, DeadIs DEF Displace, On, MoveTo, lockNames, Lonely, UserTypes, AllUsers, UserAlone, Way, LeftFile
<1>. QED
  BY <1>2, <1>3 DEF UserAlone

LEMMA DropDisplacedAlone ==
  ASSUME UserInv, NEW u \in Users, DropDisplaced(u)
  PROVE  UserTypes' /\ UserAlone(u)' /\ round'[u] # 0
<1>1. UserTypes /\ UserAlone(u)
  BY DEF UserInv
<1>2. UserTypes' /\ round'[u] # 0
  BY <1>1 DEF DropDisplaced, On, MoveTo, lockNames, UserTypes, AllUsers
<1>3. ASSUME \A v \in Users \ {u} : round'[v] = 0
      PROVE  UserAlone(u)'
  <2>1. Lonely(u)
    BY <1>1, <1>3 DEF DropDisplaced, lockNames, Lonely, UserTypes, UserAlone
  <2>2. Token(u) # NoFile /\ Token(u) # OfDead /\ Token(u)' = Token(u)
    <3>1. Token(u)' = Token(u)
      BY DEF DropDisplaced, Token
    <3>. QED
      BY <1>1, <3>1, TokenIs
  <2>. QED
    BY <1>1, <1>3, <2>1, <2>2, DeadIs, AsideIsAlone DEF DropDisplaced, On, MoveTo, lockNames, Lonely, UserTypes, AllUsers, UserAlone, Way, LeftFile
<1>. QED
  BY <1>2, <1>3 DEF UserAlone

LEMMA FinishWorkAlone ==
  ASSUME UserInv, NEW u \in Users, FinishWork(u)
  PROVE  UserTypes' /\ UserAlone(u)' /\ round'[u] # 0
<1>1. UserTypes /\ UserAlone(u)
  BY DEF UserInv
<1>2. UserTypes' /\ round'[u] # 0
  BY <1>1 DEF FinishWork, On, MoveTo, lockNames, UserTypes, AllUsers
<1>3. ASSUME \A v \in Users \ {u} : round'[v] = 0
      PROVE  UserAlone(u)'
  <2>1. Lonely(u)
    BY <1>1, <1>3 DEF FinishWork, lockNames, Lonely, UserTypes, UserAlone
  <2>2. Token(u) # NoFile /\ Token(u) # OfDead /\ Token(u)' = Token(u)
    <3>1. Token(u)' = Token(u)
      BY DEF FinishWork, Token
    <3>. QED
      BY <1>1, <3>1, TokenIs
  <2>. QED
    BY <1>1, <1>3, <2>1, <2>2, DeadIs DEF FinishWork, On, MoveTo, lockNames, Lonely, UserTypes, AllUsers, UserAlone, Way, LeftFile
<1>. QED
  BY <1>2, <1>3 DEF UserAlone

LEMMA CheckOwnAlone ==
  ASSUME UserInv, NEW u \in Users, CheckOwn(u)
  PROVE  UserTypes' /\ UserAlone(u)' /\ round'[u] # 0
<1>1. UserTypes /\ UserAlone(u)
  BY DEF UserInv
<1>2. UserTypes' /\ round'[u] # 0
  BY <1>1 DEF CheckOwn, On, MoveTo, lockNames, UserTypes, AllUsers
<1>3. ASSUME \A v \in Users \ {u} : round'[v] = 0
      PROVE  UserAlone(u)'
  <2>1. Lonely(u)
    BY <1>1, <1>3 DEF CheckOwn, lockNames, Lonely, UserTypes, UserAlone
  <2>2. Token(u) # NoFile /\ Token(u) # OfDead /\ Token(u)' = Token(u)
    <3>1. Token(u)' = Token(u)
      BY DEF CheckOwn, Token
    <3>. QED
      BY <1>1, <3>1, TokenIs
  <2>. QED
    BY <1>1, <1>3, <2>1, <2>2, DeadIs, LockIsReadable DEF CheckOwn, On, MoveTo, lockNames, Lonely, UserTypes, AllUsers, UserAlone, Way, LeftFile
<1>. QED
  BY <1>2, <1>3 DEF UserAlone

LEMMA PutAsideAlone ==
  ASSUME UserInv, NEW u \in Users, PutAside(u)
  PROVE  UserTypes' /\ UserAlone(u)' /\ round'[u] # 0
<1>1. UserTypes /\ UserAlone(u)
  BY DEF UserInv
<1>2. UserTypes' /\ round'[u] # 0
  BY <1>1 DEF PutAside, On, MoveTo, lockNames, UserTypes, AllUsers
<1>3. ASSUME \A v \in Users \ {u} : round'[v] = 0
      PROVE  UserAlone(u)'
  <2>1. Lonely(u)
    BY <1>1, <1>3 DEF PutAside, lockNames, Lonely, UserTypes, UserAlone
  <2>2. Token(u) # NoFile /\ Token(u) # OfDead /\ Token(u)' = Token(u)
    <3>1. Token(u)' = Token(u)
      BY DEF PutAside, Token
    <3>. QED
      BY <1>1, <3>1, TokenIs
  <2>. QED
    BY <1>1, <1>3, <2>1, <2>2, DeadIs DEF PutAside, On, MoveTo, lockNames, Lonely, UserTypes, AllUsers, UserAlone, Way, LeftFile
<1>. QED
  BY <1>2, <1>3 DEF UserAlone

LEMMA UnlinkReleasedAlone ==
  ASSUME UserInv, NEW u \in Users, UnlinkReleased(u)
  PROVE  UserTypes' /\ UserAlone(u)' /\ round'[u] # 0
<1>1. UserTypes /\ UserAlone(u)
  BY DEF UserInv
<1>2. UserTypes' /\ round'[u] # 0
  BY <1>1 DEF UnlinkReleased, On, MoveTo, lockNames, UserTypes, AllUsers
<1>3. ASSUME \A v \in Users \ {u} : round'[v] = 0
      PROVE  UserAlone(u)'
  <2>1. Lonely(u)
    BY <1>1, <1>3 DEF UnlinkReleased, lockNames, Lonely, UserTypes, UserAlone
  <2>2. Token(u) # NoFile /\ Token(u) # OfDead /\ Token(u)' = Token(u)
    <3>1. Token(u)' = Token(u)
      BY DEF UnlinkReleased, Token
    <3>. QED
      BY <1>1, <3>1, TokenIs
  <2>. QED
    BY <1>1, <1>3, <2>1, <2>2, DeadIs, AsideIsAlone DEF UnlinkReleased, On, MoveTo, lockNames, Lonely, UserTypes, AllUsers, UserAlone, Way, LeftFile
<1>. QED
  BY <1>2, <1>3 DEF UserAlone

LEMMA UserInvInit == JournalLockInit => UserInv
<1>. SUFFICES ASSUME JournalLockInit PROVE UserInv
  OBVIOUS
<1>. USE DeadIs
<1>1. PICK l \in {NoFile, OfDead}, c \in {NoFile, OfDead}, r \in {NoFile, OfDead} :
        /\ r = NoFile \/ (l = NoFile /\ c = NoFile)
        /\ lockFile = l
        /\ candidate = [u \in AllUsers |-> IF u = DeadUser THEN c ELSE NoFile]
        /\ reclaim = [u \in AllUsers |-> IF u = DeadUser THEN r ELSE NoFile]
        /\ up = Users
        /\ stage = [u \in Users |-> "out"] /\ round = [u \in Users |-> 0]
        /\ sighted = [u \in Users |-> NoFile] /\ found = [u \in Users |-> DeadUser]
  BY DEF JournalLockInit, OfDead
<1>2. UserTypes
  BY <1>1 DEF UserTypes, AllUsers
<1>3. ASSUME NEW u \in Users PROVE UserAlone(u)
  BY <1>1 DEF UserAlone, Way, LeftFile, AllUsers
<1>. QED
  BY <1>2, <1>3 DEF UserInv

LEMMA UserActionAlone ==
  ASSUME UserInv, NEW u \in Users, TakeLock(u) \/ Reclaim(u) \/ GiveBack(u)
  PROVE  UserTypes' /\ UserAlone(u)' /\ round'[u] # 0
BY EnterAlone, LookAtLockAlone, ScanReclaimsAlone, RestoreReclaimAlone, WriteCandidateAlone,
   LinkLockFileAlone, UnlinkOwnCandidateAlone, GiveWayAlone, Inspect1Alone, Inspect2Alone,
   DisplaceAlone, DropDisplacedAlone, FinishWorkAlone, CheckOwnAlone, PutAsideAlone,
   UnlinkReleasedAlone DEF TakeLock, Reclaim, GiveBack

LEMMA UserInvStep == UserInv /\ [JournalLockNext]_journalLockVars => UserInv'
<1>. SUFFICES ASSUME UserInv, [JournalLockNext]_journalLockVars PROVE UserInv'
  OBVIOUS
<1>1. ASSUME NEW u \in Users, TakeLock(u) \/ Reclaim(u) \/ GiveBack(u) PROVE UserInv'
  <2>1. UserTypes' /\ UserAlone(u)' /\ round'[u] # 0
    BY <1>1, UserActionAlone
  <2>2. ASSUME NEW v \in Users, v # u PROVE UserAlone(v)'
    BY <2>1, <2>2 DEF UserAlone
  <2>. QED
    BY <2>1, <2>2 DEF UserInv
<1>2. ASSUME NEW u \in Users, UserDies(u) PROVE UserInv'
  BY <1>2 DEF UserDies, lockNames, UserInv, UserTypes, UserAlone, Way, LeftFile, Token
<1>3. CASE UNCHANGED journalLockVars
  BY <1>3 DEF journalLockVars, UserInv, UserTypes, UserAlone, Way, LeftFile, Token
<1>. QED
  BY <1>1, <1>2, <1>3 DEF JournalLockNext

LEMMA UserInvTells == UserInv => DeadAreReclaimed
<1>. SUFFICES ASSUME UserInv, NEW u \in Users, stage[u] = "failed",
                     \A v \in Users \ {u} : ~(round[v] > 0)
              PROVE  FALSE
  BY DEF DeadAreReclaimed
<1>1. \A v \in Users \ {u} : round[v] = 0
  BY DEF UserInv, UserTypes
<1>2. Way(u)
  BY <1>1 DEF UserInv, UserAlone
<1>. QED
  BY <1>2 DEF Way

(* The only process that comes for the journal's lock never gives up.      *)
THEOREM DeadAreAlwaysReclaimed == JournalLockSpec => []DeadAreReclaimed
<1>. QED
  BY UserInvInit, UserInvStep, UserInvTells, PTL DEF JournalLockSpec

-----------------------------------------------------------------------------
(* What follows is about two processes at each of the locks.               *)
AtMostTwo(S) == \A a, b, c \in S : a = b \/ b = c \/ a = c

-----------------------------------------------------------------------------
(* CoreLock: two processes exclude each other.                             *)
(*                                                                         *)
(* One that published its lock still has it at its path, or the other one  *)
(* displaced it by mistake; then the other one stands where it did that or *)
(* has been refused, and it never owns the destination.                    *)
CoreClaims(p) ==
  p \in living /\ point[p] \in {"published", "holds", "failed-publication", "quarantine"}
CoreDisplaced(p) ==
  \E q \in Procs \ {p} : quar[q] = Mine(p) /\ point[q] \in {"displaced", "refused"}

CorePair(p) ==
  /\ quar[Ghost] # None => point[p] \in {"start", "scan", "restore", "refused"}
  /\ point[p] = "restore" => residue[p] \in Everyone \ living /\ (quar[Ghost] # None => residue[p] = Ghost)
  /\ point[p] \in {"reread", "displace", "displaced"} => snap[p][1] \notin living
  /\ CoreClaims(p) => lockPath = Mine(p) \/ CoreDisplaced(p)
CorePairInv ==
  CoreTypes /\ (quar[Ghost] # None => lockPath = None) /\ \A p \in Procs : CorePair(p)

LEMMA CorePairStarts == CoreLockInit => CorePairInv
<1>. SUFFICES ASSUME CoreLockInit PROVE CorePairInv
  OBVIOUS
<1>1. CoreTypes
  BY CoreInitAlone DEF CoreInv
<1>. QED
  BY <1>1, CoreInodes DEF CoreLockInit, CorePairInv, CorePair, CoreClaims, Everyone

(* What a step of p leaves of the others, and of what p itself claims.     *)
CoreOwn(p) ==
  /\ (quar[Ghost] # None)' => lockPath' = None
  /\ CorePair(p)'
  /\ \A q \in Procs \ {p} :
       /\ point'[q] = point[q] /\ try'[q] = try[q] /\ snap'[q] = snap[q] /\ residue'[q] = residue[q]
  /\ (quar[Ghost] # None)' => quar[Ghost] # None
  /\ \A q \in Procs \ {p} : CoreClaims(q) /\ (lockPath = Mine(q) \/ CoreDisplaced(q)) =>
                           lockPath' = Mine(q) \/ CoreDisplaced(q)'

LEMMA SeeLockPair ==
  ASSUME CorePairInv, AtMostTwo(Procs), NEW p \in Procs, SeeLock(p), CoreTypes'
  PROVE  CoreOwn(p)
<1>1. CoreTypes /\ CorePair(p) /\ (quar[Ghost] # None => lockPath = None)
  BY DEF CorePairInv
<1>2. /\ \A q \in Procs : Mine(q) # None /\ Mine(q) # OfGhost /\ Mine(q)[1] = q
      /\ Ghost \notin Procs
  BY <1>1, CoreInodes DEF Mine, CoreTypes
<1>3. \A q \in Procs \ {p} : CorePair(q)
  BY DEF CorePairInv
<1>4. \A q, r \in Procs \ {p} : q = r
  BY DEF AtMostTwo
<1>5. \A q \in Procs \ {p} :
        /\ point'[q] = point[q] /\ try'[q] = try[q] /\ snap'[q] = snap[q] /\ residue'[q] = residue[q]
  BY <1>1 DEF SeeLock, At, Advance, CoreTypes, WithoutAliases
<1>6. (quar[Ghost] # None)' => quar[Ghost] # None /\ lockPath' = None
  BY <1>1, <1>2 DEF SeeLock, At, Advance, files, CoreTypes, CorePair, Everyone, WithoutAliases
<1>7. CorePair(p)'
  BY <1>1, <1>2, <1>3, <1>4, <1>6 DEF SeeLock, At, Advance, files, CoreTypes, CorePair, CoreClaims, CoreDisplaced, Mine, Everyone, WithoutAliases
<1>8. ASSUME NEW q \in Procs \ {p}, CoreClaims(q), lockPath = Mine(q) \/ CoreDisplaced(q)
      PROVE  lockPath' = Mine(q) \/ CoreDisplaced(q)'
  BY <1>1, <1>2, <1>3, <1>4, <1>5, <1>8 DEF SeeLock, At, Advance, files, CoreTypes, CorePair, CoreClaims, CoreDisplaced, Mine, Everyone, WithoutAliases
<1>. QED
  BY <1>5, <1>6, <1>7, <1>8 DEF CoreOwn

LEMMA ScanQuarantinesPair ==
  ASSUME CorePairInv, AtMostTwo(Procs), NEW p \in Procs, ScanQuarantines(p), CoreTypes'
  PROVE  CoreOwn(p)
<1>1. CoreTypes /\ CorePair(p) /\ (quar[Ghost] # None => lockPath = None)
  BY DEF CorePairInv
<1>2. /\ \A q \in Procs : Mine(q) # None /\ Mine(q) # OfGhost /\ Mine(q)[1] = q
      /\ Ghost \notin Procs
  BY <1>1, CoreInodes DEF Mine, CoreTypes
<1>3. \A q \in Procs \ {p} : CorePair(q)
  BY DEF CorePairInv
<1>4. \A q, r \in Procs \ {p} : q = r
  BY DEF AtMostTwo
<1>5. \A q \in Procs \ {p} :
        /\ point'[q] = point[q] /\ try'[q] = try[q] /\ snap'[q] = snap[q] /\ residue'[q] = residue[q]
  BY <1>1 DEF ScanQuarantines, At, Advance, CoreTypes, Quarantined
<1>6. (quar[Ghost] # None)' => quar[Ghost] # None /\ lockPath' = None
  BY <1>1, <1>2 DEF ScanQuarantines, At, Advance, files, CoreTypes, CorePair, Everyone, Quarantined
<1>7. CorePair(p)'
  BY <1>1, <1>2, <1>3, <1>4, <1>6 DEF ScanQuarantines, At, Advance, files, CoreTypes, CorePair, CoreClaims, CoreDisplaced, Mine, Everyone, Quarantined
<1>8. ASSUME NEW q \in Procs \ {p}, CoreClaims(q), lockPath = Mine(q) \/ CoreDisplaced(q)
      PROVE  lockPath' = Mine(q) \/ CoreDisplaced(q)'
  BY <1>1, <1>2, <1>3, <1>4, <1>5, <1>8 DEF ScanQuarantines, At, Advance, files, CoreTypes, CorePair, CoreClaims, CoreDisplaced, Mine, Everyone, Quarantined
<1>. QED
  BY <1>5, <1>6, <1>7, <1>8 DEF CoreOwn

LEMMA RestoreQuarantinePair ==
  ASSUME CorePairInv, AtMostTwo(Procs), NEW p \in Procs, RestoreQuarantine(p), CoreTypes'
  PROVE  CoreOwn(p)
<1>1. CoreTypes /\ CorePair(p) /\ (quar[Ghost] # None => lockPath = None)
  BY DEF CorePairInv
<1>2. /\ \A q \in Procs : Mine(q) # None /\ Mine(q) # OfGhost /\ Mine(q)[1] = q
      /\ Ghost \notin Procs
  BY <1>1, CoreInodes DEF Mine, CoreTypes
<1>3. \A q \in Procs \ {p} : CorePair(q)
  BY DEF CorePairInv
<1>4. \A q, r \in Procs \ {p} : q = r
  BY DEF AtMostTwo
<1>5. \A q \in Procs \ {p} :
        /\ point'[q] = point[q] /\ try'[q] = try[q] /\ snap'[q] = snap[q] /\ residue'[q] = residue[q]
  BY <1>1 DEF RestoreQuarantine, At, Advance, CoreTypes
<1>6. (quar[Ghost] # None)' => quar[Ghost] # None /\ lockPath' = None
  BY <1>1, <1>2 DEF RestoreQuarantine, At, Advance, files, CoreTypes, CorePair, Everyone
<1>7. CorePair(p)'
  BY <1>1, <1>2, <1>3, <1>4, <1>6 DEF RestoreQuarantine, At, Advance, files, CoreTypes, CorePair, CoreClaims, CoreDisplaced, Mine, Everyone
<1>8. ASSUME NEW q \in Procs \ {p}, CoreClaims(q), lockPath = Mine(q) \/ CoreDisplaced(q)
      PROVE  lockPath' = Mine(q) \/ CoreDisplaced(q)'
  BY <1>1, <1>2, <1>3, <1>4, <1>5, <1>8 DEF RestoreQuarantine, At, Advance, files, CoreTypes, CorePair, CoreClaims, CoreDisplaced, Mine, Everyone
<1>. QED
  BY <1>5, <1>6, <1>7, <1>8 DEF CoreOwn

LEMMA CreateCandidatePair ==
  ASSUME CorePairInv, AtMostTwo(Procs), NEW p \in Procs, CreateCandidate(p), CoreTypes'
  PROVE  CoreOwn(p)
<1>1. CoreTypes /\ CorePair(p) /\ (quar[Ghost] # None => lockPath = None)
  BY DEF CorePairInv
<1>2. /\ \A q \in Procs : Mine(q) # None /\ Mine(q) # OfGhost /\ Mine(q)[1] = q
      /\ Ghost \notin Procs
  BY <1>1, CoreInodes DEF Mine, CoreTypes
<1>3. \A q \in Procs \ {p} : CorePair(q)
  BY DEF CorePairInv
<1>4. \A q, r \in Procs \ {p} : q = r
  BY DEF AtMostTwo
<1>5. \A q \in Procs \ {p} :
        /\ point'[q] = point[q] /\ try'[q] = try[q] /\ snap'[q] = snap[q] /\ residue'[q] = residue[q]
  BY <1>1 DEF CreateCandidate, At, Advance, CoreTypes
<1>6. (quar[Ghost] # None)' => quar[Ghost] # None /\ lockPath' = None
  BY <1>1, <1>2 DEF CreateCandidate, At, Advance, files, CoreTypes, CorePair, Everyone
<1>7. CorePair(p)'
  BY <1>1, <1>2, <1>3, <1>4, <1>6 DEF CreateCandidate, At, Advance, files, CoreTypes, CorePair, CoreClaims, CoreDisplaced, Mine, Everyone
<1>8. ASSUME NEW q \in Procs \ {p}, CoreClaims(q), lockPath = Mine(q) \/ CoreDisplaced(q)
      PROVE  lockPath' = Mine(q) \/ CoreDisplaced(q)'
  BY <1>1, <1>2, <1>3, <1>4, <1>5, <1>8 DEF CreateCandidate, At, Advance, files, CoreTypes, CorePair, CoreClaims, CoreDisplaced, Mine, Everyone
<1>. QED
  BY <1>5, <1>6, <1>7, <1>8 DEF CoreOwn

LEMMA LinkLockPair ==
  ASSUME CorePairInv, AtMostTwo(Procs), NEW p \in Procs, LinkLock(p), CoreTypes'
  PROVE  CoreOwn(p)
<1>1. CoreTypes /\ CorePair(p) /\ (quar[Ghost] # None => lockPath = None)
  BY DEF CorePairInv
<1>2. /\ \A q \in Procs : Mine(q) # None /\ Mine(q) # OfGhost /\ Mine(q)[1] = q
      /\ Ghost \notin Procs
  BY <1>1, CoreInodes DEF Mine, CoreTypes
<1>3. \A q \in Procs \ {p} : CorePair(q)
  BY DEF CorePairInv
<1>4. \A q, r \in Procs \ {p} : q = r
  BY DEF AtMostTwo
<1>5. \A q \in Procs \ {p} :
        /\ point'[q] = point[q] /\ try'[q] = try[q] /\ snap'[q] = snap[q] /\ residue'[q] = residue[q]
  BY <1>1 DEF LinkLock, At, Advance, CoreTypes
<1>6. (quar[Ghost] # None)' => quar[Ghost] # None /\ lockPath' = None
  BY <1>1, <1>2 DEF LinkLock, At, Advance, files, CoreTypes, CorePair, Everyone
<1>7. CorePair(p)'
  BY <1>1, <1>2, <1>3, <1>4, <1>6 DEF LinkLock, At, Advance, files, CoreTypes, CorePair, CoreClaims, CoreDisplaced, Mine, Everyone
<1>8. ASSUME NEW q \in Procs \ {p}, CoreClaims(q), lockPath = Mine(q) \/ CoreDisplaced(q)
      PROVE  lockPath' = Mine(q) \/ CoreDisplaced(q)'
  BY <1>1, <1>2, <1>3, <1>4, <1>5, <1>8 DEF LinkLock, At, Advance, files, CoreTypes, CorePair, CoreClaims, CoreDisplaced, Mine, Everyone
<1>. QED
  BY <1>5, <1>6, <1>7, <1>8 DEF CoreOwn

LEMMA DropCandidatePair ==
  ASSUME CorePairInv, AtMostTwo(Procs), NEW p \in Procs, DropCandidate(p), CoreTypes'
  PROVE  CoreOwn(p)
<1>1. CoreTypes /\ CorePair(p) /\ (quar[Ghost] # None => lockPath = None)
  BY DEF CorePairInv
<1>2. /\ \A q \in Procs : Mine(q) # None /\ Mine(q) # OfGhost /\ Mine(q)[1] = q
      /\ Ghost \notin Procs
  BY <1>1, CoreInodes DEF Mine, CoreTypes
<1>3. \A q \in Procs \ {p} : CorePair(q)
  BY DEF CorePairInv
<1>4. \A q, r \in Procs \ {p} : q = r
  BY DEF AtMostTwo
<1>5. \A q \in Procs \ {p} :
        /\ point'[q] = point[q] /\ try'[q] = try[q] /\ snap'[q] = snap[q] /\ residue'[q] = residue[q]
  BY <1>1 DEF DropCandidate, At, Advance, CoreTypes
<1>6. (quar[Ghost] # None)' => quar[Ghost] # None /\ lockPath' = None
  BY <1>1, <1>2 DEF DropCandidate, At, Advance, files, CoreTypes, CorePair, Everyone
<1>7. CorePair(p)'
  BY <1>1, <1>2, <1>3, <1>4, <1>6 DEF DropCandidate, At, Advance, files, CoreTypes, CorePair, CoreClaims, CoreDisplaced, Mine, Everyone
<1>8. ASSUME NEW q \in Procs \ {p}, CoreClaims(q), lockPath = Mine(q) \/ CoreDisplaced(q)
      PROVE  lockPath' = Mine(q) \/ CoreDisplaced(q)'
  BY <1>1, <1>2, <1>3, <1>4, <1>5, <1>8 DEF DropCandidate, At, Advance, files, CoreTypes, CorePair, CoreClaims, CoreDisplaced, Mine, Everyone
<1>. QED
  BY <1>5, <1>6, <1>7, <1>8 DEF CoreOwn

LEMMA DropAndRepairPair ==
  ASSUME CorePairInv, AtMostTwo(Procs), NEW p \in Procs, DropAndRepair(p), CoreTypes'
  PROVE  CoreOwn(p)
<1>1. CoreTypes /\ CorePair(p) /\ (quar[Ghost] # None => lockPath = None)
  BY DEF CorePairInv
<1>2. /\ \A q \in Procs : Mine(q) # None /\ Mine(q) # OfGhost /\ Mine(q)[1] = q
      /\ Ghost \notin Procs
  BY <1>1, CoreInodes DEF Mine, CoreTypes
<1>3. \A q \in Procs \ {p} : CorePair(q)
  BY DEF CorePairInv
<1>4. \A q, r \in Procs \ {p} : q = r
  BY DEF AtMostTwo
<1>5. \A q \in Procs \ {p} :
        /\ point'[q] = point[q] /\ try'[q] = try[q] /\ snap'[q] = snap[q] /\ residue'[q] = residue[q]
  BY <1>1 DEF DropAndRepair, At, Advance, CoreTypes, WithoutAliases
<1>6. (quar[Ghost] # None)' => quar[Ghost] # None /\ lockPath' = None
  BY <1>1, <1>2 DEF DropAndRepair, At, Advance, files, CoreTypes, CorePair, Everyone, WithoutAliases
<1>7. CorePair(p)'
  BY <1>1, <1>2, <1>3, <1>4, <1>6 DEF DropAndRepair, At, Advance, files, CoreTypes, CorePair, CoreClaims, CoreDisplaced, Mine, Everyone, WithoutAliases
<1>8. ASSUME NEW q \in Procs \ {p}, CoreClaims(q), lockPath = Mine(q) \/ CoreDisplaced(q)
      PROVE  lockPath' = Mine(q) \/ CoreDisplaced(q)'
  BY <1>1, <1>2, <1>3, <1>4, <1>5, <1>8 DEF DropAndRepair, At, Advance, files, CoreTypes, CorePair, CoreClaims, CoreDisplaced, Mine, Everyone, WithoutAliases
<1>. QED
  BY <1>5, <1>6, <1>7, <1>8 DEF CoreOwn

LEMMA ReadOwnerPair ==
  ASSUME CorePairInv, AtMostTwo(Procs), NEW p \in Procs, ReadOwner(p), CoreTypes'
  PROVE  CoreOwn(p)
<1>1. CoreTypes /\ CorePair(p) /\ (quar[Ghost] # None => lockPath = None)
  BY DEF CorePairInv
<1>2. /\ \A q \in Procs : Mine(q) # None /\ Mine(q) # OfGhost /\ Mine(q)[1] = q
      /\ Ghost \notin Procs
  BY <1>1, CoreInodes DEF Mine, CoreTypes
<1>3. \A q \in Procs \ {p} : CorePair(q)
  BY DEF CorePairInv
<1>4. \A q, r \in Procs \ {p} : q = r
  BY DEF AtMostTwo
<1>5. \A q \in Procs \ {p} :
        /\ point'[q] = point[q] /\ try'[q] = try[q] /\ snap'[q] = snap[q] /\ residue'[q] = residue[q]
  BY <1>1 DEF ReadOwner, At, Advance, CoreTypes, Again
<1>6. (quar[Ghost] # None)' => quar[Ghost] # None /\ lockPath' = None
  BY <1>1, <1>2 DEF ReadOwner, At, Advance, files, CoreTypes, CorePair, Everyone, Again
<1>7. CorePair(p)'
  BY <1>1, <1>2, <1>3, <1>4, <1>6 DEF ReadOwner, At, Advance, files, CoreTypes, CorePair, CoreClaims, CoreDisplaced, Mine, Everyone, Again
<1>8. ASSUME NEW q \in Procs \ {p}, CoreClaims(q), lockPath = Mine(q) \/ CoreDisplaced(q)
      PROVE  lockPath' = Mine(q) \/ CoreDisplaced(q)'
  BY <1>1, <1>2, <1>3, <1>4, <1>5, <1>8 DEF ReadOwner, At, Advance, files, CoreTypes, CorePair, CoreClaims, CoreDisplaced, Mine, Everyone, Again
<1>. QED
  BY <1>5, <1>6, <1>7, <1>8 DEF CoreOwn

LEMMA RereadOwnerPair ==
  ASSUME CorePairInv, AtMostTwo(Procs), NEW p \in Procs, RereadOwner(p), CoreTypes'
  PROVE  CoreOwn(p)
<1>1. CoreTypes /\ CorePair(p) /\ (quar[Ghost] # None => lockPath = None)
  BY DEF CorePairInv
<1>2. /\ \A q \in Procs : Mine(q) # None /\ Mine(q) # OfGhost /\ Mine(q)[1] = q
      /\ Ghost \notin Procs
  BY <1>1, CoreInodes DEF Mine, CoreTypes
<1>3. \A q \in Procs \ {p} : CorePair(q)
  BY DEF CorePairInv
<1>4. \A q, r \in Procs \ {p} : q = r
  BY DEF AtMostTwo
<1>5. \A q \in Procs \ {p} :
        /\ point'[q] = point[q] /\ try'[q] = try[q] /\ snap'[q] = snap[q] /\ residue'[q] = residue[q]
  BY <1>1 DEF RereadOwner, At, Advance, CoreTypes, Again
<1>6. (quar[Ghost] # None)' => quar[Ghost] # None /\ lockPath' = None
  BY <1>1, <1>2 DEF RereadOwner, At, Advance, files, CoreTypes, CorePair, Everyone, Again
<1>7. CorePair(p)'
  BY <1>1, <1>2, <1>3, <1>4, <1>6 DEF RereadOwner, At, Advance, files, CoreTypes, CorePair, CoreClaims, CoreDisplaced, Mine, Everyone, Again
<1>8. ASSUME NEW q \in Procs \ {p}, CoreClaims(q), lockPath = Mine(q) \/ CoreDisplaced(q)
      PROVE  lockPath' = Mine(q) \/ CoreDisplaced(q)'
  BY <1>1, <1>2, <1>3, <1>4, <1>5, <1>8 DEF RereadOwner, At, Advance, files, CoreTypes, CorePair, CoreClaims, CoreDisplaced, Mine, Everyone, Again
<1>. QED
  BY <1>5, <1>6, <1>7, <1>8 DEF CoreOwn

LEMMA DisplaceLockPair ==
  ASSUME CorePairInv, AtMostTwo(Procs), NEW p \in Procs, DisplaceLock(p), CoreTypes'
  PROVE  CoreOwn(p)
<1>1. CoreTypes /\ CorePair(p) /\ (quar[Ghost] # None => lockPath = None)
  BY DEF CorePairInv
<1>2. /\ \A q \in Procs : Mine(q) # None /\ Mine(q) # OfGhost /\ Mine(q)[1] = q
      /\ Ghost \notin Procs
  BY <1>1, CoreInodes DEF Mine, CoreTypes
<1>3. \A q \in Procs \ {p} : CorePair(q)
  BY DEF CorePairInv
<1>4. \A q, r \in Procs \ {p} : q = r
  BY DEF AtMostTwo
<1>5. \A q \in Procs \ {p} :
        /\ point'[q] = point[q] /\ try'[q] = try[q] /\ snap'[q] = snap[q] /\ residue'[q] = residue[q]
  BY <1>1 DEF DisplaceLock, At, Advance, CoreTypes
<1>6. (quar[Ghost] # None)' => quar[Ghost] # None /\ lockPath' = None
  BY <1>1, <1>2 DEF DisplaceLock, At, Advance, files, CoreTypes, CorePair, Everyone
<1>7. CorePair(p)'
  BY <1>1, <1>2, <1>3, <1>4, <1>6 DEF DisplaceLock, At, Advance, files, CoreTypes, CorePair, CoreClaims, CoreDisplaced, Mine, Everyone
<1>8. ASSUME NEW q \in Procs \ {p}, CoreClaims(q), lockPath = Mine(q) \/ CoreDisplaced(q)
      PROVE  lockPath' = Mine(q) \/ CoreDisplaced(q)'
  BY <1>1, <1>2, <1>3, <1>4, <1>5, <1>8 DEF DisplaceLock, At, Advance, files, CoreTypes, CorePair, CoreClaims, CoreDisplaced, Mine, Everyone
<1>. QED
  BY <1>5, <1>6, <1>7, <1>8 DEF CoreOwn

LEMMA CheckDisplacedPair ==
  ASSUME CorePairInv, AtMostTwo(Procs), NEW p \in Procs, CheckDisplaced(p), CoreTypes'
  PROVE  CoreOwn(p)
<1>1. CoreTypes /\ CorePair(p) /\ (quar[Ghost] # None => lockPath = None)
  BY DEF CorePairInv
<1>2. /\ \A q \in Procs : Mine(q) # None /\ Mine(q) # OfGhost /\ Mine(q)[1] = q
      /\ Ghost \notin Procs
  BY <1>1, CoreInodes DEF Mine, CoreTypes
<1>3. \A q \in Procs \ {p} : CorePair(q)
  BY DEF CorePairInv
<1>4. \A q, r \in Procs \ {p} : q = r
  BY DEF AtMostTwo
<1>5. \A q \in Procs \ {p} :
        /\ point'[q] = point[q] /\ try'[q] = try[q] /\ snap'[q] = snap[q] /\ residue'[q] = residue[q]
  BY <1>1 DEF CheckDisplaced, At, Advance, CoreTypes, Again
<1>6. (quar[Ghost] # None)' => quar[Ghost] # None /\ lockPath' = None
  BY <1>1, <1>2 DEF CheckDisplaced, At, Advance, files, CoreTypes, CorePair, Everyone, Again
<1>7. CorePair(p)'
  BY <1>1, <1>2, <1>3, <1>4, <1>6 DEF CheckDisplaced, At, Advance, files, CoreTypes, CorePair, CoreClaims, CoreDisplaced, Mine, Everyone, Again
<1>8. ASSUME NEW q \in Procs \ {p}, CoreClaims(q), lockPath = Mine(q) \/ CoreDisplaced(q)
      PROVE  lockPath' = Mine(q) \/ CoreDisplaced(q)'
  BY <1>1, <1>2, <1>3, <1>4, <1>5, <1>8 DEF CheckDisplaced, At, Advance, files, CoreTypes, CorePair, CoreClaims, CoreDisplaced, Mine, Everyone, Again
<1>. QED
  BY <1>5, <1>6, <1>7, <1>8 DEF CoreOwn

LEMMA StartReleasePair ==
  ASSUME CorePairInv, AtMostTwo(Procs), NEW p \in Procs, StartRelease(p), CoreTypes'
  PROVE  CoreOwn(p)
<1>1. CoreTypes /\ CorePair(p) /\ (quar[Ghost] # None => lockPath = None)
  BY DEF CorePairInv
<1>2. /\ \A q \in Procs : Mine(q) # None /\ Mine(q) # OfGhost /\ Mine(q)[1] = q
      /\ Ghost \notin Procs
  BY <1>1, CoreInodes DEF Mine, CoreTypes
<1>3. \A q \in Procs \ {p} : CorePair(q)
  BY DEF CorePairInv
<1>4. \A q, r \in Procs \ {p} : q = r
  BY DEF AtMostTwo
<1>5. \A q \in Procs \ {p} :
        /\ point'[q] = point[q] /\ try'[q] = try[q] /\ snap'[q] = snap[q] /\ residue'[q] = residue[q]
  BY <1>1 DEF StartRelease, At, Advance, CoreTypes
<1>6. (quar[Ghost] # None)' => quar[Ghost] # None /\ lockPath' = None
  BY <1>1, <1>2 DEF StartRelease, At, Advance, files, CoreTypes, CorePair, Everyone
<1>7. CorePair(p)'
  BY <1>1, <1>2, <1>3, <1>4, <1>6 DEF StartRelease, At, Advance, files, CoreTypes, CorePair, CoreClaims, CoreDisplaced, Mine, Everyone
<1>8. ASSUME NEW q \in Procs \ {p}, CoreClaims(q), lockPath = Mine(q) \/ CoreDisplaced(q)
      PROVE  lockPath' = Mine(q) \/ CoreDisplaced(q)'
  BY <1>1, <1>2, <1>3, <1>4, <1>5, <1>8 DEF StartRelease, At, Advance, files, CoreTypes, CorePair, CoreClaims, CoreDisplaced, Mine, Everyone
<1>. QED
  BY <1>5, <1>6, <1>7, <1>8 DEF CoreOwn

LEMMA QuarantineOwnPair ==
  ASSUME CorePairInv, AtMostTwo(Procs), NEW p \in Procs, QuarantineOwn(p), CoreTypes'
  PROVE  CoreOwn(p)
<1>1. CoreTypes /\ CorePair(p) /\ (quar[Ghost] # None => lockPath = None)
  BY DEF CorePairInv
<1>2. /\ \A q \in Procs : Mine(q) # None /\ Mine(q) # OfGhost /\ Mine(q)[1] = q
      /\ Ghost \notin Procs
  BY <1>1, CoreInodes DEF Mine, CoreTypes
<1>3. \A q \in Procs \ {p} : CorePair(q)
  BY DEF CorePairInv
<1>4. \A q, r \in Procs \ {p} : q = r
  BY DEF AtMostTwo
<1>5. \A q \in Procs \ {p} :
        /\ point'[q] = point[q] /\ try'[q] = try[q] /\ snap'[q] = snap[q] /\ residue'[q] = residue[q]
  BY <1>1 DEF QuarantineOwn, At, Advance, CoreTypes
<1>6. (quar[Ghost] # None)' => quar[Ghost] # None /\ lockPath' = None
  BY <1>1, <1>2 DEF QuarantineOwn, At, Advance, files, CoreTypes, CorePair, Everyone
<1>7. CorePair(p)'
  BY <1>1, <1>2, <1>3, <1>4, <1>6 DEF QuarantineOwn, At, Advance, files, CoreTypes, CorePair, CoreClaims, CoreDisplaced, Mine, Everyone
<1>8. ASSUME NEW q \in Procs \ {p}, CoreClaims(q), lockPath = Mine(q) \/ CoreDisplaced(q)
      PROVE  lockPath' = Mine(q) \/ CoreDisplaced(q)'
  BY <1>1, <1>2, <1>3, <1>4, <1>5, <1>8 DEF QuarantineOwn, At, Advance, files, CoreTypes, CorePair, CoreClaims, CoreDisplaced, Mine, Everyone
<1>. QED
  BY <1>5, <1>6, <1>7, <1>8 DEF CoreOwn

LEMMA FinishReleasePair ==
  ASSUME CorePairInv, AtMostTwo(Procs), NEW p \in Procs, FinishRelease(p), CoreTypes'
  PROVE  CoreOwn(p)
<1>1. CoreTypes /\ CorePair(p) /\ (quar[Ghost] # None => lockPath = None)
  BY DEF CorePairInv
<1>2. /\ \A q \in Procs : Mine(q) # None /\ Mine(q) # OfGhost /\ Mine(q)[1] = q
      /\ Ghost \notin Procs
  BY <1>1, CoreInodes DEF Mine, CoreTypes
<1>3. \A q \in Procs \ {p} : CorePair(q)
  BY DEF CorePairInv
<1>4. \A q, r \in Procs \ {p} : q = r
  BY DEF AtMostTwo
<1>5. \A q \in Procs \ {p} :
        /\ point'[q] = point[q] /\ try'[q] = try[q] /\ snap'[q] = snap[q] /\ residue'[q] = residue[q]
  BY <1>1 DEF FinishRelease, At, Advance, CoreTypes
<1>6. (quar[Ghost] # None)' => quar[Ghost] # None /\ lockPath' = None
  BY <1>1, <1>2 DEF FinishRelease, At, Advance, files, CoreTypes, CorePair, Everyone
<1>7. CorePair(p)'
  BY <1>1, <1>2, <1>3, <1>4, <1>6 DEF FinishRelease, At, Advance, files, CoreTypes, CorePair, CoreClaims, CoreDisplaced, Mine, Everyone
<1>8. ASSUME NEW q \in Procs \ {p}, CoreClaims(q), lockPath = Mine(q) \/ CoreDisplaced(q)
      PROVE  lockPath' = Mine(q) \/ CoreDisplaced(q)'
  BY <1>1, <1>2, <1>3, <1>4, <1>5, <1>8 DEF FinishRelease, At, Advance, files, CoreTypes, CorePair, CoreClaims, CoreDisplaced, Mine, Everyone
<1>. QED
  BY <1>5, <1>6, <1>7, <1>8 DEF CoreOwn

LEMMA CorePairStep ==
  ASSUME CoreInv, CorePairInv, AtMostTwo(Procs), [CoreLockNext]_coreLockVars
  PROVE  CorePairInv'
<1>1. CoreTypes'
  BY CoreStep DEF CoreInv
<1>2. ASSUME NEW p \in Procs, Acquire(p) \/ Release(p)
      PROVE  CorePairInv'
  <2>1. CoreOwn(p)
    BY <1>1, <1>2, SeeLockPair, ScanQuarantinesPair, RestoreQuarantinePair, CreateCandidatePair,
       LinkLockPair, DropCandidatePair, DropAndRepairPair, ReadOwnerPair, RereadOwnerPair,
       DisplaceLockPair, CheckDisplacedPair, StartReleasePair, QuarantineOwnPair,
       FinishReleasePair
       DEF Acquire, Release
  <2>2. living' = living
    BY <1>2 DEF Acquire, Release, SeeLock, ScanQuarantines, RestoreQuarantine, CreateCandidate,
       LinkLock, DropCandidate, DropAndRepair, ReadOwner, RereadOwner, DisplaceLock,
       CheckDisplaced, StartRelease, QuarantineOwn, FinishRelease
  <2>3. ASSUME NEW q \in Procs \ {p} PROVE CorePair(q)'
    <3>1. /\ CorePair(q)
          /\ point'[q] = point[q] /\ snap'[q] = snap[q] /\ residue'[q] = residue[q]
          /\ (quar[Ghost] # None)' => quar[Ghost] # None
      BY <2>1 DEF CoreOwn, CorePairInv
    <3>2. CoreClaims(q)' => CoreClaims(q)
      BY <2>2, <3>1 DEF CoreClaims
    <3>3. CoreClaims(q)' => lockPath' = Mine(q) \/ CoreDisplaced(q)'
      BY <2>1, <3>1, <3>2 DEF CoreOwn, CorePair
    <3>4. try'[q] = try[q]
      BY <2>1 DEF CoreOwn
    <3>. QED
      BY <2>2, <3>1, <3>3, <3>4 DEF CorePair, Mine
  <2>. QED
    BY <1>1, <2>1, <2>3 DEF CorePairInv, CoreOwn
<1>3. CASE UNCHANGED <<files, point, try, snap, residue>> /\ living' \subseteq living
  BY <1>1, <1>3 DEF CorePairInv, CorePair, CoreClaims, CoreDisplaced, Mine, files
<1>. QED
  BY <1>2, <1>3 DEF CoreLockNext, OwnerDies, coreLockVars, files

LEMMA CorePairExcludes ==
  ASSUME CorePairInv, AtMostTwo(Procs)
  PROVE  OneOwner
<1>. SUFFICES ASSUME NEW p \in Procs, NEW q \in Procs, Owns(p), Owns(q), p # q
              PROVE  FALSE
  BY DEF OneOwner
<1>1. ASSUME NEW a \in Procs, NEW b \in Procs, a # b, Owns(a), Owns(b)
      PROVE  lockPath = Mine(a)
  <2>1. lockPath = Mine(a) \/ CoreDisplaced(a)
    BY <1>1 DEF Owns, CorePairInv, CorePair, CoreClaims
  <2>2. \A c \in Procs \ {a} : c = b
    BY <1>1 DEF AtMostTwo
  <2>. QED
    BY <1>1, <2>1, <2>2 DEF CoreDisplaced, Owns
<1>2. Mine(p) = Mine(q)
  BY <1>1
<1>3. Mine(p)[1] = p /\ Mine(q)[1] = q
  BY DEF Mine
<1>. QED
  BY <1>2, <1>3

(* Of two processes, at most one owns the destination, whatever a dead one *)
(* left and wherever they die; core_lock_three shows that a third process  *)
(* breaks it.                                                              *)
THEOREM TwoCoresExclude == AtMostTwo(Procs) /\ CoreLockSpec => []OneOwner
<1>. DEFINE Two == AtMostTwo(Procs)
<1>1. Two /\ CoreInv /\ CorePairInv /\ [CoreLockNext]_coreLockVars => CoreInv' /\ CorePairInv'
  BY CoreStep, CorePairStep
<1>2. Two /\ CorePairInv => OneOwner
  BY CorePairExcludes
<1>3. CoreLockInit => CoreInv /\ CorePairInv
  BY CoreInitAlone, CorePairStarts
<1>4. Two => []Two
  <2>1. Two => Two'
    BY DEF AtMostTwo
  <2>. HIDE DEF Two
  <2>. QED
    BY <2>1, PTL
<1>. HIDE DEF Two
<1>. QED
  BY <1>1, <1>2, <1>3, <1>4, PTL DEF CoreLockSpec, Two

-----------------------------------------------------------------------------
(* JournalLock: two processes exclude each other, in the same way; each    *)
(* comes back as often as it likes, so the files of its earlier rounds may *)
(* still be somewhere.                                                     *)
UserClaims(u) ==
  u \in up /\ stage[u] \in {"published", "inside", "leave", "leave again", "put aside"}
UserDisplaced(u) ==
  \E v \in Users \ {u} : reclaim[v] = Token(u) /\ stage[v] \in {"displaced", "failed"}

UserPair(u) ==
  /\ reclaim[DeadUser] # NoFile => stage[u] \in {"out", "start", "scan", "restore", "failed"}
  /\ stage[u] = "restore" =>
       found[u] \in AllUsers \ up /\ (reclaim[DeadUser] # NoFile => found[u] = DeadUser)
  /\ stage[u] \in {"inspect again", "inspect once more", "displace", "displaced"} =>
       sighted[u][1] \notin up
  /\ UserClaims(u) => lockFile = Token(u) \/ UserDisplaced(u)
UserPairInv ==
  UserTypes /\ (reclaim[DeadUser] # NoFile => lockFile = NoFile) /\ \A u \in Users : UserPair(u)

LEMMA UserPairStarts == JournalLockInit => UserPairInv
<1>. SUFFICES ASSUME JournalLockInit PROVE UserPairInv
  OBVIOUS
<1>1. UserTypes
  BY UserInvInit DEF UserInv
<1>. QED
  BY <1>1, DeadIs DEF JournalLockInit, UserPairInv, UserPair, UserClaims, AllUsers

LEMMA OtherUser ==
  ASSUME AtMostTwo(Users), NEW u \in Users, NEW v \in Users \ {u}
  PROVE  /\ UserDisplaced(v) <=> reclaim[u] = Token(v) /\ stage[u] \in {"displaced", "failed"}
         /\ UserDisplaced(v)' <=> reclaim'[u] = Token(v)' /\ stage'[u] \in {"displaced", "failed"}
<1>1. \A w \in Users \ {v} : w = u
  BY DEF AtMostTwo
<1>. QED
  BY <1>1 DEF UserDisplaced

(* What a step of u leaves of the others, and of what u itself claims.     *)
UserOwn(u) ==
  /\ UserPair(u)'
  /\ \A v \in Users \ {u} :
       /\ stage'[v] = stage[v] /\ round'[v] = round[v] /\ sighted'[v] = sighted[v] /\ found'[v] = found[v]
  /\ (reclaim[DeadUser] # NoFile)' => reclaim[DeadUser] # NoFile /\ lockFile' = NoFile
  /\ \A v \in Users \ {u} : UserClaims(v) /\ (lockFile = Token(v) \/ UserDisplaced(v)) =>
                           lockFile' = Token(v) \/ UserDisplaced(v)'

LEMMA EnterPair ==
  ASSUME UserPairInv, AtMostTwo(Users), NEW u \in Users, Enter(u), UserTypes'
  PROVE  UserOwn(u)
<1>1. UserTypes /\ UserPair(u) /\ (reclaim[DeadUser] # NoFile => lockFile = NoFile)
  BY DEF UserPairInv
<1>2. DeadUser \notin Users /\ \A v \in Users : Token(v) # NoFile /\ Token(v)[1] = v
  BY <1>1, TokenIs, DeadIs
<1>3. /\ \A v \in Users \ {u} : UserPair(v)
      /\ \A v, w \in Users \ {u} : v = w
  BY DEF UserPairInv, AtMostTwo
<1>4. \A v \in Users \ {u} :
        /\ stage'[v] = stage[v] /\ round'[v] = round[v] /\ sighted'[v] = sighted[v] /\ found'[v] = found[v]
  BY <1>1 DEF Enter, On, MoveTo, UserTypes
<1>8. \A v \in Users \ {u} : Token(v)' = Token(v)
  BY <1>1, <1>4 DEF Enter, On, Token, UserTypes
<1>5. (reclaim[DeadUser] # NoFile)' => reclaim[DeadUser] # NoFile /\ lockFile' = NoFile
  BY <1>1, <1>2 DEF Enter, On, MoveTo, lockNames, UserTypes, UserPair, AllUsers
<1>6. UserClaims(u)' => lockFile' = Token(u)' \/ UserDisplaced(u)'
  <2>1. UserClaims(u)' => \/ lockFile' = Token(u)'
                          \/ UserClaims(u) /\ lockFile' = lockFile /\ reclaim' = reclaim /\ Token(u)' = Token(u)
    BY <1>1, <1>8 DEF Enter, On, MoveTo, lockNames, UserTypes, UserClaims
  <2>2. UserDisplaced(u) /\ reclaim' = reclaim /\ Token(u)' = Token(u) => UserDisplaced(u)'
    BY <1>4 DEF UserDisplaced
  <2>. QED
    BY <1>1, <2>1, <2>2 DEF UserPair
<1>9. UserPair(u)'
  BY <1>1, <1>2, <1>5, <1>6 DEF Enter, On, MoveTo, lockNames, UserTypes, UserPair, AllUsers
<1>7. ASSUME NEW v \in Users \ {u}, UserClaims(v), lockFile = Token(v) \/ UserDisplaced(v)
      PROVE  lockFile' = Token(v) \/ UserDisplaced(v)'
  <2>1. Token(v)' = Token(v) /\ Token(v) # NoFile /\ Token(v)[1] = v /\ v \in up /\ Token(v) # Token(u)
    BY <1>2, <1>7, <1>8 DEF UserClaims
  <2>2. lockFile = Token(v) \/ (reclaim[u] = Token(v) /\ stage[u] \in {"displaced", "failed"})
    BY <1>7, OtherUser
  <2>3. UserClaims(u) => lockFile = Token(u) \/ UserDisplaced(u)
    BY <1>1 DEF UserPair
  <2>4. ~UserDisplaced(u)
    BY <1>3, <1>7 DEF UserDisplaced, UserClaims
  <2>5. reclaim[DeadUser] = NoFile
    BY <1>3, <1>7 DEF UserPair, UserClaims
  <2>6. \A w \in AllUsers \ up : w = DeadUser
    BY <1>1, <1>2, <1>3, <1>7 DEF Enter, On, AllUsers, UserClaims
  <2>7. lockFile' = Token(v) \/ (reclaim'[u] = Token(v) /\ stage'[u] \in {"displaced", "failed"})
    BY <1>1, <1>2, <2>1, <2>2, <2>3, <2>4, <2>5, <2>6 DEF Enter, On, MoveTo, lockNames, UserTypes, UserPair, UserClaims, AllUsers
  <2>. QED
    BY <2>1, <2>7, OtherUser
<1>. QED
  BY <1>4, <1>5, <1>7, <1>9 DEF UserOwn

LEMMA LookAtLockPair ==
  ASSUME UserPairInv, AtMostTwo(Users), NEW u \in Users, LookAtLock(u), UserTypes'
  PROVE  UserOwn(u)
<1>1. UserTypes /\ UserPair(u) /\ (reclaim[DeadUser] # NoFile => lockFile = NoFile)
  BY DEF UserPairInv
<1>2. DeadUser \notin Users /\ \A v \in Users : Token(v) # NoFile /\ Token(v)[1] = v
  BY <1>1, TokenIs, DeadIs
<1>3. /\ \A v \in Users \ {u} : UserPair(v)
      /\ \A v, w \in Users \ {u} : v = w
  BY DEF UserPairInv, AtMostTwo
<1>4. \A v \in Users \ {u} :
        /\ stage'[v] = stage[v] /\ round'[v] = round[v] /\ sighted'[v] = sighted[v] /\ found'[v] = found[v]
  BY <1>1 DEF LookAtLock, On, MoveTo, UserTypes, Unaliased
<1>8. \A v \in Users : Token(v)' = Token(v)
  BY <1>1, <1>4 DEF LookAtLock, On, Token, UserTypes
<1>5. (reclaim[DeadUser] # NoFile)' => reclaim[DeadUser] # NoFile /\ lockFile' = NoFile
  BY <1>1, <1>2 DEF LookAtLock, On, MoveTo, lockNames, UserTypes, UserPair, AllUsers, Unaliased
<1>6. UserClaims(u)' => lockFile' = Token(u)' \/ UserDisplaced(u)'
  <2>1. UserClaims(u)' => \/ lockFile' = Token(u)'
                          \/ UserClaims(u) /\ lockFile' = lockFile /\ reclaim' = reclaim /\ Token(u)' = Token(u)
    BY <1>1, <1>8 DEF LookAtLock, On, MoveTo, lockNames, UserTypes, UserClaims, Unaliased
  <2>2. UserDisplaced(u) /\ reclaim' = reclaim /\ Token(u)' = Token(u) => UserDisplaced(u)'
    BY <1>4 DEF UserDisplaced
  <2>. QED
    BY <1>1, <2>1, <2>2 DEF UserPair
<1>9. UserPair(u)'
  <2>1. /\ stage'[u] \in {"link", "scan"}
        /\ lockFile # NoFile \/ stage'[u] = "scan"
        /\ lockFile' = lockFile
    BY <1>1 DEF LookAtLock, On, MoveTo, UserTypes
  <2>2. (reclaim[DeadUser] # NoFile)' => stage'[u] = "scan"
    BY <1>5, <2>1
  <2>. QED
    BY <1>6, <2>1, <2>2 DEF UserPair
<1>7. ASSUME NEW v \in Users \ {u}, UserClaims(v), lockFile = Token(v) \/ UserDisplaced(v)
      PROVE  lockFile' = Token(v) \/ UserDisplaced(v)'
  <2>1. Token(v)' = Token(v) /\ Token(v) # NoFile /\ Token(v)[1] = v /\ v \in up /\ Token(v) # Token(u)
    BY <1>2, <1>7, <1>8 DEF UserClaims
  <2>2. lockFile = Token(v) \/ (reclaim[u] = Token(v) /\ stage[u] \in {"displaced", "failed"})
    BY <1>7, OtherUser
  <2>3. UserClaims(u) => lockFile = Token(u) \/ UserDisplaced(u)
    BY <1>1 DEF UserPair
  <2>4. ~UserDisplaced(u)
    BY <1>3, <1>7 DEF UserDisplaced, UserClaims
  <2>5. reclaim[DeadUser] = NoFile
    BY <1>3, <1>7 DEF UserPair, UserClaims
  <2>6. \A w \in AllUsers \ up : w = DeadUser
    BY <1>1, <1>2, <1>3, <1>7 DEF LookAtLock, On, AllUsers, UserClaims
  <2>7. lockFile' = Token(v) \/ (reclaim'[u] = Token(v) /\ stage'[u] \in {"displaced", "failed"})
    BY <1>1, <1>2, <2>1, <2>2, <2>3, <2>4, <2>5, <2>6 DEF LookAtLock, On, MoveTo, lockNames, UserTypes, UserPair, UserClaims, AllUsers, Unaliased
  <2>. QED
    BY <2>1, <2>7, OtherUser
<1>. QED
  BY <1>4, <1>5, <1>7, <1>9 DEF UserOwn

LEMMA ScanReclaimsPair ==
  ASSUME UserPairInv, AtMostTwo(Users), NEW u \in Users, ScanReclaims(u), UserTypes'
  PROVE  UserOwn(u)
<1>1. UserTypes /\ UserPair(u) /\ (reclaim[DeadUser] # NoFile => lockFile = NoFile)
  BY DEF UserPairInv
<1>2. DeadUser \notin Users /\ \A v \in Users : Token(v) # NoFile /\ Token(v)[1] = v
  BY <1>1, TokenIs, DeadIs
<1>3. /\ \A v \in Users \ {u} : UserPair(v)
      /\ \A v, w \in Users \ {u} : v = w
  BY DEF UserPairInv, AtMostTwo
<1>4. \A v \in Users \ {u} :
        /\ stage'[v] = stage[v] /\ round'[v] = round[v] /\ sighted'[v] = sighted[v] /\ found'[v] = found[v]
  BY <1>1 DEF ScanReclaims, On, MoveTo, UserTypes, WaitFor
<1>8. \A v \in Users : Token(v)' = Token(v)
  BY <1>1, <1>4 DEF ScanReclaims, On, Token, UserTypes
<1>5. (reclaim[DeadUser] # NoFile)' => reclaim[DeadUser] # NoFile /\ lockFile' = NoFile
  BY <1>1, <1>2 DEF ScanReclaims, On, MoveTo, lockNames, UserTypes, UserPair, AllUsers, WaitFor
<1>6. UserClaims(u)' => lockFile' = Token(u)' \/ UserDisplaced(u)'
  <2>1. UserClaims(u)' => \/ lockFile' = Token(u)'
                          \/ UserClaims(u) /\ lockFile' = lockFile /\ reclaim' = reclaim /\ Token(u)' = Token(u)
    BY <1>1, <1>8 DEF ScanReclaims, On, MoveTo, lockNames, UserTypes, UserClaims, WaitFor
  <2>2. UserDisplaced(u) /\ reclaim' = reclaim /\ Token(u)' = Token(u) => UserDisplaced(u)'
    BY <1>4 DEF UserDisplaced
  <2>. QED
    BY <1>1, <2>1, <2>2 DEF UserPair
<1>9. UserPair(u)'
  <2>. DEFINE held == {v \in AllUsers : reclaim[v] # NoFile}
  <2>1. DeadUser \in AllUsers /\ (reclaim[DeadUser] # NoFile => DeadUser \in held)
    BY DEF AllUsers
  <2>2. \/ held = {} /\ MoveTo(u, "link") /\ UNCHANGED found
        \/ (MoveTo(u, "failed") \/ MoveTo(u, "start")) /\ UNCHANGED found
        \/ \E v \in held \ up :
             held = {v} /\ found' = [found EXCEPT ![u] = v] /\ MoveTo(u, "restore")
    BY DEF ScanReclaims, WaitFor
  <2>3. held \subseteq AllUsers
    OBVIOUS
  <2>4. UNCHANGED <<reclaim, up, sighted>> /\ On(u, "scan")
    BY DEF ScanReclaims, lockNames
  <2>. HIDE DEF held
  <2>5. \/ held = {} /\ stage'[u] = "link"
        \/ stage'[u] \in {"failed", "start"}
        \/ \E v \in held \ up : held = {v} /\ found'[u] = v /\ stage'[u] = "restore"
    BY <1>1, <2>2 DEF MoveTo, UserTypes
  <2>6. (reclaim[DeadUser] # NoFile)' =>
          stage'[u] \in {"out", "start", "scan", "restore", "failed"}
    BY <2>1, <2>4, <2>5
  <2>7. (stage[u] = "restore")' =>
          (found[u] \in AllUsers \ up /\ (reclaim[DeadUser] # NoFile => found[u] = DeadUser))'
    <3>. SUFFICES ASSUME stage'[u] = "restore"
                  PROVE  found'[u] \in AllUsers \ up /\ (reclaim[DeadUser] # NoFile => found'[u] = DeadUser)
      BY <2>4 DEF AllUsers
    <3>1. PICK v \in held \ up : held = {v} /\ found'[u] = v
      BY <2>5
    <3>. QED
      BY <2>1, <2>3, <3>1
  <2>8. stage'[u] \notin {"inspect again", "inspect once more", "displace", "displaced"}
    BY <2>5
  <2>. QED
    BY <1>6, <2>6, <2>7, <2>8 DEF UserPair
<1>7. ASSUME NEW v \in Users \ {u}, UserClaims(v), lockFile = Token(v) \/ UserDisplaced(v)
      PROVE  lockFile' = Token(v) \/ UserDisplaced(v)'
  <2>1. Token(v)' = Token(v) /\ Token(v) # NoFile /\ Token(v)[1] = v /\ v \in up /\ Token(v) # Token(u)
    BY <1>2, <1>7, <1>8 DEF UserClaims
  <2>2. lockFile = Token(v) \/ (reclaim[u] = Token(v) /\ stage[u] \in {"displaced", "failed"})
    BY <1>7, OtherUser
  <2>3. UserClaims(u) => lockFile = Token(u) \/ UserDisplaced(u)
    BY <1>1 DEF UserPair
  <2>4. ~UserDisplaced(u)
    BY <1>3, <1>7 DEF UserDisplaced, UserClaims
  <2>5. reclaim[DeadUser] = NoFile
    BY <1>3, <1>7 DEF UserPair, UserClaims
  <2>6. \A w \in AllUsers \ up : w = DeadUser
    BY <1>1, <1>2, <1>3, <1>7 DEF ScanReclaims, On, AllUsers, UserClaims
  <2>7. lockFile' = Token(v) \/ (reclaim'[u] = Token(v) /\ stage'[u] \in {"displaced", "failed"})
    BY <1>1, <1>2, <2>1, <2>2, <2>3, <2>4, <2>5, <2>6 DEF ScanReclaims, On, MoveTo, lockNames, UserTypes, UserPair, UserClaims, AllUsers, WaitFor
  <2>. QED
    BY <2>1, <2>7, OtherUser
<1>. QED
  BY <1>4, <1>5, <1>7, <1>9 DEF UserOwn

LEMMA RestoreReclaimPair ==
  ASSUME UserPairInv, AtMostTwo(Users), NEW u \in Users, RestoreReclaim(u), UserTypes'
  PROVE  UserOwn(u)
<1>1. UserTypes /\ UserPair(u) /\ (reclaim[DeadUser] # NoFile => lockFile = NoFile)
  BY DEF UserPairInv
<1>2. DeadUser \notin Users /\ \A v \in Users : Token(v) # NoFile /\ Token(v)[1] = v
  BY <1>1, TokenIs, DeadIs
<1>3. /\ \A v \in Users \ {u} : UserPair(v)
      /\ \A v, w \in Users \ {u} : v = w
  BY DEF UserPairInv, AtMostTwo
<1>4. \A v \in Users \ {u} :
        /\ stage'[v] = stage[v] /\ round'[v] = round[v] /\ sighted'[v] = sighted[v] /\ found'[v] = found[v]
  BY <1>1 DEF RestoreReclaim, On, MoveTo, UserTypes
<1>8. \A v \in Users : Token(v)' = Token(v)
  BY <1>1, <1>4 DEF RestoreReclaim, On, Token, UserTypes
<1>5. (reclaim[DeadUser] # NoFile)' => reclaim[DeadUser] # NoFile /\ lockFile' = NoFile
  BY <1>1, <1>2 DEF RestoreReclaim, On, MoveTo, lockNames, UserTypes, UserPair, AllUsers
<1>6. UserClaims(u)' => lockFile' = Token(u)' \/ UserDisplaced(u)'
  <2>1. UserClaims(u)' => \/ lockFile' = Token(u)'
                          \/ UserClaims(u) /\ lockFile' = lockFile /\ reclaim' = reclaim /\ Token(u)' = Token(u)
    BY <1>1, <1>8 DEF RestoreReclaim, On, MoveTo, lockNames, UserTypes, UserClaims
  <2>2. UserDisplaced(u) /\ reclaim' = reclaim /\ Token(u)' = Token(u) => UserDisplaced(u)'
    BY <1>4 DEF UserDisplaced
  <2>. QED
    BY <1>1, <2>1, <2>2 DEF UserPair
<1>9. UserPair(u)'
  BY <1>1, <1>2, <1>5, <1>6 DEF RestoreReclaim, On, MoveTo, lockNames, UserTypes, UserPair, AllUsers
<1>7. ASSUME NEW v \in Users \ {u}, UserClaims(v), lockFile = Token(v) \/ UserDisplaced(v)
      PROVE  lockFile' = Token(v) \/ UserDisplaced(v)'
  <2>1. Token(v)' = Token(v) /\ Token(v) # NoFile /\ Token(v)[1] = v /\ v \in up /\ Token(v) # Token(u)
    BY <1>2, <1>7, <1>8 DEF UserClaims
  <2>2. lockFile = Token(v) \/ (reclaim[u] = Token(v) /\ stage[u] \in {"displaced", "failed"})
    BY <1>7, OtherUser
  <2>3. UserClaims(u) => lockFile = Token(u) \/ UserDisplaced(u)
    BY <1>1 DEF UserPair
  <2>4. ~UserDisplaced(u)
    BY <1>3, <1>7 DEF UserDisplaced, UserClaims
  <2>5. reclaim[DeadUser] = NoFile
    BY <1>3, <1>7 DEF UserPair, UserClaims
  <2>6. \A w \in AllUsers \ up : w = DeadUser
    BY <1>1, <1>2, <1>3, <1>7 DEF RestoreReclaim, On, AllUsers, UserClaims
  <2>7. lockFile' = Token(v) \/ (reclaim'[u] = Token(v) /\ stage'[u] \in {"displaced", "failed"})
    BY <1>1, <1>2, <2>1, <2>2, <2>3, <2>4, <2>5, <2>6 DEF RestoreReclaim, On, MoveTo, lockNames, UserTypes, UserPair, UserClaims, AllUsers
  <2>. QED
    BY <2>1, <2>7, OtherUser
<1>. QED
  BY <1>4, <1>5, <1>7, <1>9 DEF UserOwn

LEMMA WriteCandidatePair ==
  ASSUME UserPairInv, AtMostTwo(Users), NEW u \in Users, WriteCandidate(u), UserTypes'
  PROVE  UserOwn(u)
<1>1. UserTypes /\ UserPair(u) /\ (reclaim[DeadUser] # NoFile => lockFile = NoFile)
  BY DEF UserPairInv
<1>2. DeadUser \notin Users /\ \A v \in Users : Token(v) # NoFile /\ Token(v)[1] = v
  BY <1>1, TokenIs, DeadIs
<1>3. /\ \A v \in Users \ {u} : UserPair(v)
      /\ \A v, w \in Users \ {u} : v = w
  BY DEF UserPairInv, AtMostTwo
<1>4. \A v \in Users \ {u} :
        /\ stage'[v] = stage[v] /\ round'[v] = round[v] /\ sighted'[v] = sighted[v] /\ found'[v] = found[v]
  BY <1>1 DEF WriteCandidate, On, MoveTo, UserTypes
<1>8. \A v \in Users : Token(v)' = Token(v)
  BY <1>1, <1>4 DEF WriteCandidate, On, Token, UserTypes
<1>5. (reclaim[DeadUser] # NoFile)' => reclaim[DeadUser] # NoFile /\ lockFile' = NoFile
  BY <1>1, <1>2 DEF WriteCandidate, On, MoveTo, lockNames, UserTypes, UserPair, AllUsers
<1>6. UserClaims(u)' => lockFile' = Token(u)' \/ UserDisplaced(u)'
  <2>1. UserClaims(u)' => \/ lockFile' = Token(u)'
                          \/ UserClaims(u) /\ lockFile' = lockFile /\ reclaim' = reclaim /\ Token(u)' = Token(u)
    BY <1>1, <1>8 DEF WriteCandidate, On, MoveTo, lockNames, UserTypes, UserClaims
  <2>2. UserDisplaced(u) /\ reclaim' = reclaim /\ Token(u)' = Token(u) => UserDisplaced(u)'
    BY <1>4 DEF UserDisplaced
  <2>. QED
    BY <1>1, <2>1, <2>2 DEF UserPair
<1>9. UserPair(u)'
  BY <1>1, <1>2, <1>5, <1>6 DEF WriteCandidate, On, MoveTo, lockNames, UserTypes, UserPair, AllUsers
<1>7. ASSUME NEW v \in Users \ {u}, UserClaims(v), lockFile = Token(v) \/ UserDisplaced(v)
      PROVE  lockFile' = Token(v) \/ UserDisplaced(v)'
  <2>1. Token(v)' = Token(v) /\ Token(v) # NoFile /\ Token(v)[1] = v /\ v \in up /\ Token(v) # Token(u)
    BY <1>2, <1>7, <1>8 DEF UserClaims
  <2>2. lockFile = Token(v) \/ (reclaim[u] = Token(v) /\ stage[u] \in {"displaced", "failed"})
    BY <1>7, OtherUser
  <2>3. UserClaims(u) => lockFile = Token(u) \/ UserDisplaced(u)
    BY <1>1 DEF UserPair
  <2>4. ~UserDisplaced(u)
    BY <1>3, <1>7 DEF UserDisplaced, UserClaims
  <2>5. reclaim[DeadUser] = NoFile
    BY <1>3, <1>7 DEF UserPair, UserClaims
  <2>6. \A w \in AllUsers \ up : w = DeadUser
    BY <1>1, <1>2, <1>3, <1>7 DEF WriteCandidate, On, AllUsers, UserClaims
  <2>7. lockFile' = Token(v) \/ (reclaim'[u] = Token(v) /\ stage'[u] \in {"displaced", "failed"})
    BY <1>1, <1>2, <2>1, <2>2, <2>3, <2>4, <2>5, <2>6 DEF WriteCandidate, On, MoveTo, lockNames, UserTypes, UserPair, UserClaims, AllUsers
  <2>. QED
    BY <2>1, <2>7, OtherUser
<1>. QED
  BY <1>4, <1>5, <1>7, <1>9 DEF UserOwn

LEMMA LinkLockFilePair ==
  ASSUME UserPairInv, AtMostTwo(Users), NEW u \in Users, LinkLockFile(u), UserTypes'
  PROVE  UserOwn(u)
<1>1. UserTypes /\ UserPair(u) /\ (reclaim[DeadUser] # NoFile => lockFile = NoFile)
  BY DEF UserPairInv
<1>2. DeadUser \notin Users /\ \A v \in Users : Token(v) # NoFile /\ Token(v)[1] = v
  BY <1>1, TokenIs, DeadIs
<1>3. /\ \A v \in Users \ {u} : UserPair(v)
      /\ \A v, w \in Users \ {u} : v = w
  BY DEF UserPairInv, AtMostTwo
<1>4. \A v \in Users \ {u} :
        /\ stage'[v] = stage[v] /\ round'[v] = round[v] /\ sighted'[v] = sighted[v] /\ found'[v] = found[v]
  BY <1>1 DEF LinkLockFile, On, MoveTo, UserTypes
<1>8. \A v \in Users : Token(v)' = Token(v)
  BY <1>1, <1>4 DEF LinkLockFile, On, Token, UserTypes
<1>5. (reclaim[DeadUser] # NoFile)' => reclaim[DeadUser] # NoFile /\ lockFile' = NoFile
  BY <1>1, <1>2 DEF LinkLockFile, On, MoveTo, lockNames, UserTypes, UserPair, AllUsers
<1>6. UserClaims(u)' => lockFile' = Token(u)' \/ UserDisplaced(u)'
  <2>1. UserClaims(u)' => \/ lockFile' = Token(u)'
                          \/ UserClaims(u) /\ lockFile' = lockFile /\ reclaim' = reclaim /\ Token(u)' = Token(u)
    BY <1>1, <1>8 DEF LinkLockFile, On, MoveTo, lockNames, UserTypes, UserClaims
  <2>2. UserDisplaced(u) /\ reclaim' = reclaim /\ Token(u)' = Token(u) => UserDisplaced(u)'
    BY <1>4 DEF UserDisplaced
  <2>. QED
    BY <1>1, <2>1, <2>2 DEF UserPair
<1>9. UserPair(u)'
  BY <1>1, <1>2, <1>5, <1>6 DEF LinkLockFile, On, MoveTo, lockNames, UserTypes, UserPair, AllUsers
<1>7. ASSUME NEW v \in Users \ {u}, UserClaims(v), lockFile = Token(v) \/ UserDisplaced(v)
      PROVE  lockFile' = Token(v) \/ UserDisplaced(v)'
  <2>1. Token(v)' = Token(v) /\ Token(v) # NoFile /\ Token(v)[1] = v /\ v \in up /\ Token(v) # Token(u)
    BY <1>2, <1>7, <1>8 DEF UserClaims
  <2>2. lockFile = Token(v) \/ (reclaim[u] = Token(v) /\ stage[u] \in {"displaced", "failed"})
    BY <1>7, OtherUser
  <2>3. UserClaims(u) => lockFile = Token(u) \/ UserDisplaced(u)
    BY <1>1 DEF UserPair
  <2>4. ~UserDisplaced(u)
    BY <1>3, <1>7 DEF UserDisplaced, UserClaims
  <2>5. reclaim[DeadUser] = NoFile
    BY <1>3, <1>7 DEF UserPair, UserClaims
  <2>6. \A w \in AllUsers \ up : w = DeadUser
    BY <1>1, <1>2, <1>3, <1>7 DEF LinkLockFile, On, AllUsers, UserClaims
  <2>7. lockFile' = Token(v) \/ (reclaim'[u] = Token(v) /\ stage'[u] \in {"displaced", "failed"})
    BY <1>1, <1>2, <2>1, <2>2, <2>3, <2>4, <2>5, <2>6 DEF LinkLockFile, On, MoveTo, lockNames, UserTypes, UserPair, UserClaims, AllUsers
  <2>. QED
    BY <2>1, <2>7, OtherUser
<1>. QED
  BY <1>4, <1>5, <1>7, <1>9 DEF UserOwn

LEMMA UnlinkOwnCandidatePair ==
  ASSUME UserPairInv, AtMostTwo(Users), NEW u \in Users, UnlinkOwnCandidate(u), UserTypes'
  PROVE  UserOwn(u)
<1>1. UserTypes /\ UserPair(u) /\ (reclaim[DeadUser] # NoFile => lockFile = NoFile)
  BY DEF UserPairInv
<1>2. DeadUser \notin Users /\ \A v \in Users : Token(v) # NoFile /\ Token(v)[1] = v
  BY <1>1, TokenIs, DeadIs
<1>3. /\ \A v \in Users \ {u} : UserPair(v)
      /\ \A v, w \in Users \ {u} : v = w
  BY DEF UserPairInv, AtMostTwo
<1>4. \A v \in Users \ {u} :
        /\ stage'[v] = stage[v] /\ round'[v] = round[v] /\ sighted'[v] = sighted[v] /\ found'[v] = found[v]
  BY <1>1 DEF UnlinkOwnCandidate, On, MoveTo, UserTypes
<1>8. \A v \in Users : Token(v)' = Token(v)
  BY <1>1, <1>4 DEF UnlinkOwnCandidate, On, Token, UserTypes
<1>5. (reclaim[DeadUser] # NoFile)' => reclaim[DeadUser] # NoFile /\ lockFile' = NoFile
  BY <1>1, <1>2 DEF UnlinkOwnCandidate, On, MoveTo, lockNames, UserTypes, UserPair, AllUsers
<1>6. UserClaims(u)' => lockFile' = Token(u)' \/ UserDisplaced(u)'
  <2>1. UserClaims(u)' => \/ lockFile' = Token(u)'
                          \/ UserClaims(u) /\ lockFile' = lockFile /\ reclaim' = reclaim /\ Token(u)' = Token(u)
    BY <1>1, <1>8 DEF UnlinkOwnCandidate, On, MoveTo, lockNames, UserTypes, UserClaims
  <2>2. UserDisplaced(u) /\ reclaim' = reclaim /\ Token(u)' = Token(u) => UserDisplaced(u)'
    BY <1>4 DEF UserDisplaced
  <2>. QED
    BY <1>1, <2>1, <2>2 DEF UserPair
<1>9. UserPair(u)'
  BY <1>1, <1>2, <1>5, <1>6 DEF UnlinkOwnCandidate, On, MoveTo, lockNames, UserTypes, UserPair, AllUsers
<1>7. ASSUME NEW v \in Users \ {u}, UserClaims(v), lockFile = Token(v) \/ UserDisplaced(v)
      PROVE  lockFile' = Token(v) \/ UserDisplaced(v)'
  <2>1. Token(v)' = Token(v) /\ Token(v) # NoFile /\ Token(v)[1] = v /\ v \in up /\ Token(v) # Token(u)
    BY <1>2, <1>7, <1>8 DEF UserClaims
  <2>2. lockFile = Token(v) \/ (reclaim[u] = Token(v) /\ stage[u] \in {"displaced", "failed"})
    BY <1>7, OtherUser
  <2>3. UserClaims(u) => lockFile = Token(u) \/ UserDisplaced(u)
    BY <1>1 DEF UserPair
  <2>4. ~UserDisplaced(u)
    BY <1>3, <1>7 DEF UserDisplaced, UserClaims
  <2>5. reclaim[DeadUser] = NoFile
    BY <1>3, <1>7 DEF UserPair, UserClaims
  <2>6. \A w \in AllUsers \ up : w = DeadUser
    BY <1>1, <1>2, <1>3, <1>7 DEF UnlinkOwnCandidate, On, AllUsers, UserClaims
  <2>7. lockFile' = Token(v) \/ (reclaim'[u] = Token(v) /\ stage'[u] \in {"displaced", "failed"})
    BY <1>1, <1>2, <2>1, <2>2, <2>3, <2>4, <2>5, <2>6 DEF UnlinkOwnCandidate, On, MoveTo, lockNames, UserTypes, UserPair, UserClaims, AllUsers
  <2>. QED
    BY <2>1, <2>7, OtherUser
<1>. QED
  BY <1>4, <1>5, <1>7, <1>9 DEF UserOwn

LEMMA GiveWayPair ==
  ASSUME UserPairInv, AtMostTwo(Users), NEW u \in Users, GiveWay(u), UserTypes'
  PROVE  UserOwn(u)
<1>1. UserTypes /\ UserPair(u) /\ (reclaim[DeadUser] # NoFile => lockFile = NoFile)
  BY DEF UserPairInv
<1>2. DeadUser \notin Users /\ \A v \in Users : Token(v) # NoFile /\ Token(v)[1] = v
  BY <1>1, TokenIs, DeadIs
<1>3. /\ \A v \in Users \ {u} : UserPair(v)
      /\ \A v, w \in Users \ {u} : v = w
  BY DEF UserPairInv, AtMostTwo
<1>4. \A v \in Users \ {u} :
        /\ stage'[v] = stage[v] /\ round'[v] = round[v] /\ sighted'[v] = sighted[v] /\ found'[v] = found[v]
  BY <1>1 DEF GiveWay, On, MoveTo, UserTypes, Unaliased, WaitFor
<1>8. \A v \in Users : Token(v)' = Token(v)
  BY <1>1, <1>4 DEF GiveWay, On, Token, UserTypes
<1>5. (reclaim[DeadUser] # NoFile)' => reclaim[DeadUser] # NoFile /\ lockFile' = NoFile
  BY <1>1, <1>2 DEF GiveWay, On, MoveTo, lockNames, UserTypes, UserPair, AllUsers, Unaliased, WaitFor
<1>6. UserClaims(u)' => lockFile' = Token(u)' \/ UserDisplaced(u)'
  <2>1. UserClaims(u)' => \/ lockFile' = Token(u)'
                          \/ UserClaims(u) /\ lockFile' = lockFile /\ reclaim' = reclaim /\ Token(u)' = Token(u)
    BY <1>1, <1>8 DEF GiveWay, On, MoveTo, lockNames, UserTypes, UserClaims, Unaliased, WaitFor
  <2>2. UserDisplaced(u) /\ reclaim' = reclaim /\ Token(u)' = Token(u) => UserDisplaced(u)'
    BY <1>4 DEF UserDisplaced
  <2>. QED
    BY <1>1, <2>1, <2>2 DEF UserPair
<1>9. UserPair(u)'
  BY <1>1, <1>5, <1>6 DEF GiveWay, On, MoveTo, WaitFor, UserTypes, UserPair
<1>7. ASSUME NEW v \in Users \ {u}, UserClaims(v), lockFile = Token(v) \/ UserDisplaced(v)
      PROVE  lockFile' = Token(v) \/ UserDisplaced(v)'
  <2>1. Token(v)' = Token(v) /\ Token(v) # NoFile /\ Token(v)[1] = v /\ v \in up /\ Token(v) # Token(u)
    BY <1>2, <1>7, <1>8 DEF UserClaims
  <2>2. lockFile = Token(v) \/ (reclaim[u] = Token(v) /\ stage[u] \in {"displaced", "failed"})
    BY <1>7, OtherUser
  <2>3. UserClaims(u) => lockFile = Token(u) \/ UserDisplaced(u)
    BY <1>1 DEF UserPair
  <2>4. ~UserDisplaced(u)
    BY <1>3, <1>7 DEF UserDisplaced, UserClaims
  <2>5. reclaim[DeadUser] = NoFile
    BY <1>3, <1>7 DEF UserPair, UserClaims
  <2>6. \A w \in AllUsers \ up : w = DeadUser
    BY <1>1, <1>2, <1>3, <1>7 DEF GiveWay, On, AllUsers, UserClaims
  <2>7. lockFile' = Token(v) \/ (reclaim'[u] = Token(v) /\ stage'[u] \in {"displaced", "failed"})
    BY <1>1, <1>2, <2>1, <2>2, <2>3, <2>4, <2>5, <2>6 DEF GiveWay, On, MoveTo, lockNames, UserTypes, UserPair, UserClaims, AllUsers, Unaliased, WaitFor
  <2>. QED
    BY <2>1, <2>7, OtherUser
<1>. QED
  BY <1>4, <1>5, <1>7, <1>9 DEF UserOwn

LEMMA Inspect1Pair ==
  ASSUME UserPairInv, AtMostTwo(Users), NEW u \in Users, Inspect1(u), UserTypes'
  PROVE  UserOwn(u)
<1>1. UserTypes /\ UserPair(u) /\ (reclaim[DeadUser] # NoFile => lockFile = NoFile)
  BY DEF UserPairInv
<1>2. DeadUser \notin Users /\ \A v \in Users : Token(v) # NoFile /\ Token(v)[1] = v
  BY <1>1, TokenIs, DeadIs
<1>3. /\ \A v \in Users \ {u} : UserPair(v)
      /\ \A v, w \in Users \ {u} : v = w
  BY DEF UserPairInv, AtMostTwo
<1>4. \A v \in Users \ {u} :
        /\ stage'[v] = stage[v] /\ round'[v] = round[v] /\ sighted'[v] = sighted[v] /\ found'[v] = found[v]
  BY <1>1 DEF Inspect1, On, MoveTo, UserTypes, WaitFor
<1>8. \A v \in Users : Token(v)' = Token(v)
  BY <1>1, <1>4 DEF Inspect1, On, Token, UserTypes
<1>5. (reclaim[DeadUser] # NoFile)' => reclaim[DeadUser] # NoFile /\ lockFile' = NoFile
  BY <1>1, <1>2 DEF Inspect1, On, MoveTo, lockNames, UserTypes, UserPair, AllUsers, WaitFor
<1>6. UserClaims(u)' => lockFile' = Token(u)' \/ UserDisplaced(u)'
  <2>1. UserClaims(u)' => \/ lockFile' = Token(u)'
                          \/ UserClaims(u) /\ lockFile' = lockFile /\ reclaim' = reclaim /\ Token(u)' = Token(u)
    BY <1>1, <1>8 DEF Inspect1, On, MoveTo, lockNames, UserTypes, UserClaims, WaitFor
  <2>2. UserDisplaced(u) /\ reclaim' = reclaim /\ Token(u)' = Token(u) => UserDisplaced(u)'
    BY <1>4 DEF UserDisplaced
  <2>. QED
    BY <1>1, <2>1, <2>2 DEF UserPair
<1>9. UserPair(u)'
  BY <1>1, <1>2, <1>5, <1>6 DEF Inspect1, On, MoveTo, lockNames, UserTypes, UserPair, AllUsers, WaitFor
<1>7. ASSUME NEW v \in Users \ {u}, UserClaims(v), lockFile = Token(v) \/ UserDisplaced(v)
      PROVE  lockFile' = Token(v) \/ UserDisplaced(v)'
  <2>1. Token(v)' = Token(v) /\ Token(v) # NoFile /\ Token(v)[1] = v /\ v \in up /\ Token(v) # Token(u)
    BY <1>2, <1>7, <1>8 DEF UserClaims
  <2>2. lockFile = Token(v) \/ (reclaim[u] = Token(v) /\ stage[u] \in {"displaced", "failed"})
    BY <1>7, OtherUser
  <2>3. UserClaims(u) => lockFile = Token(u) \/ UserDisplaced(u)
    BY <1>1 DEF UserPair
  <2>4. ~UserDisplaced(u)
    BY <1>3, <1>7 DEF UserDisplaced, UserClaims
  <2>5. reclaim[DeadUser] = NoFile
    BY <1>3, <1>7 DEF UserPair, UserClaims
  <2>6. \A w \in AllUsers \ up : w = DeadUser
    BY <1>1, <1>2, <1>3, <1>7 DEF Inspect1, On, AllUsers, UserClaims
  <2>7. lockFile' = Token(v) \/ (reclaim'[u] = Token(v) /\ stage'[u] \in {"displaced", "failed"})
    BY <1>1, <1>2, <2>1, <2>2, <2>3, <2>4, <2>5, <2>6 DEF Inspect1, On, MoveTo, lockNames, UserTypes, UserPair, UserClaims, AllUsers, WaitFor
  <2>. QED
    BY <2>1, <2>7, OtherUser
<1>. QED
  BY <1>4, <1>5, <1>7, <1>9 DEF UserOwn

LEMMA Inspect2Pair ==
  ASSUME UserPairInv, AtMostTwo(Users), NEW u \in Users, Inspect2(u), UserTypes'
  PROVE  UserOwn(u)
<1>1. UserTypes /\ UserPair(u) /\ (reclaim[DeadUser] # NoFile => lockFile = NoFile)
  BY DEF UserPairInv
<1>2. DeadUser \notin Users /\ \A v \in Users : Token(v) # NoFile /\ Token(v)[1] = v
  BY <1>1, TokenIs, DeadIs
<1>3. /\ \A v \in Users \ {u} : UserPair(v)
      /\ \A v, w \in Users \ {u} : v = w
  BY DEF UserPairInv, AtMostTwo
<1>4. \A v \in Users \ {u} :
        /\ stage'[v] = stage[v] /\ round'[v] = round[v] /\ sighted'[v] = sighted[v] /\ found'[v] = found[v]
  BY <1>1 DEF Inspect2, On, MoveTo, UserTypes, WaitFor
<1>8. \A v \in Users : Token(v)' = Token(v)
  BY <1>1, <1>4 DEF Inspect2, On, Token, UserTypes
<1>5. (reclaim[DeadUser] # NoFile)' => reclaim[DeadUser] # NoFile /\ lockFile' = NoFile
  BY <1>1, <1>2 DEF Inspect2, On, MoveTo, lockNames, UserTypes, UserPair, AllUsers, WaitFor
<1>6. UserClaims(u)' => lockFile' = Token(u)' \/ UserDisplaced(u)'
  <2>1. UserClaims(u)' => \/ lockFile' = Token(u)'
                          \/ UserClaims(u) /\ lockFile' = lockFile /\ reclaim' = reclaim /\ Token(u)' = Token(u)
    BY <1>1, <1>8 DEF Inspect2, On, MoveTo, lockNames, UserTypes, UserClaims, WaitFor
  <2>2. UserDisplaced(u) /\ reclaim' = reclaim /\ Token(u)' = Token(u) => UserDisplaced(u)'
    BY <1>4 DEF UserDisplaced
  <2>. QED
    BY <1>1, <2>1, <2>2 DEF UserPair
<1>9. UserPair(u)'
  BY <1>1, <1>2, <1>5, <1>6 DEF Inspect2, On, MoveTo, lockNames, UserTypes, UserPair, AllUsers, WaitFor
<1>7. ASSUME NEW v \in Users \ {u}, UserClaims(v), lockFile = Token(v) \/ UserDisplaced(v)
      PROVE  lockFile' = Token(v) \/ UserDisplaced(v)'
  <2>1. Token(v)' = Token(v) /\ Token(v) # NoFile /\ Token(v)[1] = v /\ v \in up /\ Token(v) # Token(u)
    BY <1>2, <1>7, <1>8 DEF UserClaims
  <2>2. lockFile = Token(v) \/ (reclaim[u] = Token(v) /\ stage[u] \in {"displaced", "failed"})
    BY <1>7, OtherUser
  <2>3. UserClaims(u) => lockFile = Token(u) \/ UserDisplaced(u)
    BY <1>1 DEF UserPair
  <2>4. ~UserDisplaced(u)
    BY <1>3, <1>7 DEF UserDisplaced, UserClaims
  <2>5. reclaim[DeadUser] = NoFile
    BY <1>3, <1>7 DEF UserPair, UserClaims
  <2>6. \A w \in AllUsers \ up : w = DeadUser
    BY <1>1, <1>2, <1>3, <1>7 DEF Inspect2, On, AllUsers, UserClaims
  <2>7. lockFile' = Token(v) \/ (reclaim'[u] = Token(v) /\ stage'[u] \in {"displaced", "failed"})
    BY <1>1, <1>2, <2>1, <2>2, <2>3, <2>4, <2>5, <2>6 DEF Inspect2, On, MoveTo, lockNames, UserTypes, UserPair, UserClaims, AllUsers, WaitFor
  <2>. QED
    BY <2>1, <2>7, OtherUser
<1>. QED
  BY <1>4, <1>5, <1>7, <1>9 DEF UserOwn

LEMMA DisplacePair ==
  ASSUME UserPairInv, AtMostTwo(Users), NEW u \in Users, Displace(u), UserTypes'
  PROVE  UserOwn(u)
<1>1. UserTypes /\ UserPair(u) /\ (reclaim[DeadUser] # NoFile => lockFile = NoFile)
  BY DEF UserPairInv
<1>2. DeadUser \notin Users /\ \A v \in Users : Token(v) # NoFile /\ Token(v)[1] = v
  BY <1>1, TokenIs, DeadIs
<1>3. /\ \A v \in Users \ {u} : UserPair(v)
      /\ \A v, w \in Users \ {u} : v = w
  BY DEF UserPairInv, AtMostTwo
<1>4. \A v \in Users \ {u} :
        /\ stage'[v] = stage[v] /\ round'[v] = round[v] /\ sighted'[v] = sighted[v] /\ found'[v] = found[v]
  BY <1>1 DEF Displace, On, MoveTo, UserTypes
<1>8. \A v \in Users : Token(v)' = Token(v)
  BY <1>1, <1>4 DEF Displace, On, Token, UserTypes
<1>5. (reclaim[DeadUser] # NoFile)' => reclaim[DeadUser] # NoFile /\ lockFile' = NoFile
  BY <1>1, <1>2 DEF Displace, On, MoveTo, lockNames, UserTypes, UserPair, AllUsers
<1>6. UserClaims(u)' => lockFile' = Token(u)' \/ UserDisplaced(u)'
  <2>1. UserClaims(u)' => \/ lockFile' = Token(u)'
                          \/ UserClaims(u) /\ lockFile' = lockFile /\ reclaim' = reclaim /\ Token(u)' = Token(u)
    BY <1>1, <1>8 DEF Displace, On, MoveTo, lockNames, UserTypes, UserClaims
  <2>2. UserDisplaced(u) /\ reclaim' = reclaim /\ Token(u)' = Token(u) => UserDisplaced(u)'
    BY <1>4 DEF UserDisplaced
  <2>. QED
    BY <1>1, <2>1, <2>2 DEF UserPair
<1>9. UserPair(u)'
  BY <1>1, <1>2, <1>5, <1>6 DEF Displace, On, MoveTo, lockNames, UserTypes, UserPair, AllUsers
<1>7. ASSUME NEW v \in Users \ {u}, UserClaims(v), lockFile = Token(v) \/ UserDisplaced(v)
      PROVE  lockFile' = Token(v) \/ UserDisplaced(v)'
  <2>1. Token(v)' = Token(v) /\ Token(v) # NoFile /\ Token(v)[1] = v /\ v \in up /\ Token(v) # Token(u)
    BY <1>2, <1>7, <1>8 DEF UserClaims
  <2>2. lockFile = Token(v) \/ (reclaim[u] = Token(v) /\ stage[u] \in {"displaced", "failed"})
    BY <1>7, OtherUser
  <2>3. UserClaims(u) => lockFile = Token(u) \/ UserDisplaced(u)
    BY <1>1 DEF UserPair
  <2>4. ~UserDisplaced(u)
    BY <1>3, <1>7 DEF UserDisplaced, UserClaims
  <2>5. reclaim[DeadUser] = NoFile
    BY <1>3, <1>7 DEF UserPair, UserClaims
  <2>6. \A w \in AllUsers \ up : w = DeadUser
    BY <1>1, <1>2, <1>3, <1>7 DEF Displace, On, AllUsers, UserClaims
  <2>7. lockFile' = Token(v) \/ (reclaim'[u] = Token(v) /\ stage'[u] \in {"displaced", "failed"})
    BY <1>1, <1>2, <2>1, <2>2, <2>3, <2>4, <2>5, <2>6 DEF Displace, On, MoveTo, lockNames, UserTypes, UserPair, UserClaims, AllUsers
  <2>. QED
    BY <2>1, <2>7, OtherUser
<1>. QED
  BY <1>4, <1>5, <1>7, <1>9 DEF UserOwn

LEMMA DropDisplacedPair ==
  ASSUME UserPairInv, AtMostTwo(Users), NEW u \in Users, DropDisplaced(u), UserTypes'
  PROVE  UserOwn(u)
<1>1. UserTypes /\ UserPair(u) /\ (reclaim[DeadUser] # NoFile => lockFile = NoFile)
  BY DEF UserPairInv
<1>2. DeadUser \notin Users /\ \A v \in Users : Token(v) # NoFile /\ Token(v)[1] = v
  BY <1>1, TokenIs, DeadIs
<1>3. /\ \A v \in Users \ {u} : UserPair(v)
      /\ \A v, w \in Users \ {u} : v = w
  BY DEF UserPairInv, AtMostTwo
<1>4. \A v \in Users \ {u} :
        /\ stage'[v] = stage[v] /\ round'[v] = round[v] /\ sighted'[v] = sighted[v] /\ found'[v] = found[v]
  BY <1>1 DEF DropDisplaced, On, MoveTo, UserTypes
<1>8. \A v \in Users : Token(v)' = Token(v)
  BY <1>1, <1>4 DEF DropDisplaced, On, Token, UserTypes
<1>5. (reclaim[DeadUser] # NoFile)' => reclaim[DeadUser] # NoFile /\ lockFile' = NoFile
  BY <1>1, <1>2 DEF DropDisplaced, On, MoveTo, lockNames, UserTypes, UserPair, AllUsers
<1>6. UserClaims(u)' => lockFile' = Token(u)' \/ UserDisplaced(u)'
  <2>1. UserClaims(u)' => \/ lockFile' = Token(u)'
                          \/ UserClaims(u) /\ lockFile' = lockFile /\ reclaim' = reclaim /\ Token(u)' = Token(u)
    BY <1>1, <1>8 DEF DropDisplaced, On, MoveTo, lockNames, UserTypes, UserClaims
  <2>2. UserDisplaced(u) /\ reclaim' = reclaim /\ Token(u)' = Token(u) => UserDisplaced(u)'
    BY <1>4 DEF UserDisplaced
  <2>. QED
    BY <1>1, <2>1, <2>2 DEF UserPair
<1>9. UserPair(u)'
  BY <1>1, <1>2, <1>5, <1>6 DEF DropDisplaced, On, MoveTo, lockNames, UserTypes, UserPair, AllUsers
<1>7. ASSUME NEW v \in Users \ {u}, UserClaims(v), lockFile = Token(v) \/ UserDisplaced(v)
      PROVE  lockFile' = Token(v) \/ UserDisplaced(v)'
  <2>1. Token(v)' = Token(v) /\ Token(v) # NoFile /\ Token(v)[1] = v /\ v \in up /\ Token(v) # Token(u)
    BY <1>2, <1>7, <1>8 DEF UserClaims
  <2>2. lockFile = Token(v) \/ (reclaim[u] = Token(v) /\ stage[u] \in {"displaced", "failed"})
    BY <1>7, OtherUser
  <2>3. UserClaims(u) => lockFile = Token(u) \/ UserDisplaced(u)
    BY <1>1 DEF UserPair
  <2>4. ~UserDisplaced(u)
    BY <1>3, <1>7 DEF UserDisplaced, UserClaims
  <2>5. reclaim[DeadUser] = NoFile
    BY <1>3, <1>7 DEF UserPair, UserClaims
  <2>6. \A w \in AllUsers \ up : w = DeadUser
    BY <1>1, <1>2, <1>3, <1>7 DEF DropDisplaced, On, AllUsers, UserClaims
  <2>7. lockFile' = Token(v) \/ (reclaim'[u] = Token(v) /\ stage'[u] \in {"displaced", "failed"})
    BY <1>1, <1>2, <2>1, <2>2, <2>3, <2>4, <2>5, <2>6 DEF DropDisplaced, On, MoveTo, lockNames, UserTypes, UserPair, UserClaims, AllUsers
  <2>. QED
    BY <2>1, <2>7, OtherUser
<1>. QED
  BY <1>4, <1>5, <1>7, <1>9 DEF UserOwn

LEMMA FinishWorkPair ==
  ASSUME UserPairInv, AtMostTwo(Users), NEW u \in Users, FinishWork(u), UserTypes'
  PROVE  UserOwn(u)
<1>1. UserTypes /\ UserPair(u) /\ (reclaim[DeadUser] # NoFile => lockFile = NoFile)
  BY DEF UserPairInv
<1>2. DeadUser \notin Users /\ \A v \in Users : Token(v) # NoFile /\ Token(v)[1] = v
  BY <1>1, TokenIs, DeadIs
<1>3. /\ \A v \in Users \ {u} : UserPair(v)
      /\ \A v, w \in Users \ {u} : v = w
  BY DEF UserPairInv, AtMostTwo
<1>4. \A v \in Users \ {u} :
        /\ stage'[v] = stage[v] /\ round'[v] = round[v] /\ sighted'[v] = sighted[v] /\ found'[v] = found[v]
  BY <1>1 DEF FinishWork, On, MoveTo, UserTypes
<1>8. \A v \in Users : Token(v)' = Token(v)
  BY <1>1, <1>4 DEF FinishWork, On, Token, UserTypes
<1>5. (reclaim[DeadUser] # NoFile)' => reclaim[DeadUser] # NoFile /\ lockFile' = NoFile
  BY <1>1, <1>2 DEF FinishWork, On, MoveTo, lockNames, UserTypes, UserPair, AllUsers
<1>6. UserClaims(u)' => lockFile' = Token(u)' \/ UserDisplaced(u)'
  <2>1. UserClaims(u)' => \/ lockFile' = Token(u)'
                          \/ UserClaims(u) /\ lockFile' = lockFile /\ reclaim' = reclaim /\ Token(u)' = Token(u)
    BY <1>1, <1>8 DEF FinishWork, On, MoveTo, lockNames, UserTypes, UserClaims
  <2>2. UserDisplaced(u) /\ reclaim' = reclaim /\ Token(u)' = Token(u) => UserDisplaced(u)'
    BY <1>4 DEF UserDisplaced
  <2>. QED
    BY <1>1, <2>1, <2>2 DEF UserPair
<1>9. UserPair(u)'
  BY <1>1, <1>2, <1>5, <1>6 DEF FinishWork, On, MoveTo, lockNames, UserTypes, UserPair, AllUsers
<1>7. ASSUME NEW v \in Users \ {u}, UserClaims(v), lockFile = Token(v) \/ UserDisplaced(v)
      PROVE  lockFile' = Token(v) \/ UserDisplaced(v)'
  <2>1. Token(v)' = Token(v) /\ Token(v) # NoFile /\ Token(v)[1] = v /\ v \in up /\ Token(v) # Token(u)
    BY <1>2, <1>7, <1>8 DEF UserClaims
  <2>2. lockFile = Token(v) \/ (reclaim[u] = Token(v) /\ stage[u] \in {"displaced", "failed"})
    BY <1>7, OtherUser
  <2>3. UserClaims(u) => lockFile = Token(u) \/ UserDisplaced(u)
    BY <1>1 DEF UserPair
  <2>4. ~UserDisplaced(u)
    BY <1>3, <1>7 DEF UserDisplaced, UserClaims
  <2>5. reclaim[DeadUser] = NoFile
    BY <1>3, <1>7 DEF UserPair, UserClaims
  <2>6. \A w \in AllUsers \ up : w = DeadUser
    BY <1>1, <1>2, <1>3, <1>7 DEF FinishWork, On, AllUsers, UserClaims
  <2>7. lockFile' = Token(v) \/ (reclaim'[u] = Token(v) /\ stage'[u] \in {"displaced", "failed"})
    BY <1>1, <1>2, <2>1, <2>2, <2>3, <2>4, <2>5, <2>6 DEF FinishWork, On, MoveTo, lockNames, UserTypes, UserPair, UserClaims, AllUsers
  <2>. QED
    BY <2>1, <2>7, OtherUser
<1>. QED
  BY <1>4, <1>5, <1>7, <1>9 DEF UserOwn

LEMMA CheckOwnPair ==
  ASSUME UserPairInv, AtMostTwo(Users), NEW u \in Users, CheckOwn(u), UserTypes'
  PROVE  UserOwn(u)
<1>1. UserTypes /\ UserPair(u) /\ (reclaim[DeadUser] # NoFile => lockFile = NoFile)
  BY DEF UserPairInv
<1>2. DeadUser \notin Users /\ \A v \in Users : Token(v) # NoFile /\ Token(v)[1] = v
  BY <1>1, TokenIs, DeadIs
<1>3. /\ \A v \in Users \ {u} : UserPair(v)
      /\ \A v, w \in Users \ {u} : v = w
  BY DEF UserPairInv, AtMostTwo
<1>4. \A v \in Users \ {u} :
        /\ stage'[v] = stage[v] /\ round'[v] = round[v] /\ sighted'[v] = sighted[v] /\ found'[v] = found[v]
  BY <1>1 DEF CheckOwn, On, MoveTo, UserTypes
<1>8. \A v \in Users : Token(v)' = Token(v)
  BY <1>1, <1>4 DEF CheckOwn, On, Token, UserTypes
<1>5. (reclaim[DeadUser] # NoFile)' => reclaim[DeadUser] # NoFile /\ lockFile' = NoFile
  BY <1>1, <1>2 DEF CheckOwn, On, MoveTo, lockNames, UserTypes, UserPair, AllUsers
<1>6. UserClaims(u)' => lockFile' = Token(u)' \/ UserDisplaced(u)'
  <2>1. UserClaims(u)' => \/ lockFile' = Token(u)'
                          \/ UserClaims(u) /\ lockFile' = lockFile /\ reclaim' = reclaim /\ Token(u)' = Token(u)
    BY <1>1, <1>8 DEF CheckOwn, On, MoveTo, lockNames, UserTypes, UserClaims
  <2>2. UserDisplaced(u) /\ reclaim' = reclaim /\ Token(u)' = Token(u) => UserDisplaced(u)'
    BY <1>4 DEF UserDisplaced
  <2>. QED
    BY <1>1, <2>1, <2>2 DEF UserPair
<1>9. UserPair(u)'
  BY <1>1, <1>2, <1>5, <1>6 DEF CheckOwn, On, MoveTo, lockNames, UserTypes, UserPair, AllUsers
<1>7. ASSUME NEW v \in Users \ {u}, UserClaims(v), lockFile = Token(v) \/ UserDisplaced(v)
      PROVE  lockFile' = Token(v) \/ UserDisplaced(v)'
  <2>1. Token(v)' = Token(v) /\ Token(v) # NoFile /\ Token(v)[1] = v /\ v \in up /\ Token(v) # Token(u)
    BY <1>2, <1>7, <1>8 DEF UserClaims
  <2>2. lockFile = Token(v) \/ (reclaim[u] = Token(v) /\ stage[u] \in {"displaced", "failed"})
    BY <1>7, OtherUser
  <2>3. UserClaims(u) => lockFile = Token(u) \/ UserDisplaced(u)
    BY <1>1 DEF UserPair
  <2>4. ~UserDisplaced(u)
    BY <1>3, <1>7 DEF UserDisplaced, UserClaims
  <2>5. reclaim[DeadUser] = NoFile
    BY <1>3, <1>7 DEF UserPair, UserClaims
  <2>6. \A w \in AllUsers \ up : w = DeadUser
    BY <1>1, <1>2, <1>3, <1>7 DEF CheckOwn, On, AllUsers, UserClaims
  <2>7. lockFile' = Token(v) \/ (reclaim'[u] = Token(v) /\ stage'[u] \in {"displaced", "failed"})
    BY <1>1, <1>2, <2>1, <2>2, <2>3, <2>4, <2>5, <2>6 DEF CheckOwn, On, MoveTo, lockNames, UserTypes, UserPair, UserClaims, AllUsers
  <2>. QED
    BY <2>1, <2>7, OtherUser
<1>. QED
  BY <1>4, <1>5, <1>7, <1>9 DEF UserOwn

LEMMA PutAsidePair ==
  ASSUME UserPairInv, AtMostTwo(Users), NEW u \in Users, PutAside(u), UserTypes'
  PROVE  UserOwn(u)
<1>1. UserTypes /\ UserPair(u) /\ (reclaim[DeadUser] # NoFile => lockFile = NoFile)
  BY DEF UserPairInv
<1>2. DeadUser \notin Users /\ \A v \in Users : Token(v) # NoFile /\ Token(v)[1] = v
  BY <1>1, TokenIs, DeadIs
<1>3. /\ \A v \in Users \ {u} : UserPair(v)
      /\ \A v, w \in Users \ {u} : v = w
  BY DEF UserPairInv, AtMostTwo
<1>4. \A v \in Users \ {u} :
        /\ stage'[v] = stage[v] /\ round'[v] = round[v] /\ sighted'[v] = sighted[v] /\ found'[v] = found[v]
  BY <1>1 DEF PutAside, On, MoveTo, UserTypes
<1>8. \A v \in Users : Token(v)' = Token(v)
  BY <1>1, <1>4 DEF PutAside, On, Token, UserTypes
<1>5. (reclaim[DeadUser] # NoFile)' => reclaim[DeadUser] # NoFile /\ lockFile' = NoFile
  BY <1>1, <1>2 DEF PutAside, On, MoveTo, lockNames, UserTypes, UserPair, AllUsers
<1>6. UserClaims(u)' => lockFile' = Token(u)' \/ UserDisplaced(u)'
  <2>1. UserClaims(u)' => \/ lockFile' = Token(u)'
                          \/ UserClaims(u) /\ lockFile' = lockFile /\ reclaim' = reclaim /\ Token(u)' = Token(u)
    BY <1>1, <1>8 DEF PutAside, On, MoveTo, lockNames, UserTypes, UserClaims
  <2>2. UserDisplaced(u) /\ reclaim' = reclaim /\ Token(u)' = Token(u) => UserDisplaced(u)'
    BY <1>4 DEF UserDisplaced
  <2>. QED
    BY <1>1, <2>1, <2>2 DEF UserPair
<1>9. UserPair(u)'
  BY <1>1, <1>2, <1>5, <1>6 DEF PutAside, On, MoveTo, lockNames, UserTypes, UserPair, AllUsers
<1>7. ASSUME NEW v \in Users \ {u}, UserClaims(v), lockFile = Token(v) \/ UserDisplaced(v)
      PROVE  lockFile' = Token(v) \/ UserDisplaced(v)'
  <2>1. Token(v)' = Token(v) /\ Token(v) # NoFile /\ Token(v)[1] = v /\ v \in up /\ Token(v) # Token(u)
    BY <1>2, <1>7, <1>8 DEF UserClaims
  <2>2. lockFile = Token(v) \/ (reclaim[u] = Token(v) /\ stage[u] \in {"displaced", "failed"})
    BY <1>7, OtherUser
  <2>3. UserClaims(u) => lockFile = Token(u) \/ UserDisplaced(u)
    BY <1>1 DEF UserPair
  <2>4. ~UserDisplaced(u)
    BY <1>3, <1>7 DEF UserDisplaced, UserClaims
  <2>5. reclaim[DeadUser] = NoFile
    BY <1>3, <1>7 DEF UserPair, UserClaims
  <2>6. \A w \in AllUsers \ up : w = DeadUser
    BY <1>1, <1>2, <1>3, <1>7 DEF PutAside, On, AllUsers, UserClaims
  <2>7. lockFile' = Token(v) \/ (reclaim'[u] = Token(v) /\ stage'[u] \in {"displaced", "failed"})
    BY <1>1, <1>2, <2>1, <2>2, <2>3, <2>4, <2>5, <2>6 DEF PutAside, On, MoveTo, lockNames, UserTypes, UserPair, UserClaims, AllUsers
  <2>. QED
    BY <2>1, <2>7, OtherUser
<1>. QED
  BY <1>4, <1>5, <1>7, <1>9 DEF UserOwn

LEMMA UnlinkReleasedPair ==
  ASSUME UserPairInv, AtMostTwo(Users), NEW u \in Users, UnlinkReleased(u), UserTypes'
  PROVE  UserOwn(u)
<1>1. UserTypes /\ UserPair(u) /\ (reclaim[DeadUser] # NoFile => lockFile = NoFile)
  BY DEF UserPairInv
<1>2. DeadUser \notin Users /\ \A v \in Users : Token(v) # NoFile /\ Token(v)[1] = v
  BY <1>1, TokenIs, DeadIs
<1>3. /\ \A v \in Users \ {u} : UserPair(v)
      /\ \A v, w \in Users \ {u} : v = w
  BY DEF UserPairInv, AtMostTwo
<1>4. \A v \in Users \ {u} :
        /\ stage'[v] = stage[v] /\ round'[v] = round[v] /\ sighted'[v] = sighted[v] /\ found'[v] = found[v]
  BY <1>1 DEF UnlinkReleased, On, MoveTo, UserTypes
<1>8. \A v \in Users : Token(v)' = Token(v)
  BY <1>1, <1>4 DEF UnlinkReleased, On, Token, UserTypes
<1>5. (reclaim[DeadUser] # NoFile)' => reclaim[DeadUser] # NoFile /\ lockFile' = NoFile
  BY <1>1, <1>2 DEF UnlinkReleased, On, MoveTo, lockNames, UserTypes, UserPair, AllUsers
<1>6. UserClaims(u)' => lockFile' = Token(u)' \/ UserDisplaced(u)'
  <2>1. UserClaims(u)' => \/ lockFile' = Token(u)'
                          \/ UserClaims(u) /\ lockFile' = lockFile /\ reclaim' = reclaim /\ Token(u)' = Token(u)
    BY <1>1, <1>8 DEF UnlinkReleased, On, MoveTo, lockNames, UserTypes, UserClaims
  <2>2. UserDisplaced(u) /\ reclaim' = reclaim /\ Token(u)' = Token(u) => UserDisplaced(u)'
    BY <1>4 DEF UserDisplaced
  <2>. QED
    BY <1>1, <2>1, <2>2 DEF UserPair
<1>9. UserPair(u)'
  BY <1>1, <1>2, <1>5, <1>6 DEF UnlinkReleased, On, MoveTo, lockNames, UserTypes, UserPair, AllUsers
<1>7. ASSUME NEW v \in Users \ {u}, UserClaims(v), lockFile = Token(v) \/ UserDisplaced(v)
      PROVE  lockFile' = Token(v) \/ UserDisplaced(v)'
  <2>1. Token(v)' = Token(v) /\ Token(v) # NoFile /\ Token(v)[1] = v /\ v \in up /\ Token(v) # Token(u)
    BY <1>2, <1>7, <1>8 DEF UserClaims
  <2>2. lockFile = Token(v) \/ (reclaim[u] = Token(v) /\ stage[u] \in {"displaced", "failed"})
    BY <1>7, OtherUser
  <2>3. UserClaims(u) => lockFile = Token(u) \/ UserDisplaced(u)
    BY <1>1 DEF UserPair
  <2>4. ~UserDisplaced(u)
    BY <1>3, <1>7 DEF UserDisplaced, UserClaims
  <2>5. reclaim[DeadUser] = NoFile
    BY <1>3, <1>7 DEF UserPair, UserClaims
  <2>6. \A w \in AllUsers \ up : w = DeadUser
    BY <1>1, <1>2, <1>3, <1>7 DEF UnlinkReleased, On, AllUsers, UserClaims
  <2>7. lockFile' = Token(v) \/ (reclaim'[u] = Token(v) /\ stage'[u] \in {"displaced", "failed"})
    BY <1>1, <1>2, <2>1, <2>2, <2>3, <2>4, <2>5, <2>6 DEF UnlinkReleased, On, MoveTo, lockNames, UserTypes, UserPair, UserClaims, AllUsers
  <2>. QED
    BY <2>1, <2>7, OtherUser
<1>. QED
  BY <1>4, <1>5, <1>7, <1>9 DEF UserOwn

LEMMA UserPairStep ==
  ASSUME UserInv, UserPairInv, AtMostTwo(Users), [JournalLockNext]_journalLockVars
  PROVE  UserPairInv'
<1>1. UserTypes'
  BY UserInvStep DEF UserInv
<1>2. ASSUME NEW u \in Users, TakeLock(u) \/ Reclaim(u) \/ GiveBack(u)
      PROVE  UserPairInv'
  <2>1. UserOwn(u)
    BY <1>1, <1>2, EnterPair, LookAtLockPair, ScanReclaimsPair, RestoreReclaimPair,
       WriteCandidatePair, LinkLockFilePair, UnlinkOwnCandidatePair, GiveWayPair, Inspect1Pair,
       Inspect2Pair, DisplacePair, DropDisplacedPair, FinishWorkPair, CheckOwnPair, PutAsidePair,
       UnlinkReleasedPair
       DEF TakeLock, Reclaim, GiveBack
  <2>2. up' = up
    BY <1>2 DEF TakeLock, Reclaim, GiveBack, Enter, LookAtLock, ScanReclaims, RestoreReclaim,
       WriteCandidate, LinkLockFile, UnlinkOwnCandidate, GiveWay, Inspect1, Inspect2, Displace,
       DropDisplaced, FinishWork, CheckOwn, PutAside, UnlinkReleased
  <2>3. ASSUME NEW v \in Users \ {u} PROVE UserPair(v)'
    <3>1. /\ UserPair(v)
          /\ stage'[v] = stage[v] /\ sighted'[v] = sighted[v] /\ found'[v] = found[v]
          /\ (reclaim[DeadUser] # NoFile)' => reclaim[DeadUser] # NoFile
      BY <2>1 DEF UserOwn, UserPairInv
    <3>2. UserClaims(v)' => UserClaims(v)
      BY <2>2, <3>1 DEF UserClaims
    <3>3. UserClaims(v)' => lockFile' = Token(v) \/ UserDisplaced(v)'
      BY <2>1, <3>1, <3>2 DEF UserOwn, UserPair
    <3>4. round'[v] = round[v]
      BY <2>1 DEF UserOwn
    <3>. QED
      BY <2>2, <3>1, <3>3, <3>4 DEF UserPair, Token
  <2>. QED
    BY <1>1, <2>1, <2>3 DEF UserPairInv, UserOwn
<1>3. CASE UNCHANGED <<lockNames, stage, round, sighted, found>> /\ up' \subseteq up
  BY <1>1, <1>3 DEF UserPairInv, UserPair, UserClaims, UserDisplaced, Token, lockNames
<1>. QED
  BY <1>2, <1>3 DEF JournalLockNext, UserDies, journalLockVars, lockNames

LEMMA UserPairExcludes ==
  ASSUME UserPairInv, AtMostTwo(Users)
  PROVE  OneInside
<1>. SUFFICES ASSUME NEW u \in Users, NEW v \in Users, Inside(u), Inside(v), u # v
              PROVE  FALSE
  BY DEF OneInside
<1>1. ASSUME NEW a \in Users, NEW b \in Users, a # b, Inside(a), Inside(b)
      PROVE  lockFile = Token(a)
  <2>1. lockFile = Token(a) \/ UserDisplaced(a)
    BY <1>1 DEF Inside, UserPairInv, UserPair, UserClaims
  <2>2. \A c \in Users \ {a} : c = b
    BY <1>1 DEF AtMostTwo
  <2>. QED
    BY <1>1, <2>1, <2>2 DEF UserDisplaced, Inside
<1>2. Token(u) = Token(v)
  BY <1>1
<1>3. Token(u)[1] = u /\ Token(v)[1] = v
  BY DEF Token
<1>. QED
  BY <1>2, <1>3

(* Of two processes, at most one is inside the journal's lock, for any     *)
(* number of rounds and deaths and whatever a dead one left.               *)
THEOREM TwoUsersExclude == AtMostTwo(Users) /\ JournalLockSpec => []OneInside
<1>. DEFINE Two == AtMostTwo(Users)
<1>1. Two /\ UserInv /\ UserPairInv /\ [JournalLockNext]_journalLockVars => UserInv' /\ UserPairInv'
  BY UserInvStep, UserPairStep
<1>2. Two /\ UserPairInv => OneInside
  BY UserPairExcludes
<1>3. JournalLockInit => UserInv /\ UserPairInv
  BY UserInvInit, UserPairStarts
<1>4. Two => []Two
  <2>1. Two => Two'
    BY DEF AtMostTwo
  <2>. HIDE DEF Two
  <2>. QED
    BY <2>1, PTL
<1>. HIDE DEF Two
<1>. QED
  BY <1>1, <1>2, <1>3, <1>4, PTL DEF JournalLockSpec, Two

-----------------------------------------------------------------------------
(* HistoryLock: two processes exclude each other, even where a dead one    *)
(* left the reclaimer.                                                     *)
(*                                                                         *)
(* A dead reclaimer may be displaced by mistake when it has just been      *)
(* replaced; but who displaces a live one's reclaimer is out of the race,  *)
(* for good, and the other one goes on alone.                              *)
OfDeadStore == <<DeadStore, "reclaimer">>
Fresh(p) ==
  \/ task[p] \in Tries \cup {"stale reclaimer"}
  \/ task[p] = "publish reclaimer" /\ at[p] = "link"
Out(p) ==
  /\ task[p] = "stale reclaimer"
  /\ at[p] \in {"restore", "put back", "refused"} \/ (at[p] = "confirm" /\ aside[p] # seen[p][1])

Removals == {"failed reclaimer", "release reclaimer", "stale lock", "failed lock", "release lock"}
Stood(p) ==
  /\ won[p] => task[p] \in {"release reclaimer", "release lock"}
  /\ \/ at[p] \in {"link", "drop", "verify"} /\ task[p] \in {"publish reclaimer", "publish lock"}
     \/ at[p] \in {"see", "read"} /\ task[p] \in Tries \cup Looks
     \/ at[p] \in Asked \cup {"confirm"} /\ task[p] \in Removals \cup {"stale reclaimer"}
     \/ at[p] \in {"restore", "put back"} /\ task[p] = "stale reclaimer"
     \/ at[p] \in {"holds", "poisoned"} /\ task[p] = "release reclaimer" /\ won[p]
     \/ at[p] = "gone" /\ task[p] = "release lock"
     \/ /\ at[p] = "refused"
        /\ task[p] \in Tries \cup {"failed reclaimer", "release reclaimer", "stale reclaimer"}

StillIts(p) == named["reclaimer"] = <<p, "reclaimer">> \/ \E q \in Stores \ {p} : Out(q)

(* The reclaimer: what was never published is nowhere, the dead one's is   *)
(* not seen again once another was, and what was found dead is dead.       *)
RacePair(p) ==
  /\ Fresh(p) => /\ named["reclaimer"] # <<p, "reclaimer">>
                 /\ \A q \in Stores : aside[q] # <<p, "reclaimer">>
  /\ named["reclaimer"] = OfDeadStore => Fresh(p)
  /\ aside[p] = OfDeadStore =>
       at[p] = "confirm" /\ task[p] = "stale reclaimer" /\ seen[p][1] = OfDeadStore
  /\ task[p] = "stale reclaimer" /\ at[p] \in {"confirm", "restore", "put back"} =>
       aside[p] \in Anyone \X {"reclaimer"}
  /\ task[p] \in Tries /\ at[p] = "read" =>
       \E q \in Anyone : look[p] = <<q, "reclaimer">> /\ (q \in Stores => ~Fresh(q))
  /\ task[p] \in {"recheck reclaimer", "stale reclaimer"} =>
       \E q \in Anyone : seen[p][1] = <<q, "reclaimer">> /\ q \notin running
  /\ task[p] = "stale reclaimer" /\ at[p] = "rename" /\ named["reclaimer"] = OfDeadStore =>
       seen[p][1] = OfDeadStore
  /\ p \in running /\ HasReclaimer(p) => StillIts(p)

(* The ownership lock.                                                     *)
KeepsPair(p) ==
  p \in running =>
    /\ HasLock(p) => named["lock"] = <<p, "lock">>
    /\ task[p] \in Looks /\ at[p] = "read" => look[p] # NoInode /\ named["lock"] \in {NoInode, look[p]}
    /\ task[p] \in {"confirm lock", "recheck lock", "stale lock"} =>
         seen[p][2] = "stale" /\ seen[p][1][1] \notin running
    /\ task[p] = "stale lock" /\ at[p] = "rename" => named["lock"] = seen[p][1]
    /\ task[p] \in Removals /\ at[p] = "confirm" => aside[p] = Wanted(p)

Paired(p) == Stood(p) /\ RacePair(p) /\ KeepsPair(p)
HistoryPairInv == LockTypes /\ \A p \in Stores : Paired(p)

FailOn(p) ==
  \/ /\ task[p] \in Looks \cup {"stale lock", "publish lock", "failed lock"}
     /\ Goes(p, "assert", "release reclaimer")
  \/ task[p] = "release reclaimer" /\ won[p] /\ Goes(p, "assert", "release lock")
  \/ task[p] = "release lock" /\ Goes(p, "gone", "release lock")
  \/ /\ task[p] \in Tries \cup {"failed reclaimer", "release reclaimer", "stale reclaimer"}
     /\ ~won[p] /\ Goes(p, "refused", task[p])

LEMMA FailsOn ==
  ASSUME LockTypes, NEW p \in Stores, Fail(p), Stood(p), task[p] # "publish reclaimer"
  PROVE  FailOn(p)
<1>. DEFINE L == {"publish lock", "probe lock", "confirm lock", "recheck lock",
                  "stale lock", "failed lock"}
<1>1. CASE task[p] \in L
  <2>1. Do(p, "assert", "release reclaimer")
    BY <1>1 DEF Fail
  <2>. QED
    BY <1>1, <2>1, DoGoes DEF FailOn, Looks
<1>2. CASE task[p] = "release reclaimer" /\ won[p]
  <2>1. Do(p, "assert", "release lock")
    BY <1>2 DEF Fail
  <2>. QED
    BY <1>2, <2>1, DoGoes DEF FailOn
<1>3. CASE task[p] = "release lock"
  <2>1. Then(p, "gone")
    BY <1>3 DEF Fail
  <2>. QED
    BY <1>3, <2>1, ThenGoes DEF FailOn
<1>4. CASE task[p] \notin L \cup {"release lock"} /\ ~(task[p] = "release reclaimer" /\ won[p])
  <2>1. Then(p, "refused")
    BY <1>4 DEF Fail
  <2>2. task[p] \in Tries \cup {"failed reclaimer", "release reclaimer", "stale reclaimer"} /\ ~won[p]
    BY <1>4 DEF Stood, Removals, Looks, Tries
  <2>. QED
    BY <2>1, <2>2, ThenGoes DEF FailOn
<1>. QED
  BY <1>1, <1>2, <1>3, <1>4

RemovedOn(p) ==
  \/ task[p] = "stale reclaimer" /\ Goes(p, "link", "publish reclaimer")
  \/ task[p] = "stale lock" /\ Goes(p, "link", "publish lock")
  \/ /\ task[p] = "release reclaimer"
     /\ Goes(p, IF won[p] THEN "holds" ELSE "refused", "release reclaimer")
  \/ task[p] \in {"failed lock", "failed reclaimer", "release lock"} /\ FailOn(p)

LEMMA RemovesOn ==
  ASSUME LockTypes, NEW p \in Stores, Removed(p), Stood(p), at[p] \in Asked \cup {"confirm"}
  PROVE  RemovedOn(p)
<1>0. task[p] \in Removals \cup {"stale reclaimer"}
  BY DEF Stood, Asked
<1>1. CASE task[p] = "stale lock"
  <2>1. Do(p, "link", "publish lock")
    BY <1>1 DEF Removed
  <2>. QED
    BY <1>1, <2>1, DoGoes DEF RemovedOn
<1>2. CASE task[p] = "stale reclaimer"
  <2>1. Do(p, "link", "publish reclaimer")
    BY <1>2 DEF Removed
  <2>. QED
    BY <1>2, <2>1, DoGoes DEF RemovedOn
<1>3. CASE task[p] = "release reclaimer"
  <2>1. Then(p, IF won[p] THEN "holds" ELSE "refused")
    BY <1>3 DEF Removed
  <2>. QED
    BY <1>3, <2>1, ThenGoes DEF RemovedOn
<1>4. CASE task[p] \in {"failed lock", "failed reclaimer", "release lock"}
  <2>1. Fail(p)
    BY <1>4 DEF Removed
  <2>. QED
    BY <1>4, <2>1, FailsOn DEF RemovedOn
<1>. QED
  BY <1>0, <1>1, <1>2, <1>3, <1>4 DEF Removals

LEMMA DeadStoreInode ==
  /\ DeadStore \notin Stores /\ DeadStore \in Anyone /\ OfDeadStore # NoInode
  /\ OfDeadStore[1] = DeadStore /\ OfDeadStore[2] = "reclaimer"
  /\ \A q \in Stores :
       /\ q \in Anyone /\ <<q, "reclaimer">> # OfDeadStore
       /\ <<q, "reclaimer">> # NoInode /\ <<q, "lock">> # NoInode /\ <<q, "lock">> # <<q, "reclaimer">>
       /\ <<q, "reclaimer">>[1] = q /\ <<q, "lock">>[1] = q
BY DeadStoreAssumption, NoInodeAssumption DEF OfDeadStore, Anyone, Paths

(* What is at the reclaimer path, by who wrote it.                         *)
LEMMA ReclaimerIs ==
  ASSUME LockTypes
  PROVE  \/ named["reclaimer"] \in {NoInode, OfDeadStore}
         \/ \E q \in Stores : named["reclaimer"] = <<q, "reclaimer">>
<1>1. named["reclaimer"] \in {NoInode} \cup (Anyone \X {"reclaimer"})
  BY DEF LockTypes, Paths
<1>2. CASE named["reclaimer"] \in Anyone \X {"reclaimer"}
  <2>1. PICK q \in Anyone : named["reclaimer"] = <<q, "reclaimer">>
    BY <1>2
  <2>. QED
    BY <2>1 DEF Anyone, OfDeadStore
<1>. QED
  BY <1>1, <1>2

(* The two do not both have the reclaimer, and whoever has it and would    *)
(* remove it finds it there or nothing.                                    *)
LEMMA OneHasReclaimer ==
  ASSUME HistoryPairInv, AtMostTwo(Stores), NEW p \in running, NEW q \in running, p # q
  PROVE  ~(HasReclaimer(p) /\ HasReclaimer(q))
<1>. SUFFICES ASSUME HasReclaimer(p), HasReclaimer(q) PROVE FALSE
  OBVIOUS
<1>1. p \in Stores /\ q \in Stores /\ (\A r \in Stores \ {p} : r = q) /\ (\A r \in Stores \ {q} : r = p)
  BY DEF HistoryPairInv, LockTypes, AtMostTwo
<1>2. ~Out(p) /\ ~Out(q)
  BY DEF Out, HasReclaimer, Looks
<1>5. RacePair(p) /\ RacePair(q)
  BY <1>1 DEF HistoryPairInv, Paired
<1>6. (\A r \in Stores \ {p} : ~Out(r)) /\ (\A r \in Stores \ {q} : ~Out(r))
  BY <1>1, <1>2
<1>3. named["reclaimer"] = <<p, "reclaimer">> /\ named["reclaimer"] = <<q, "reclaimer">>
  BY <1>5, <1>6 DEF RacePair, StillIts
<1>4. <<p, "reclaimer">>[1] = p /\ <<q, "reclaimer">>[1] = q
  OBVIOUS
<1>. QED
  BY <1>3, <1>4

LEMMA ReclaimerOrNothing ==
  ASSUME HistoryPairInv, AtMostTwo(Stores), NEW p \in running, HasReclaimer(p), ~Fresh(p)
  PROVE  named["reclaimer"] \in {NoInode, <<p, "reclaimer">>}
<1>1. p \in Stores /\ LockTypes /\ RacePair(p)
  BY DEF HistoryPairInv, Paired, LockTypes
<1>2. CASE named["reclaimer"] # <<p, "reclaimer">>
  <2>1. PICK q \in Stores \ {p} : Out(q)
    BY <1>1, <1>2 DEF RacePair, StillIts
  <2>2. \A r \in Stores \ {p} : r = q
    BY <1>1 DEF AtMostTwo
  <2>3. Fresh(q)
    BY <2>1 DEF Out, Fresh
  <2>4. named["reclaimer"] # <<q, "reclaimer">> /\ named["reclaimer"] # OfDeadStore
    BY <1>1, <2>3 DEF HistoryPairInv, Paired, RacePair
  <2>. QED
    BY <1>1, <2>2, <2>4, ReclaimerIs
<1>. QED
  BY <1>2

(* What a step of p leaves of what the other one relies on.                *)
Disturbs(p) ==
  /\ \/ named'["reclaimer"] = named["reclaimer"]
     \/ /\ named["reclaimer"] = NoInode /\ named'["reclaimer"] = <<p, "reclaimer">>
        /\ Fresh(p) /\ ~Out(p)
     \/ HasReclaimer(p) /\ named'["reclaimer"] = NoInode
     \/ /\ task[p] = "stale reclaimer" /\ named'["reclaimer"] = NoInode
        /\ seen[p][1] # named["reclaimer"] => Out(p)'
     \/ Out(p) /\ Out(p)' /\ named'["reclaimer"] = aside[p] /\ aside[p] # OfDeadStore
  /\ \/ named'["lock"] = named["lock"]
     \/ HasReclaimer(p) /\ (named["lock"] = NoInode \/ named["lock"][1] \notin running)
     \/ HasLock(p) /\ named'["lock"] = NoInode
  /\ aside'[p] \in {aside[p], NoInode, named["lock"], named["reclaimer"]}
  /\ Fresh(p)' => Fresh(p)
  /\ Out(p) => Out(p)'

LEMMA OtherKeeps ==
  ASSUME HistoryPairInv, AtMostTwo(Stores), NEW p \in running, Quiet(p), Moved(p), Disturbs(p),
         NEW q \in Stores, q # p
  PROVE  Paired(q)'
<1>1. /\ at'[q] = at[q] /\ task'[q] = task[q] /\ look'[q] = look[q] /\ seen'[q] = seen[q]
      /\ won'[q] = won[q] /\ aside'[q] = aside[q] /\ running' = running
  BY DEF Moved, Quiet
<1>2. LockTypes /\ Paired(q) /\ Paired(p) /\ p \in Stores
  BY DEF HistoryPairInv, LockTypes
<1>3. \A r \in Stores \ {q} : r = p
  BY <1>2 DEF AtMostTwo
<1>4. /\ Out(q)' = Out(q) /\ Fresh(q)' = Fresh(q)
      /\ HasReclaimer(q)' = HasReclaimer(q) /\ HasLock(q)' = HasLock(q) /\ Wanted(q)' = Wanted(q)
  BY <1>1 DEF Out, Fresh, HasReclaimer, HasLock, Wanted, Own
<1>5. /\ <<p, "reclaimer">> # <<q, "reclaimer">> /\ <<p, "lock">> # <<q, "lock">>
      /\ <<q, "reclaimer">> # NoInode /\ <<p, "reclaimer">> # OfDeadStore
      /\ <<q, "reclaimer">>[2] = "reclaimer" /\ <<q, "lock">>[1] = q /\ OfDeadStore # NoInode
      /\ <<q, "lock">> # NoInode /\ <<p, "reclaimer">> # NoInode
  <2>1. <<p, "reclaimer">>[1] = p /\ <<q, "reclaimer">>[1] = q /\ <<p, "lock">>[1] = p /\ <<q, "lock">>[1] = q
    OBVIOUS
  <2>. QED
    BY <1>2, <2>1, DeadStoreInode
<1>6. q \in running => ~(HasReclaimer(p) /\ HasReclaimer(q))
  BY OneHasReclaimer
<1>7. named["lock"] # <<q, "reclaimer">>
  <2>1. named["lock"] \in {NoInode} \cup (Anyone \X {"lock"})
    BY <1>2 DEF LockTypes, Paths
  <2>2. named["lock"] = NoInode \/ named["lock"][2] = "lock"
    BY <2>1
  <2>. QED
    BY <1>5, <2>2
<1>8. Stood(q)'
  BY <1>1, <1>2 DEF Paired, Stood
<1>9. RacePair(q)'
  <2>1. RacePair(q) /\ RacePair(p)
    BY <1>2 DEF Paired
  <2>2. Fresh(q) => /\ named'["reclaimer"] # <<q, "reclaimer">>
                    /\ \A r \in Stores : aside'[r] # <<q, "reclaimer">>
    <3>1. Fresh(q) => /\ named["reclaimer"] # <<q, "reclaimer">>
                      /\ \A r \in Stores : aside[r] # <<q, "reclaimer">>
      BY <2>1 DEF RacePair
    <3>2. Fresh(q) => named'["reclaimer"] # <<q, "reclaimer">>
      BY <1>2, <1>5, <3>1 DEF Disturbs
    <3>3. Fresh(q) => aside'[p] # <<q, "reclaimer">>
      BY <1>2, <1>5, <1>7, <3>1 DEF Disturbs
    <3>. QED
      BY <1>1, <1>3, <3>1, <3>2, <3>3
  <2>3. named'["reclaimer"] = OfDeadStore => named["reclaimer"] = OfDeadStore
    BY <1>5 DEF Disturbs
  <2>4. \A r \in Stores : ~Fresh(r) => ~Fresh(r)'
    BY <1>3, <1>4 DEF Disturbs
  <2>5. q \in running /\ HasReclaimer(q) =>
          named'["reclaimer"] = <<q, "reclaimer">> \/ \E r \in Stores \ {q} : Out(r)'
    <3>. SUFFICES ASSUME q \in running, HasReclaimer(q), ~Out(p)'
                  PROVE  named'["reclaimer"] = <<q, "reclaimer">>
      BY <1>2
    <3>1. ~Out(p) /\ ~HasReclaimer(p)
      BY <1>6 DEF Disturbs
    <3>2. named["reclaimer"] = <<q, "reclaimer">>
      BY <1>3, <2>1, <3>1 DEF RacePair, StillIts
    <3>3. task[p] = "stale reclaimer" => seen[p][1] # <<q, "reclaimer">>
      <4>. SUFFICES ASSUME task[p] = "stale reclaimer" PROVE seen[p][1] # <<q, "reclaimer">>
        OBVIOUS
      <4>1. PICK r \in Anyone : seen[p][1] = <<r, "reclaimer">> /\ r \notin running
        BY <2>1 DEF RacePair
      <4>2. <<r, "reclaimer">>[1] = r /\ <<q, "reclaimer">>[1] = q
        OBVIOUS
      <4>. QED
        BY <4>1, <4>2
    <3>. QED
      BY <1>5, <3>1, <3>2, <3>3 DEF Disturbs
  <2>6. task[q] \in Tries /\ at[q] = "read" =>
          \E r \in Anyone : look[q] = <<r, "reclaimer">> /\ (r \in Stores => ~Fresh(r)')
    BY <2>1, <2>4 DEF RacePair
  <2>7. /\ aside[q] = OfDeadStore =>
             at[q] = "confirm" /\ task[q] = "stale reclaimer" /\ seen[q][1] = OfDeadStore
        /\ task[q] = "stale reclaimer" /\ at[q] \in {"confirm", "restore", "put back"} =>
             aside[q] \in Anyone \X {"reclaimer"}
        /\ task[q] \in {"recheck reclaimer", "stale reclaimer"} =>
             \E r \in Anyone : seen[q][1] = <<r, "reclaimer">> /\ r \notin running
        /\ task[q] = "stale reclaimer" /\ at[q] = "rename" /\ named'["reclaimer"] = OfDeadStore =>
             seen[q][1] = OfDeadStore
        /\ named'["reclaimer"] = OfDeadStore => Fresh(q)
    BY <2>1, <2>3 DEF RacePair
  <2>. QED
    BY <1>1, <1>4, <2>2, <2>5, <2>6, <2>7 DEF RacePair, StillIts
<1>10. KeepsPair(q)'
  <2>. SUFFICES ASSUME q \in running PROVE KeepsPair(q)'
    BY <1>1 DEF KeepsPair
  <2>1. KeepsPair(q) /\ KeepsPair(p)
    BY <1>2 DEF Paired
  <2>2. HasLock(q) => named'["lock"] = named["lock"]
    BY <1>5, <2>1 DEF Disturbs, KeepsPair
  <2>3. task[q] \in Looks \cup {"stale lock"} =>
          named'["lock"] = named["lock"]
            \/ (named["lock"] = <<p, "lock">> /\ named'["lock"] = NoInode)
    BY <1>6, <2>1 DEF Disturbs, KeepsPair, HasReclaimer
  <2>4. task[q] = "stale lock" /\ at[q] = "rename" => named'["lock"] = seen[q][1]
    <3>. SUFFICES ASSUME task[q] = "stale lock", at[q] = "rename"
                  PROVE  named'["lock"] = seen[q][1]
      OBVIOUS
    <3>1. named["lock"] = seen[q][1] /\ seen[q][1][1] \notin running
      BY <2>1 DEF KeepsPair
    <3>2. <<p, "lock">>[1] = p
      OBVIOUS
    <3>. QED
      BY <2>3, <3>1, <3>2
  <2>5. task[q] \in Looks /\ at[q] = "read" =>
          look[q] # NoInode /\ named'["lock"] \in {NoInode, look[q]}
    BY <2>1, <2>3 DEF KeepsPair
  <2>6. /\ task[q] \in {"confirm lock", "recheck lock", "stale lock"} =>
             seen[q][2] = "stale" /\ seen[q][1][1] \notin running
        /\ task[q] \in Removals /\ at[q] = "confirm" => aside[q] = Wanted(q)
    BY <2>1 DEF KeepsPair
  <2>7. HasLock(q) => named'["lock"] = <<q, "lock">>
    BY <2>1, <2>2 DEF KeepsPair
  <2>. QED
    BY <1>1, <1>4, <2>4, <2>5, <2>6, <2>7 DEF KeepsPair
<1>. QED
  BY <1>8, <1>9, <1>10 DEF Paired

LEMMA PairStep ==
  ASSUME HistoryPairInv, AtMostTwo(Stores), NEW p \in running, Quiet(p), NEW a, NEW t,
         Goes(p, a, t), NamedOk, Disturbs(p), Paired(p)'
  PROVE  HistoryPairInv'
<1>1. Moved(p)
  BY DEF Moved, Quiet, Goes
<1>2. LockTypes'
  BY DEF Quiet, Goes, HistoryPairInv, LockTypes, NamedOk
<1>3. \A q \in Stores \ {p} : Paired(q)'
  BY <1>1, OtherKeeps
<1>. QED
  BY <1>2, <1>3 DEF HistoryPairInv

(* A step that leaves the two paths and what is aside alone.               *)
LEMMA PairPathsAlone ==
  ASSUME HistoryPairInv, AtMostTwo(Stores), NEW p \in running, Quiet(p), NEW a, NEW t,
         Goes(p, a, t), named' = named, aside'[p] \in {aside[p], NoInode},
         Fresh(p)' => Fresh(p), Out(p) => Out(p)', Paired(p)'
  PROVE  HistoryPairInv'
<1>1. NamedOk /\ Disturbs(p)
  BY DEF HistoryPairInv, LockTypes, NamedOk, Disturbs
<1>. QED
  BY <1>1, PairStep

LEMMA StandingPair ==
  ASSUME HistoryPairInv, NEW p \in Stores, NEW a, Stands(p, a)
  PROVE  /\ p \in running /\ at[p] = a /\ LockTypes /\ Stood(p) /\ RacePair(p) /\ KeepsPair(p)
         /\ p \in Anyone /\ <<p, "reclaimer">> \in Anyone \X {"reclaimer"}
         /\ <<p, "lock">> \in Anyone \X {"lock"}
BY DEF Stands, HistoryPairInv, Paired, Anyone

LEMMA LockIsNoReclaimer ==
  ASSUME LockTypes, NEW i \in Anyone
  PROVE  named["lock"] # <<i, "reclaimer">>
<1>1. named["lock"] \in {NoInode} \cup (Anyone \X {"lock"})
  BY DEF LockTypes, Paths
<1>2. CASE named["lock"] = NoInode
  <2>1. <<i, "reclaimer">> # NoInode
    BY NoInodeAssumption DEF Paths
  <2>. QED
    BY <1>2, <2>1
<1>3. CASE named["lock"] \in Anyone \X {"lock"}
  <2>1. named["lock"][2] = "lock" /\ <<i, "reclaimer">>[2] = "reclaimer"
    BY <1>3
  <2>. QED
    BY <2>1
<1>. QED
  BY <1>1, <1>2, <1>3

LEMMA OthersStand ==
  ASSUME NEW p \in Stores, Quiet(p), NEW a, NEW t, Goes(p, a, t)
  PROVE  \A q \in Stores \ {p} : Out(q)' = Out(q) /\ Fresh(q)' = Fresh(q)
BY DEF Quiet, Goes, Out, Fresh

LEMMA StaysIts ==
  ASSUME NEW p \in Stores, Quiet(p), NEW a, NEW t, Goes(p, a, t),
         named'["reclaimer"] = named["reclaimer"], StillIts(p)
  PROVE  StillIts(p)'
BY OthersStand DEF StillIts

(* A step that leaves the reclaimer path alone and looks at nothing there. *)
LEMMA RaceOn ==
  ASSUME HistoryPairInv, NEW p \in running, Quiet(p), NEW a, NEW t, Goes(p, a, t),
         named'["reclaimer"] = named["reclaimer"], seen'[p] = seen[p],
         aside'[p] \in {aside[p], NoInode, named["lock"]},
         Fresh(p)' = Fresh(p), HasReclaimer(p)' => HasReclaimer(p),
         ~(a = "read" /\ t \in Tries), aside'[p] # OfDeadStore,
         t \in {"recheck reclaimer", "stale reclaimer"} =>
           task[p] \in {"recheck reclaimer", "stale reclaimer"},
         t = "stale reclaimer" /\ a = "rename" => named["reclaimer"] = seen[p][1],
         t = "stale reclaimer" /\ a \in {"confirm", "restore", "put back"} =>
           aside'[p] \in Anyone \X {"reclaimer"}
  PROVE  RacePair(p)'
<1>1. p \in Stores /\ RacePair(p) /\ LockTypes
  BY DEF HistoryPairInv, Paired, LockTypes
<1>2. HasReclaimer(p)' => StillIts(p)'
  BY <1>1, StaysIts DEF RacePair
<1>3. Fresh(p)' => \A q \in Stores : aside'[q] # <<p, "reclaimer">>
  <2>1. Fresh(p) => aside'[p] # <<p, "reclaimer">>
    BY <1>1, LockIsNoReclaimer, DeadStoreInode DEF RacePair, Anyone
  <2>. QED
    BY <1>1, <2>1 DEF RacePair, Quiet
<1>4. at'[p] = a /\ task'[p] = t /\ running' = running
  BY DEF Goes, Quiet
<1>. QED
  BY <1>1, <1>2, <1>3, <1>4 DEF RacePair

LEMMA LinkCandidatePair ==
  ASSUME HistoryPairInv, AtMostTwo(Stores), NEW p \in Stores, LinkCandidate(p)
  PROVE  HistoryPairInv'
<1>1. /\ p \in running /\ at[p] = "link" /\ LockTypes /\ Stood(p) /\ RacePair(p) /\ KeepsPair(p)
      /\ p \in Anyone /\ <<p, "reclaimer">> \in Anyone \X {"reclaimer"}
      /\ <<p, "lock">> \in Anyone \X {"lock"}
  BY StandingPair DEF LinkCandidate
<1>2. /\ task[p] \in {"publish reclaimer", "publish lock"} /\ ~won[p]
      /\ aside[p] # OfDeadStore
  BY <1>1 DEF Stood, Asked, RacePair
<1>3. Quiet(p) /\ aside' = aside /\ look' = look /\ seen' = seen /\ won' = won
  BY <1>1 DEF LinkCandidate, Quiet, LockTypes
<1>4. CASE Here(p) = NoInode /\ task[p] = "publish reclaimer"
  <2>1. /\ Goes(p, "drop", "publish reclaimer")
        /\ named' = [named EXCEPT !["reclaimer"] = <<p, "reclaimer">>]
        /\ named["reclaimer"] = NoInode
    <3>1. PathOf(task[p]) = "reclaimer"
      BY <1>4 DEF PathOf, ForReclaimer
    <3>2. /\ Then(p, "drop") /\ named["reclaimer"] = NoInode
          /\ named' = [named EXCEPT !["reclaimer"] = <<p, "reclaimer">>]
      BY <1>4, <3>1 DEF LinkCandidate, Here, Own
    <3>. QED
      BY <1>1, <1>4, <3>2, ThenGoes
  <2>2. /\ named'["reclaimer"] = <<p, "reclaimer">> /\ named'["lock"] = named["lock"]
        /\ NamedOk
    BY <1>1, <2>1 DEF LockTypes, Paths, NamedOk
  <2>3. Fresh(p) /\ ~Out(p) /\ ~Fresh(p)'
    BY <1>1, <1>4, <2>1 DEF Fresh, Out, Goes, Tries
  <2>4. Disturbs(p)
    BY <1>3, <2>1, <2>2, <2>3 DEF Disturbs
  <2>5. RacePair(p)'
    <3>1. <<p, "reclaimer">> # OfDeadStore /\ aside'[p] = aside[p]
      BY <1>3, DeadStoreInode
    <3>2. at'[p] = "drop" /\ task'[p] = "publish reclaimer" /\ StillIts(p)'
      BY <2>1, <2>2 DEF Goes, StillIts
    <3>. QED
      BY <1>1, <1>2, <2>2, <2>3, <3>1, <3>2 DEF RacePair, Tries, HasReclaimer, Asked, Looks
  <2>6. Stood(p)' /\ KeepsPair(p)'
    BY <1>2, <1>3, <2>1 DEF Goes, Stood, KeepsPair, HasLock, Looks, Tries, Removals
  <2>. QED
    BY <1>1, <1>3, <2>1, <2>2, <2>4, <2>5, <2>6, PairStep DEF Paired
<1>5. CASE Here(p) = NoInode /\ task[p] = "publish lock"
  <2>1. /\ Goes(p, "drop", "publish lock")
        /\ named' = [named EXCEPT !["lock"] = <<p, "lock">>]
        /\ named["lock"] = NoInode
    <3>1. PathOf(task[p]) = "lock"
      BY <1>5 DEF PathOf, ForReclaimer
    <3>2. /\ Then(p, "drop") /\ named["lock"] = NoInode
          /\ named' = [named EXCEPT !["lock"] = <<p, "lock">>]
      BY <1>5, <3>1 DEF LinkCandidate, Here, Own
    <3>. QED
      BY <1>1, <1>5, <3>2, ThenGoes
  <2>2. /\ named'["lock"] = <<p, "lock">> /\ named'["reclaimer"] = named["reclaimer"]
        /\ NamedOk
    BY <1>1, <2>1 DEF LockTypes, Paths, NamedOk
  <2>3. ~Fresh(p) /\ ~Out(p) /\ ~Fresh(p)' /\ HasReclaimer(p)
    BY <1>1, <1>5, <2>1 DEF Fresh, Out, Goes, Tries, HasReclaimer
  <2>4. Disturbs(p)
    BY <1>3, <2>1, <2>2, <2>3 DEF Disturbs
  <2>5. RacePair(p)'
    <3>1. (Fresh(p)' = Fresh(p)) /\ aside'[p] = aside[p] /\ seen'[p] = seen[p] /\ "drop" # "read"
      BY <1>1, <1>3, <1>5, <2>1 DEF Fresh, Goes, Tries
    <3>. QED
      BY <1>1, <1>2, <1>3, <2>1, <2>2, <2>3, <3>1, RaceOn
  <2>6. Stood(p)' /\ KeepsPair(p)'
    BY <1>2, <1>3, <2>1, <2>2 DEF Goes, Stood, KeepsPair, HasLock, Looks, Tries, Removals
  <2>. QED
    BY <1>1, <1>3, <2>1, <2>2, <2>4, <2>5, <2>6, PairStep DEF Paired
<1>6. CASE Here(p) # NoInode
  <2>1. /\ named' = named
        /\ \/ task[p] = "publish lock" /\ Goes(p, "assert", "release reclaimer")
           \/ task[p] = "publish reclaimer" /\ Goes(p, "see", "probe reclaimer")
    <3>1. CASE task[p] = "publish lock"
      BY <1>1, <1>6, <3>1, FailsOn DEF LinkCandidate, FailOn, Looks, Tries
    <3>2. CASE task[p] = "publish reclaimer"
      BY <1>1, <1>6, <3>2, DoGoes DEF LinkCandidate
    <3>. QED
      BY <1>2, <3>1, <3>2
  <2>2. PICK a, t : Goes(p, a, t) /\ <<a, t>> \in {<<"assert", "release reclaimer">>, <<"see", "probe reclaimer">>}
    BY <2>1
  <2>3. Fresh(p)' = Fresh(p) /\ ~Out(p) /\ (HasReclaimer(p)' => HasReclaimer(p))
    BY <1>1, <2>1 DEF Fresh, Out, Goes, Tries, HasReclaimer, Asked, Looks
  <2>4. RacePair(p)'
    BY <1>1, <1>2, <1>3, <2>1, <2>2, <2>3, RaceOn
  <2>5. Stood(p)' /\ KeepsPair(p)'
    BY <1>2, <1>3, <2>1 DEF Goes, Stood, KeepsPair, HasLock, Looks, Tries, Removals, Asked
  <2>. QED
    BY <1>1, <1>3, <2>1, <2>2, <2>3, <2>4, <2>5, PairPathsAlone DEF Paired
<1>. QED
  BY <1>2, <1>4, <1>5, <1>6

LEMMA UnlinkCandidatePair ==
  ASSUME HistoryPairInv, AtMostTwo(Stores), NEW p \in Stores, UnlinkCandidate(p)
  PROVE  HistoryPairInv'
<1>1. /\ p \in running /\ at[p] = "drop" /\ LockTypes /\ Stood(p) /\ RacePair(p) /\ KeepsPair(p)
  BY StandingPair DEF UnlinkCandidate
<1>2. /\ Quiet(p) /\ Goes(p, "verify", task[p]) /\ named' = named
      /\ aside' = aside /\ look' = look /\ seen' = seen /\ won' = won
  BY <1>1, ThenGoes DEF UnlinkCandidate, Quiet, LockTypes
<1>3. task[p] \in {"publish reclaimer", "publish lock"} /\ aside[p] # OfDeadStore
  BY <1>1 DEF Stood, Asked, RacePair
<1>4. Fresh(p)' = Fresh(p) /\ ~Out(p) /\ (HasReclaimer(p)' => HasReclaimer(p))
  BY <1>1, <1>2, <1>3 DEF Fresh, Out, Goes, Tries, HasReclaimer, Asked, Looks
<1>5. RacePair(p)'
  BY <1>1, <1>2, <1>3, <1>4, RaceOn
<1>6. Stood(p)' /\ KeepsPair(p)'
  BY <1>1, <1>2, <1>3 DEF Goes, Stood, KeepsPair, HasLock, Looks, Tries, Removals, Asked
<1>. QED
  BY <1>1, <1>2, <1>4, <1>5, <1>6, PairPathsAlone DEF Paired

LEMMA VerifyPublishedPair ==
  ASSUME HistoryPairInv, AtMostTwo(Stores), NEW p \in Stores, VerifyPublished(p)
  PROVE  HistoryPairInv'
<1>1. /\ p \in running /\ at[p] = "verify" /\ LockTypes /\ Stood(p) /\ RacePair(p) /\ KeepsPair(p)
  BY StandingPair DEF VerifyPublished
<1>2. /\ task[p] \in {"publish reclaimer", "publish lock"} /\ ~won[p]
      /\ aside[p] # OfDeadStore
  BY <1>1 DEF Stood, Asked, RacePair
<1>3. /\ named' = named /\ look' = look /\ seen' = seen /\ aside' = aside /\ Quiet(p)
  BY <1>1 DEF VerifyPublished, names, Quiet, LockTypes
<1>4. \/ /\ task[p] = "publish lock"
         /\ \/ Goes(p, "assert", "release reclaimer") /\ won'[p]
            \/ Goes(p, "assert", "failed lock") /\ ~won'[p]
      \/ /\ task[p] = "publish reclaimer" /\ ~won'[p]
         /\ Goes(p, "see", "probe lock") \/ Goes(p, "assert", "failed reclaimer")
  <2>. DEFINE ok == Here(p) = Own(p) /\ LinksOf(Own(p)) = 1
  <2>. HIDE DEF ok
  <2>1. /\ won'[p] = (won[p] \/ (ok /\ task[p] = "publish lock"))
        /\ IF ok /\ task[p] = "publish lock" THEN Do(p, "assert", "release reclaimer")
           ELSE IF ok THEN Do(p, "see", "probe lock")
           ELSE Do(p, "assert", IF task[p] = "publish lock" THEN "failed lock" ELSE "failed reclaimer")
    BY <1>1 DEF VerifyPublished, LockTypes, ok
  <2>. QED
    BY <1>1, <1>2, <2>1, DoGoes
<1>5. PICK a, t : Goes(p, a, t)
  BY <1>4
<1>6. /\ a \in {"assert", "see"}
      /\ t \in {"release reclaimer", "failed lock", "probe lock", "failed reclaimer"}
  BY <1>4, <1>5 DEF Goes
<1>7. Fresh(p)' = Fresh(p) /\ ~Out(p) /\ (HasReclaimer(p)' => HasReclaimer(p))
  BY <1>1, <1>2, <1>5, <1>6 DEF Fresh, Out, Goes, Tries, HasReclaimer, Asked, Looks
<1>8. RacePair(p)'
  BY <1>1, <1>2, <1>3, <1>5, <1>6, <1>7, RaceOn
<1>9. Stood(p)' /\ KeepsPair(p)'
  BY <1>1, <1>2, <1>3, <1>4 DEF Goes, Stood, KeepsPair, HasLock, Looks, Tries, Removals, Asked
<1>. QED
  BY <1>1, <1>3, <1>5, <1>7, <1>8, <1>9, PairPathsAlone DEF Paired

LEMMA TurnsAwayPair ==
  ASSUME HistoryPairInv, AtMostTwo(Stores), NEW p \in running, Quiet(p), named' = named,
         won' = won, seen' = seen, look' = look, aside' = aside, at[p] \in {"see", "read"}, Turned(p)
  PROVE  HistoryPairInv'
<1>1. LockTypes /\ Stood(p) /\ RacePair(p) /\ KeepsPair(p) /\ p \in Stores
  BY DEF HistoryPairInv, LockTypes, Paired
<1>2. PICK a, t :
        /\ Goes(p, a, t)
        /\ \/ /\ task[p] = "probe reclaimer"
              /\ <<a, t>> \in {<<"link", "publish reclaimer">>, <<"refused", "probe reclaimer">>}
           \/ task[p] = "recheck reclaimer" /\ a = "refused" /\ t = "recheck reclaimer"
           \/ task[p] = "probe lock" /\ a = "link" /\ t = "publish lock"
           \/ task[p] \in Looks /\ a = "assert" /\ t = "release reclaimer"
  BY DEF Turned
<1>3. \/ task[p] = "probe reclaimer" /\ a = "link" /\ t = "publish reclaimer"
      \/ task[p] \in Tries /\ a = "refused" /\ t = task[p]
      \/ task[p] = "probe lock" /\ a = "link" /\ t = "publish lock"
      \/ task[p] \in Looks /\ a = "assert" /\ t = "release reclaimer"
  BY <1>2 DEF Tries
<1>4. /\ (Fresh(p)' = Fresh(p)) /\ ~Out(p) /\ (HasReclaimer(p)' => HasReclaimer(p))
      /\ aside[p] # OfDeadStore /\ ~won[p]
  BY <1>1, <1>2, <1>3 DEF Fresh, Out, Goes, Tries, HasReclaimer, Asked, Looks, Stood, RacePair, Removals
<1>5. a # "read" /\ t # "stale reclaimer"
      /\ (t \in {"recheck reclaimer", "stale reclaimer"} =>
            task[p] \in {"recheck reclaimer", "stale reclaimer"})
  BY <1>3 DEF Tries, Looks
<1>6. RacePair(p)'
  BY <1>1, <1>2, <1>4, <1>5, RaceOn
<1>7. Stood(p)'
  BY <1>1, <1>2, <1>3, <1>4 DEF Goes, Stood, Tries, Asked, Removals, Looks
<1>8. KeepsPair(p)'
  BY <1>1, <1>2, <1>3, <1>4 DEF Goes, KeepsPair, HasLock, Tries, Asked, Removals, Looks, Quiet
<1>. QED
  BY <1>1, <1>2, <1>4, <1>6, <1>7, <1>8, PairPathsAlone DEF Paired

LEMMA FailTurnsPair ==
  ASSUME LockTypes, NEW p \in Stores, Stood(p), at[p] \in {"see", "read"}, Fail(p)
  PROVE  Turned(p)
<1>1. task[p] \in Tries \cup Looks /\ ~won[p]
  BY DEF Stood, Asked, Tries, Looks
<1>2. FailOn(p)
  BY <1>1, FailsOn DEF Tries, Looks
<1>. QED
  BY <1>1, <1>2 DEF FailOn, Turned, Tries, Looks

LEMMA ContendedTurnsPair ==
  ASSUME LockTypes, NEW p \in Stores, task[p] = "probe reclaimer", Contended(p)
  PROVE  Turned(p)
BY DoGoes, ThenGoes DEF Contended, Turned

LEMMA VanishedTurnsPair ==
  ASSUME LockTypes, NEW p \in Stores, Stood(p), at[p] \in {"see", "read"}, Vanished(p)
  PROVE  Turned(p)
<1>1. CASE task[p] = "probe reclaimer"
  BY <1>1, ContendedTurnsPair DEF Vanished
<1>2. CASE task[p] = "probe lock"
  <2>1. Do(p, "link", "publish lock")
    BY <1>2 DEF Vanished
  <2>. QED
    BY <1>2, <2>1, DoGoes DEF Turned
<1>3. CASE task[p] \notin {"probe reclaimer", "probe lock"}
  BY <1>3, FailTurnsPair DEF Vanished
<1>. QED
  BY <1>1, <1>2, <1>3

LEMMA SeePathPair ==
  ASSUME HistoryPairInv, AtMostTwo(Stores), NEW p \in Stores, SeePath(p)
  PROVE  HistoryPairInv'
<1>1. /\ p \in running /\ at[p] = "see" /\ LockTypes /\ Stood(p) /\ RacePair(p) /\ KeepsPair(p)
  BY StandingPair DEF SeePath
<1>2. task[p] \in Tries \cup Looks /\ ~won[p] /\ aside[p] # OfDeadStore
  BY <1>1 DEF Stood, Asked, Tries, Looks, RacePair
<1>3. /\ named' = named /\ seen' = seen /\ won' = won /\ aside' = aside /\ Quiet(p)
  BY <1>1 DEF SeePath, names, Quiet, LockTypes
<1>4. \/ Turned(p) /\ look' = look
      \/ Goes(p, "read", task[p]) /\ Here(p) # NoInode /\ look'[p] = Here(p)
  BY <1>1, FailTurnsPair, VanishedTurnsPair, ThenGoes DEF SeePath, LockTypes
<1>5. CASE Turned(p) /\ look' = look
  BY <1>1, <1>3, <1>5, TurnsAwayPair
<1>6. CASE Goes(p, "read", task[p]) /\ Here(p) # NoInode /\ look'[p] = Here(p)
  <2>1. /\ (Fresh(p)' = Fresh(p)) /\ ~Out(p) /\ (HasReclaimer(p)' => HasReclaimer(p))
    BY <1>1, <1>2, <1>6 DEF Fresh, Out, Goes, Tries, HasReclaimer, Asked, Looks
  <2>2. Stood(p)'
    BY <1>1, <1>2, <1>3, <1>6 DEF Goes, Stood, Tries, Looks
  <2>3. CASE task[p] \in Tries
    <3>1. named["reclaimer"] # NoInode /\ look'[p] = named["reclaimer"]
      BY <1>6, <2>3 DEF Here, PathOf, ForReclaimer, Tries
    <3>2. PICK q \in Anyone : named["reclaimer"] = <<q, "reclaimer">>
      BY <1>1, <3>1 DEF LockTypes, Paths
    <3>3. q \in Stores => ~Fresh(q)
      BY <3>2 DEF HistoryPairInv, Paired, RacePair
    <3>4. Fresh(p)
      BY <2>3 DEF Fresh
    <3>5. q \in Stores => ~Fresh(q)'
      <4>1. q # p
        BY <3>3, <3>4
      <4>. QED
        BY <1>3, <1>6, <3>3, <4>1, OthersStand
    <3>6. RacePair(p)'
      BY <1>1, <1>2, <1>3, <1>6, <2>1, <2>3, <3>1, <3>2, <3>4, <3>5
         DEF RacePair, Goes, Tries, HasReclaimer, Looks, Asked, Quiet
    <3>7. KeepsPair(p)'
      BY <1>1, <1>2, <1>3, <1>6, <2>3 DEF Goes, KeepsPair, HasLock, Looks, Tries, Removals, Asked
    <3>. QED
      BY <1>1, <1>3, <1>6, <2>1, <2>2, <3>6, <3>7, PairPathsAlone DEF Paired
  <2>4. CASE task[p] \in Looks
    <3>1. named["lock"] # NoInode /\ look'[p] = named["lock"]
      BY <1>6, <2>4 DEF Here, PathOf, ForReclaimer, Looks
    <3>2. task[p] \notin {"recheck reclaimer", "stale reclaimer"} \cup Tries
      BY <2>4 DEF Looks, Tries
    <3>3. RacePair(p)'
      BY <1>1, <1>2, <1>3, <1>6, <2>1, <3>2, RaceOn
    <3>4. KeepsPair(p)'
      BY <1>1, <1>2, <1>3, <1>6, <2>4, <3>1
         DEF Goes, KeepsPair, HasLock, Looks, Tries, Removals, Asked, Quiet
    <3>. QED
      BY <1>1, <1>3, <1>6, <2>1, <2>2, <3>3, <3>4, PairPathsAlone DEF Paired
  <2>. QED
    BY <1>2, <2>3, <2>4
<1>. QED
  BY <1>4, <1>5, <1>6

LEMMA ReadLockPair ==
  ASSUME HistoryPairInv, AtMostTwo(Stores), NEW p \in Stores, ReadLock(p)
  PROVE  HistoryPairInv'
<1>1. /\ p \in running /\ at[p] = "read" /\ LockTypes /\ Stood(p) /\ RacePair(p) /\ KeepsPair(p)
  BY StandingPair DEF ReadLock
<1>2. task[p] \in Tries \cup Looks /\ ~won[p] /\ aside[p] # OfDeadStore /\ ~Out(p)
  BY <1>1 DEF Stood, Asked, Tries, Looks, RacePair, Out
<1>3. /\ named' = named /\ look' = look /\ won' = won /\ aside' = aside /\ Quiet(p)
  BY <1>1 DEF ReadLock, names, Quiet, LockTypes
<1>4. \/ Turned(p) /\ seen' = seen
      \/ /\ Here(p) # NoInode /\ seen'[p] = Observed(p) /\ Observed(p)[2] # "live"
         /\ \/ task[p] = "probe reclaimer" /\ Goes(p, "see", "recheck reclaimer")
            \/ task[p] = "probe lock" /\ Goes(p, "see", "confirm lock")
      \/ /\ seen' = seen /\ Observed(p) = seen[p]
         /\ \/ task[p] = "recheck reclaimer" /\ Goes(p, "assert", "stale reclaimer")
            \/ task[p] = "confirm lock" /\ Goes(p, "see", "recheck lock")
            \/ task[p] = "recheck lock" /\ Goes(p, "assert", "stale lock")
  <2>1. CASE Here(p) = NoInode
    BY <1>1, <2>1, VanishedTurnsPair DEF ReadLock
  <2>2. CASE Here(p) # NoInode /\ task[p] \in {"probe reclaimer", "probe lock"}
    <3>1. CASE Observed(p)[2] = "live"
      BY <1>1, <2>2, <3>1, ContendedTurnsPair, FailTurnsPair DEF ReadLock
    <3>2. CASE Observed(p)[2] # "live"
      <4>1. /\ seen' = [seen EXCEPT ![p] = Observed(p)]
            /\ Do(p, NextLook(task[p])[1], NextLook(task[p])[2])
        BY <2>2, <3>2 DEF ReadLock
      <4>2. /\ task[p] = "probe reclaimer" =>
                 NextLook(task[p])[1] = "see" /\ NextLook(task[p])[2] = "recheck reclaimer"
            /\ task[p] = "probe lock" =>
                 NextLook(task[p])[1] = "see" /\ NextLook(task[p])[2] = "confirm lock"
        BY DEF NextLook
      <4>3. /\ task[p] = "probe reclaimer" => Do(p, "see", "recheck reclaimer")
            /\ task[p] = "probe lock" => Do(p, "see", "confirm lock")
        BY <4>1, <4>2 DEF Do
      <4>4. seen'[p] = Observed(p)
        BY <1>1, <4>1 DEF LockTypes
      <4>. QED
        BY <1>1, <2>2, <3>2, <4>3, <4>4, DoGoes
    <3>. QED
      BY <3>1, <3>2
  <2>3. CASE Here(p) # NoInode /\ task[p] \notin {"probe reclaimer", "probe lock"}
    <3>1. seen' = seen
      BY <2>3 DEF ReadLock
    <3>2. CASE Observed(p) # seen[p]
      BY <1>1, <2>3, <3>1, <3>2, FailTurnsPair DEF ReadLock
    <3>3. CASE Observed(p) = seen[p]
      <4>1. Do(p, NextLook(task[p])[1], NextLook(task[p])[2])
        BY <2>3, <3>3 DEF ReadLock
      <4>2. /\ task[p] = "recheck reclaimer" =>
                 NextLook(task[p])[1] = "assert" /\ NextLook(task[p])[2] = "stale reclaimer"
            /\ task[p] = "confirm lock" =>
                 NextLook(task[p])[1] = "see" /\ NextLook(task[p])[2] = "recheck lock"
            /\ task[p] = "recheck lock" =>
                 NextLook(task[p])[1] = "assert" /\ NextLook(task[p])[2] = "stale lock"
        BY DEF NextLook
      <4>3. /\ task[p] = "recheck reclaimer" => Do(p, "assert", "stale reclaimer")
            /\ task[p] = "confirm lock" => Do(p, "see", "recheck lock")
            /\ task[p] = "recheck lock" => Do(p, "assert", "stale lock")
        BY <4>1, <4>2 DEF Do
      <4>4. task[p] \in {"recheck reclaimer", "confirm lock", "recheck lock"}
        BY <1>2, <2>3 DEF Tries, Looks
      <4>. QED
        BY <1>1, <3>1, <3>3, <4>3, <4>4, DoGoes
    <3>. QED
      BY <3>2, <3>3
  <2>. QED
    BY <2>1, <2>2, <2>3
<1>5. CASE Turned(p) /\ seen' = seen
  BY <1>1, <1>3, <1>5, TurnsAwayPair
<1>6. CASE /\ Here(p) # NoInode /\ seen'[p] = Observed(p) /\ Observed(p)[2] # "live"
           /\ task[p] = "probe reclaimer" /\ Goes(p, "see", "recheck reclaimer")
  <2>1. PICK q \in Anyone : look[p] = <<q, "reclaimer">> /\ (q \in Stores => ~Fresh(q))
    BY <1>1, <1>6 DEF RacePair, Tries
  <2>2. Here(p) = named["reclaimer"] /\ named["reclaimer"] # NoInode
    BY <1>6 DEF Here, PathOf, ForReclaimer
  <2>3. Fresh(p) /\ (Fresh(p)' = Fresh(p)) /\ ~HasReclaimer(p)'
    BY <1>6 DEF Fresh, Goes, Tries, HasReclaimer, Looks, Asked
  <2>4. q \notin running
    <3>. SUFFICES ASSUME q \in running PROVE FALSE
      OBVIOUS
    <3>1. q \in Stores /\ q # p
      BY <1>1, <2>1, <2>3 DEF LockTypes
    <3>2. \A r \in Stores \ {p} : r = q
      BY <3>1 DEF AtMostTwo
    <3>3. named["reclaimer"] # <<p, "reclaimer">> /\ named["reclaimer"] # OfDeadStore
      BY <1>1, <2>1, <2>3, <3>1 DEF HistoryPairInv, Paired, RacePair
    <3>4. named["reclaimer"] = <<q, "reclaimer">>
      BY <1>1, <2>2, <3>2, <3>3, ReclaimerIs
    <3>5. <<q, "reclaimer">>[1] = q
      OBVIOUS
    <3>. QED
      BY <1>6, <2>1, <2>2, <3>4, <3>5, ObservedIs
  <2>5. seen'[p][1] = <<q, "reclaimer">>
    BY <1>6, <2>1, ObservedIs
  <2>6. RacePair(p)'
    BY <1>1, <1>2, <1>3, <1>6, <2>3, <2>4, <2>5 DEF RacePair, Goes, Tries, Quiet
  <2>7. Stood(p)' /\ KeepsPair(p)'
    BY <1>1, <1>2, <1>3, <1>6 DEF Goes, Stood, KeepsPair, HasLock, Looks, Tries, Removals, Asked
  <2>. QED
    BY <1>1, <1>2, <1>3, <1>6, <2>3, <2>6, <2>7, PairPathsAlone DEF Paired
<1>7. CASE /\ Here(p) # NoInode /\ seen'[p] = Observed(p) /\ Observed(p)[2] # "live"
           /\ task[p] = "probe lock" /\ Goes(p, "see", "confirm lock")
  <2>1. Here(p) = look[p]
    BY <1>1, <1>7 DEF KeepsPair, Here, PathOf, ForReclaimer, Looks
  <2>2. seen'[p][2] = "stale" /\ seen'[p][1] = look[p] /\ look[p][1] \notin running
    BY <1>7, <2>1, ObservedIs
  <2>3. (Fresh(p)' = Fresh(p)) /\ HasReclaimer(p) /\ ~Fresh(p)
    BY <1>7 DEF Fresh, Goes, Tries, HasReclaimer, Looks, Asked
  <2>4. StillIts(p)'
    BY <1>1, <1>3, <1>7, <2>3, StaysIts DEF RacePair
  <2>5. RacePair(p)'
    BY <1>1, <1>2, <1>3, <1>7, <2>3, <2>4 DEF RacePair, Goes, Tries, Quiet
  <2>6. Stood(p)' /\ KeepsPair(p)'
    BY <1>1, <1>2, <1>3, <1>7, <2>2 DEF Goes, Stood, KeepsPair, HasLock, Looks, Tries, Removals, Asked, Quiet
  <2>. QED
    BY <1>1, <1>2, <1>3, <1>7, <2>3, <2>5, <2>6, PairPathsAlone DEF Paired
<1>8. CASE /\ seen' = seen
           /\ \/ task[p] = "recheck reclaimer" /\ Goes(p, "assert", "stale reclaimer")
              \/ task[p] = "confirm lock" /\ Goes(p, "see", "recheck lock")
              \/ task[p] = "recheck lock" /\ Goes(p, "assert", "stale lock")
  <2>1. PICK a, t : Goes(p, a, t)
    BY <1>8
  <2>2. /\ a \in {"assert", "see"}
        /\ \/ task[p] = "recheck reclaimer" /\ t = "stale reclaimer"
           \/ t \in {"recheck lock", "stale lock"}
    BY <1>8, <2>1 DEF Goes
  <2>3. (Fresh(p)' = Fresh(p)) /\ (HasReclaimer(p)' => HasReclaimer(p))
    BY <1>8 DEF Fresh, Goes, Tries, HasReclaimer, Looks, Asked
  <2>4. RacePair(p)'
    BY <1>1, <1>2, <1>3, <1>8, <2>1, <2>2, <2>3, RaceOn
  <2>5. Stood(p)' /\ KeepsPair(p)'
    BY <1>1, <1>2, <1>3, <1>8 DEF Goes, Stood, KeepsPair, HasLock, Looks, Tries, Removals, Asked, Quiet
  <2>. QED
    BY <1>1, <1>2, <1>3, <2>1, <2>3, <2>4, <2>5, PairPathsAlone DEF Paired
<1>. QED
  BY <1>4, <1>5, <1>6, <1>7, <1>8

(* Whoever is about to take its own file away finds it there; or, of a     *)
(* reclaimer, nothing.                                                     *)
LEMMA FindsOwnLock ==
  ASSUME HistoryPairInv, NEW p \in running, at[p] \in Asked, task[p] \in {"failed lock", "release lock"}
  PROVE  Here(p) = Own(p) /\ Wanted(p) = Own(p) /\ Own(p) = <<p, "lock">> /\ Here(p) # NoInode
<1>1. KeepsPair(p) /\ p \in Stores
  BY DEF HistoryPairInv, LockTypes, Paired
<1>2. Wanted(p) = Own(p) /\ Own(p) = <<p, "lock">> /\ Here(p) = named["lock"]
  BY DEF Wanted, Own, Here, PathOf, ForReclaimer
<1>3. named["lock"] = <<p, "lock">>
  BY <1>1 DEF KeepsPair, HasLock
<1>. QED
  BY <1>1, <1>2, <1>3, DeadStoreInode

LEMMA FindsOwnReclaimer ==
  ASSUME HistoryPairInv, AtMostTwo(Stores), NEW p \in running, at[p] \in Asked,
         task[p] \in {"failed reclaimer", "release reclaimer"}
  PROVE  /\ Here(p) \in {NoInode, Own(p)} /\ Wanted(p) = Own(p) /\ Here(p) = named["reclaimer"]
         /\ Own(p) = <<p, "reclaimer">> /\ HasReclaimer(p) /\ ~Fresh(p)
<1>1. HasReclaimer(p) /\ ~Fresh(p)
  BY DEF HasReclaimer, Fresh, Tries
<1>2. Wanted(p) = Own(p) /\ Own(p) = <<p, "reclaimer">> /\ Here(p) = named["reclaimer"]
  BY DEF Wanted, Own, Here, PathOf, ForReclaimer
<1>. QED
  BY <1>1, <1>2, ReclaimerOrNothing

(* Where a step that finds the path empty, or what it removed gone, leads. *)
Ended(p, a, t) ==
  \/ task[p] = "stale lock" /\ a = "assert" /\ t = "release reclaimer"
  \/ task[p] = "failed lock" /\ a = "assert" /\ t = "release reclaimer"
  \/ task[p] = "release lock" /\ a = "gone" /\ t = "release lock"
  \/ task[p] = "release reclaimer" /\ won[p] /\ a = "holds" /\ t = "release reclaimer"
  \/ /\ task[p] \in {"failed reclaimer", "release reclaimer", "stale reclaimer"}
     /\ ~won[p] /\ a = "refused" /\ t = task[p]
  \/ task[p] = "stale lock" /\ a = "link" /\ t = "publish lock"
  \/ task[p] = "stale reclaimer" /\ a = "link" /\ t = "publish reclaimer"

LEMMA Ends ==
  ASSUME LockTypes, NEW p \in Stores, Stood(p), at[p] \in Asked \cup {"confirm"},
         Removed(p) \/ (Fail(p) /\ task[p] # "release reclaimer")
  PROVE  \E a, t : Goes(p, a, t) /\ Ended(p, a, t)
<1>1. task[p] \in Removals \cup {"stale reclaimer"}
  BY DEF Stood, Asked
<1>2. task[p] # "release reclaimer" /\ FailOn(p) => \E a, t : Goes(p, a, t) /\ Ended(p, a, t)
  BY <1>1 DEF FailOn, Ended, Removals, Looks, Tries
<1>3. CASE Fail(p) /\ task[p] # "release reclaimer"
  BY <1>1, <1>2, <1>3, FailsOn DEF Removals
<1>4. CASE Removed(p)
  <2>1. RemovedOn(p)
    BY <1>4, RemovesOn
  <2>2. CASE task[p] \in {"failed lock", "failed reclaimer", "release lock"}
    BY <1>2, <2>1, <2>2 DEF RemovedOn
  <2>3. CASE task[p] = "release reclaimer" /\ won[p]
    BY <2>1, <2>3 DEF RemovedOn, Ended
  <2>4. CASE task[p] = "release reclaimer" /\ ~won[p]
    BY <2>1, <2>4 DEF RemovedOn, Ended
  <2>5. CASE task[p] \in {"stale lock", "stale reclaimer"}
    BY <2>1, <2>5 DEF RemovedOn, Ended
  <2>. QED
    BY <1>1, <2>2, <2>3, <2>4, <2>5 DEF Removals
<1>. QED
  BY <1>3, <1>4

(* It keeps what the process had, or lets it go.                           *)
LEMMA EndsPair ==
  ASSUME HistoryPairInv, AtMostTwo(Stores), NEW p \in running, Quiet(p), named' = named,
         won' = won, seen' = seen, look' = look, aside'[p] \in {aside[p], NoInode},
         aside'[p] # OfDeadStore, at[p] \in Asked \cup {"confirm"}, ~Out(p),
         \E a, t : Goes(p, a, t) /\ Ended(p, a, t),
         at[p] = "confirm" \/ task[p] = "stale lock" \/ task[p] = "stale reclaimer"
           \/ task[p] \in {"failed reclaimer", "release reclaimer"}
  PROVE  HistoryPairInv'
<1>1. LockTypes /\ Stood(p) /\ RacePair(p) /\ KeepsPair(p) /\ p \in Stores
  BY DEF HistoryPairInv, LockTypes, Paired
<1>2. PICK a, t : Goes(p, a, t) /\ Ended(p, a, t)
  OBVIOUS
<1>3. (Fresh(p)' = Fresh(p)) /\ (HasReclaimer(p)' => HasReclaimer(p))
  BY <1>1, <1>2 DEF Ended, Fresh, Goes, Tries, HasReclaimer, Looks, Asked, Stood, Removals
<1>4. /\ a \notin {"read", "rename", "confirm", "restore", "put back"}
      /\ t # "recheck reclaimer" /\ (t = "stale reclaimer" => task[p] = "stale reclaimer")
  BY <1>2 DEF Ended
<1>5. RacePair(p)'
  BY <1>1, <1>2, <1>3, <1>4, RaceOn
<1>6. Stood(p)'
  BY <1>1, <1>2 DEF Ended, Goes, Stood, Looks, Tries, Removals, Asked
<1>7. KeepsPair(p)'
  BY <1>1, <1>2 DEF Ended, Goes, KeepsPair, HasLock, Looks, Tries, Removals, Asked, Stood, Quiet
<1>. QED
  BY <1>1, <1>2, <1>3, <1>5, <1>6, <1>7, PairPathsAlone DEF Paired

LEMMA AssertOwnedPair ==
  ASSUME HistoryPairInv, AtMostTwo(Stores), NEW p \in Stores, AssertOwned(p)
  PROVE  HistoryPairInv'
<1>1. /\ p \in running /\ at[p] = "assert" /\ LockTypes /\ Stood(p) /\ RacePair(p) /\ KeepsPair(p)
  BY StandingPair DEF AssertOwned
<1>2. /\ task[p] \in Removals \cup {"stale reclaimer"} /\ aside[p] # OfDeadStore /\ ~Out(p)
      /\ at[p] \in Asked
  BY <1>1 DEF Stood, Asked, RacePair, Out
<1>3. /\ named' = named /\ look' = look /\ seen' = seen /\ won' = won /\ aside' = aside /\ Quiet(p)
  BY <1>1 DEF AssertOwned, names, Quiet, LockTypes
<1>4. \/ Here(p) = Wanted(p) /\ Goes(p, "rename", task[p])
      \/ /\ task[p] \notin {"failed lock", "release lock"}
         /\ \E a, t : Goes(p, a, t) /\ Ended(p, a, t)
  <2>1. CASE Here(p) = Wanted(p) /\ Then(p, "rename")
    BY <1>1, <2>1, ThenGoes
  <2>2. CASE Here(p) # Wanted(p) \/ Here(p) = NoInode
    <3>1. task[p] \in {"failed lock", "release lock"} => Then(p, "rename") /\ Here(p) = Wanted(p)
      BY <1>1, <1>2, FindsOwnLock DEF AssertOwned
    <3>2. CASE task[p] \notin {"failed lock", "release lock"}
      <4>1. CASE task[p] = "release reclaimer"
        <5>1. Releasing(p) /\ Here(p) \in {NoInode, Wanted(p)}
          BY <1>1, <1>2, <4>1, FindsOwnReclaimer DEF Releasing
        <5>2. Removed(p) \/ (Here(p) = Wanted(p) /\ Then(p, "rename"))
          BY <5>1 DEF AssertOwned
        <5>. QED
          BY <1>1, <1>2, <2>1, <3>2, <5>2, Ends
      <4>2. CASE task[p] # "release reclaimer"
        <5>1. ~Releasing(p)
          BY <3>2, <4>2 DEF Releasing
        <5>2. Fail(p) \/ (Here(p) = Wanted(p) /\ Then(p, "rename"))
          BY <5>1 DEF AssertOwned
        <5>. QED
          BY <1>1, <1>2, <2>1, <3>2, <4>2, <5>2, Ends
      <4>. QED
        BY <4>1, <4>2
    <3>. QED
      BY <2>1, <3>1, <3>2
  <2>. QED
    BY <2>1, <2>2 DEF AssertOwned
<1>5. CASE Here(p) = Wanted(p) /\ Goes(p, "rename", task[p])
  <2>1. (Fresh(p)' = Fresh(p)) /\ (HasReclaimer(p)' => HasReclaimer(p))
    BY <1>1, <1>2, <1>5 DEF Fresh, Goes, Tries, HasReclaimer, Looks, Asked, Removals
  <2>2. /\ task[p] = "stale reclaimer" => named["reclaimer"] = seen[p][1]
        /\ task[p] = "stale lock" => named["lock"] = seen[p][1]
    BY <1>5 DEF Wanted, Here, PathOf, ForReclaimer
  <2>3. RacePair(p)'
    BY <1>1, <1>2, <1>3, <1>5, <2>1, <2>2, RaceOn
  <2>4. Stood(p)' /\ KeepsPair(p)'
    BY <1>1, <1>2, <1>3, <1>5, <2>2
       DEF Goes, Stood, KeepsPair, HasLock, Looks, Tries, Removals, Asked, Quiet
  <2>. QED
    BY <1>1, <1>2, <1>3, <1>5, <2>1, <2>3, <2>4, PairPathsAlone DEF Paired
<1>6. CASE /\ task[p] \notin {"failed lock", "release lock"}
           /\ \E a, t : Goes(p, a, t) /\ Ended(p, a, t)
  BY <1>1, <1>2, <1>3, <1>6, EndsPair DEF Removals
<1>. QED
  BY <1>4, <1>5, <1>6

LEMMA RenameAsidePair ==
  ASSUME HistoryPairInv, AtMostTwo(Stores), NEW p \in Stores, RenameAside(p)
  PROVE  HistoryPairInv'
<1>1. /\ p \in running /\ at[p] = "rename" /\ LockTypes /\ Stood(p) /\ RacePair(p) /\ KeepsPair(p)
      /\ p \in Anyone
  BY StandingPair DEF RenameAside
<1>2. /\ task[p] \in Removals \cup {"stale reclaimer"} /\ aside[p] # OfDeadStore /\ ~Out(p)
      /\ at[p] \in Asked
  BY <1>1 DEF Stood, Asked, RacePair, Out
<1>3. /\ look' = look /\ seen' = seen /\ won' = won /\ Quiet(p)
  <2>1. aside' = aside \/ aside' = [aside EXCEPT ![p] = Here(p)]
    BY <1>1 DEF RenameAside, names
  <2>2. /\ DOMAIN aside' = Anyone
        /\ \A q \in Stores \ {p} : aside'[q] = aside[q]
    BY <1>1, <2>1 DEF LockTypes, Anyone
  <2>. QED
    BY <1>1, <2>2 DEF RenameAside, Quiet, LockTypes
<1>4. CASE Here(p) = NoInode
  <2>1. /\ named' = named /\ aside' = aside
        /\ Removed(p) \/ (Fail(p) /\ task[p] # "release reclaimer")
    BY <1>4 DEF RenameAside, names, Releasing
  <2>2. \E a, t : Goes(p, a, t) /\ Ended(p, a, t)
    BY <1>1, <1>2, <2>1, Ends
  <2>3. task[p] \notin {"failed lock", "release lock"}
    BY <1>1, <1>2, <1>4, FindsOwnLock
  <2>. QED
    BY <1>1, <1>2, <1>3, <2>1, <2>2, <2>3, EndsPair DEF Removals
<1>5. CASE Here(p) # NoInode
  <2>1. /\ named' = [named EXCEPT ![PathOf(task[p])] = NoInode]
        /\ aside'[p] = Here(p)
        /\ Goes(p, "confirm", task[p])
    BY <1>1, <1>5, ThenGoes DEF RenameAside, LockTypes
  <2>2. /\ PathOf(task[p]) = "reclaimer" =>
             named'["reclaimer"] = NoInode /\ named'["lock"] = named["lock"]
        /\ PathOf(task[p]) = "lock" =>
             named'["lock"] = NoInode /\ named'["reclaimer"] = named["reclaimer"]
        /\ NamedOk
    BY <1>1, <1>2, <2>1 DEF PathOf, LockTypes, Paths, NamedOk
  <2>3. /\ at'[p] = "confirm" /\ task'[p] = task[p] /\ (Fresh(p)' = Fresh(p))
        /\ Wanted(p)' = Wanted(p)
    BY <1>1, <1>3, <2>1 DEF Fresh, Goes, Tries, Wanted, Own
  <2>4. Stood(p)'
    BY <1>1, <1>2, <1>3, <2>3 DEF Stood, Asked, Removals
  <2>5. CASE task[p] = "stale reclaimer"
    <3>1. /\ Here(p) = named["reclaimer"] /\ named'["reclaimer"] = NoInode
          /\ named'["lock"] = named["lock"]
      BY <2>2, <2>5 DEF Here, PathOf, ForReclaimer
    <3>2. seen[p][1] # named["reclaimer"] => Out(p)'
      BY <1>3, <2>1, <2>3, <2>5, <3>1 DEF Out
    <3>3. Disturbs(p)
      BY <1>2, <2>1, <2>3, <2>5, <3>1, <3>2 DEF Disturbs
    <3>4. named["reclaimer"] \in Anyone \X {"reclaimer"}
      BY <1>1, <1>5, <3>1 DEF LockTypes, Paths
    <3>5. /\ Fresh(p) /\ Fresh(p)' /\ ~HasReclaimer(p)' /\ aside'[p] # <<p, "reclaimer">>
          /\ (aside'[p] = OfDeadStore => seen[p][1] = OfDeadStore)
      BY <1>1, <2>1, <2>3, <2>5, <3>1 DEF Fresh, HasReclaimer, Looks, Asked, RacePair
    <3>6. \A q \in Stores : aside'[q] # <<p, "reclaimer">>
      BY <1>1, <1>3, <3>5 DEF RacePair, Quiet
    <3>7. NoInode # <<p, "reclaimer">> /\ NoInode # OfDeadStore
      BY DeadStoreInode
    <3>8. RacePair(p)'
      BY <1>1, <1>3, <2>1, <2>3, <2>5, <3>1, <3>4, <3>5, <3>6, <3>7 DEF RacePair, Tries, Quiet
    <3>9. KeepsPair(p)'
      BY <1>1, <1>3, <2>3, <2>4, <2>5 DEF KeepsPair, HasLock, Looks, Removals, Stood
    <3>. QED
      BY <1>1, <1>3, <2>1, <2>2, <2>4, <3>3, <3>8, <3>9, PairStep DEF Paired
  <2>6. CASE task[p] \in {"failed reclaimer", "release reclaimer"}
    <3>1. /\ Here(p) = Own(p) /\ Wanted(p) = Own(p) /\ Here(p) = named["reclaimer"]
          /\ Own(p) = <<p, "reclaimer">> /\ HasReclaimer(p) /\ ~Fresh(p)
      BY <1>1, <1>2, <1>5, <2>6, FindsOwnReclaimer
    <3>2. named'["reclaimer"] = NoInode /\ named'["lock"] = named["lock"]
      BY <2>2, <2>6 DEF PathOf, ForReclaimer
    <3>3. Disturbs(p)
      BY <1>2, <2>1, <2>3, <3>1, <3>2 DEF Disturbs
    <3>4. ~HasReclaimer(p)' /\ ~Fresh(p)'
      BY <2>3, <2>6, <3>1 DEF HasReclaimer, Looks, Asked
    <3>5. aside'[p] = <<p, "reclaimer">> /\ <<p, "reclaimer">> # OfDeadStore /\ NoInode # OfDeadStore
      BY <2>1, <3>1, DeadStoreInode
    <3>6. RacePair(p)'
      BY <2>3, <2>6, <3>2, <3>4, <3>5 DEF RacePair, Tries
    <3>7. KeepsPair(p)'
      BY <1>1, <1>3, <2>1, <2>3, <2>6, <3>1, <3>2 DEF KeepsPair, HasLock, Looks, Asked, Stood
    <3>. QED
      BY <1>1, <1>3, <2>1, <2>2, <2>4, <3>3, <3>6, <3>7, PairStep DEF Paired
  <2>7. CASE task[p] \in {"stale lock", "failed lock", "release lock"}
    <3>1. /\ Here(p) = named["lock"] /\ named'["lock"] = NoInode
          /\ named'["reclaimer"] = named["reclaimer"]
      BY <2>2, <2>7 DEF Here, PathOf, ForReclaimer
    <3>2. task[p] = "stale lock" =>
            Here(p) = Wanted(p) /\ HasReclaimer(p) /\ named["lock"][1] \notin running
      BY <1>1, <3>1 DEF KeepsPair, Wanted, HasReclaimer
    <3>3. task[p] \in {"failed lock", "release lock"} => Here(p) = Wanted(p) /\ HasLock(p)
      BY <1>1, <1>2, FindsOwnLock DEF HasLock
    <3>4. /\ Here(p) = Wanted(p)
          /\ (HasReclaimer(p) /\ named["lock"][1] \notin running) \/ HasLock(p)
      BY <2>7, <3>2, <3>3
    <3>5. Disturbs(p)
      BY <1>2, <2>1, <2>3, <3>1, <3>4 DEF Disturbs
    <3>6. HasReclaimer(p)' => HasReclaimer(p)
      BY <2>3, <2>7 DEF HasReclaimer, Looks
    <3>7. OfDeadStore # named["lock"]
      BY <1>1, LockIsNoReclaimer DEF OfDeadStore, Anyone
    <3>8. RacePair(p)'
      BY <1>1, <1>3, <2>1, <2>3, <2>7, <3>1, <3>6, <3>7, RaceOn
    <3>9. KeepsPair(p)'
      <4>1. ~HasLock(p)' /\ (aside[p])' = Wanted(p)'
        BY <1>1, <1>3, <2>1, <2>3, <2>7, <3>4 DEF HasLock, Asked, Stood, Removals
      <4>. QED
        BY <1>1, <1>3, <2>3, <2>7, <4>1 DEF KeepsPair, Looks, Quiet
    <3>. QED
      BY <1>1, <1>3, <2>1, <2>2, <2>4, <3>5, <3>8, <3>9, PairStep DEF Paired
  <2>. QED
    BY <1>2, <2>5, <2>6, <2>7 DEF Removals
<1>. QED
  BY <1>4, <1>5

LEMMA ConfirmAsidePair ==
  ASSUME HistoryPairInv, AtMostTwo(Stores), NEW p \in Stores, ConfirmAside(p)
  PROVE  HistoryPairInv'
<1>1. /\ p \in running /\ at[p] = "confirm" /\ LockTypes /\ Stood(p) /\ RacePair(p) /\ KeepsPair(p)
      /\ p \in Anyone
  BY StandingPair DEF ConfirmAside
<1>2. task[p] \in Removals \cup {"stale reclaimer"} /\ at[p] \in Asked \cup {"confirm"}
  BY <1>1 DEF Stood, Asked
<1>3. named' = named /\ look' = look /\ seen' = seen /\ won' = won
  BY DEF ConfirmAside
<1>4. Quiet(p) /\ aside'[p] \in {aside[p], NoInode}
  BY <1>1 DEF ConfirmAside, Quiet, LockTypes, Anyone
<1>5. CASE aside[p] = Wanted(p)
  <2>1. aside'[p] = NoInode /\ Removed(p)
    BY <1>1, <1>5 DEF ConfirmAside, LockTypes
  <2>2. \E a, t : Goes(p, a, t) /\ Ended(p, a, t)
    BY <1>1, <1>2, <2>1, Ends
  <2>3. ~Out(p)
    BY <1>1, <1>5 DEF Out, Wanted
  <2>4. aside'[p] # OfDeadStore
    BY <2>1, DeadStoreInode
  <2>. QED
    BY <1>1, <1>2, <1>3, <1>4, <2>2, <2>3, <2>4, EndsPair
<1>6. CASE aside[p] # Wanted(p)
  <2>1. Goes(p, "restore", task[p]) /\ aside' = aside
    BY <1>1, <1>6, ThenGoes DEF ConfirmAside
  <2>2. task[p] = "stale reclaimer"
    BY <1>1, <1>2, <1>6 DEF KeepsPair
  <2>3. aside[p] # OfDeadStore /\ aside[p] \in Anyone \X {"reclaimer"}
    BY <1>1, <1>6, <2>2 DEF RacePair, Wanted
  <2>4. /\ (Fresh(p)' = Fresh(p)) /\ Out(p)' /\ ~HasReclaimer(p)'
    BY <1>1, <2>1, <2>2 DEF Fresh, Out, Goes, HasReclaimer, Looks
  <2>5. RacePair(p)'
    BY <1>1, <1>3, <1>4, <2>1, <2>2, <2>3, <2>4, RaceOn DEF Tries
  <2>6. Stood(p)' /\ KeepsPair(p)'
    BY <1>1, <1>3, <2>1, <2>2 DEF Goes, Stood, KeepsPair, HasLock, Looks, Tries, Removals, Asked
  <2>. QED
    BY <1>1, <1>3, <1>4, <2>1, <2>4, <2>5, <2>6, PairPathsAlone DEF Paired
<1>. QED
  BY <1>5, <1>6

LEMMA SeeBeforeRestorePair ==
  ASSUME HistoryPairInv, AtMostTwo(Stores), NEW p \in Stores, SeeBeforeRestore(p)
  PROVE  HistoryPairInv'
<1>1. /\ p \in running /\ at[p] = "restore" /\ LockTypes /\ Stood(p) /\ RacePair(p) /\ KeepsPair(p)
  BY StandingPair DEF SeeBeforeRestore
<1>2. /\ task[p] = "stale reclaimer" /\ aside[p] # OfDeadStore
      /\ aside[p] \in Anyone \X {"reclaimer"} /\ ~won[p]
  BY <1>1 DEF Stood, Asked, RacePair
<1>3. /\ named' = named /\ aside' = aside /\ look' = look /\ seen' = seen /\ won' = won /\ Quiet(p)
  BY <1>1 DEF SeeBeforeRestore, names, Quiet, LockTypes
<1>4. Goes(p, "put back", "stale reclaimer") \/ Goes(p, "refused", "stale reclaimer")
  <2>1. Then(p, "put back") \/ Fail(p)
    BY DEF SeeBeforeRestore
  <2>. QED
    BY <1>1, <1>2, <2>1, ThenGoes, FailsOn DEF FailOn, Looks, Tries
<1>5. PICK a : Goes(p, a, "stale reclaimer") /\ a \in {"put back", "refused"}
  BY <1>4
<1>6. /\ (Fresh(p)' = Fresh(p)) /\ Out(p)' /\ ~HasReclaimer(p)'
  BY <1>1, <1>2, <1>5 DEF Fresh, Out, Goes, HasReclaimer, Looks
<1>7. RacePair(p)'
  BY <1>1, <1>2, <1>3, <1>5, <1>6, RaceOn DEF Tries
<1>8. Stood(p)' /\ KeepsPair(p)'
  BY <1>1, <1>2, <1>3, <1>5 DEF Goes, Stood, KeepsPair, HasLock, Looks, Tries, Removals, Asked
<1>. QED
  BY <1>1, <1>3, <1>5, <1>6, <1>7, <1>8, PairPathsAlone DEF Paired

LEMMA PutBackPair ==
  ASSUME HistoryPairInv, AtMostTwo(Stores), NEW p \in Stores, PutBack(p)
  PROVE  HistoryPairInv'
<1>1. /\ p \in running /\ at[p] = "put back" /\ LockTypes /\ Stood(p) /\ RacePair(p) /\ KeepsPair(p)
      /\ p \in Anyone
  BY StandingPair DEF PutBack
<1>2. /\ task[p] = "stale reclaimer" /\ aside[p] # OfDeadStore
      /\ aside[p] \in Anyone \X {"reclaimer"} /\ ~won[p] /\ Fresh(p) /\ Out(p)
  BY <1>1 DEF Stood, Asked, RacePair, Fresh, Out
<1>3. /\ look' = look /\ seen' = seen /\ won' = won /\ Quiet(p) /\ aside'[p] = NoInode
  BY <1>1 DEF PutBack, Quiet, LockTypes, Anyone
<1>4. Goes(p, "refused", "stale reclaimer")
  BY <1>1, <1>2, FailsOn DEF PutBack, FailOn, Looks, Tries
<1>5. named' = [named EXCEPT !["reclaimer"] = aside[p]]
  BY <1>2 DEF PutBack, PathOf, ForReclaimer
<1>6. named'["reclaimer"] = aside[p] /\ named'["lock"] = named["lock"] /\ NamedOk
  BY <1>1, <1>2, <1>5 DEF NamedOk, LockTypes, Paths
<1>7. /\ Fresh(p)' /\ Out(p)' /\ ~HasReclaimer(p)'
  BY <1>4 DEF Fresh, Out, Goes, HasReclaimer, Looks
<1>8. Disturbs(p)
  BY <1>2, <1>3, <1>6, <1>7 DEF Disturbs
<1>9. aside[p] # <<p, "reclaimer">> /\ NoInode # <<p, "reclaimer">> /\ NoInode # OfDeadStore
  BY <1>1, <1>2, DeadStoreInode DEF RacePair
<1>10. \A q \in Stores : aside'[q] # <<p, "reclaimer">>
  BY <1>1, <1>2, <1>3, <1>9 DEF RacePair, Quiet
<1>11. at'[p] = "refused" /\ task'[p] = "stale reclaimer"
  BY <1>4 DEF Goes
<1>12. RacePair(p)'
  BY <1>1, <1>2, <1>3, <1>6, <1>7, <1>9, <1>10, <1>11 DEF RacePair, Tries, Quiet
<1>13. Stood(p)' /\ KeepsPair(p)'
  BY <1>1, <1>2, <1>3, <1>11 DEF Stood, KeepsPair, HasLock, Looks, Tries, Removals, Asked
<1>. QED
  BY <1>1, <1>3, <1>4, <1>6, <1>8, <1>12, <1>13, PairStep DEF Paired

LEMMA OwnerStepsPair ==
  ASSUME HistoryPairInv, AtMostTwo(Stores), NEW p \in Stores, FindLost(p) \/ CloseStore(p)
  PROVE  HistoryPairInv'
<1>1. /\ p \in running /\ at[p] \in {"holds", "poisoned"} /\ LockTypes /\ Stood(p)
      /\ RacePair(p) /\ KeepsPair(p)
  BY StandingPair DEF FindLost, CloseStore
<1>2. task[p] = "release reclaimer" /\ won[p] /\ aside[p] # OfDeadStore /\ ~Out(p)
  BY <1>1 DEF Stood, Asked, RacePair, Out
<1>3. /\ named' = named /\ aside' = aside /\ look' = look /\ seen' = seen /\ won' = won /\ Quiet(p)
  BY <1>1 DEF FindLost, CloseStore, names, Quiet, LockTypes
<1>4. Goes(p, "poisoned", "release reclaimer") \/ Goes(p, "assert", "release lock")
  BY <1>1, <1>2, DoGoes, ThenGoes DEF FindLost, CloseStore
<1>5. PICK a, t : /\ Goes(p, a, t) /\ a \in {"poisoned", "assert"}
                  /\ t \in {"release reclaimer", "release lock"}
  <2>1. "poisoned" \in {"poisoned", "assert"} /\ "assert" \in {"poisoned", "assert"}
    OBVIOUS
  <2>. QED
    BY <1>4, <2>1
<1>6. (Fresh(p)' = Fresh(p)) /\ ~HasReclaimer(p)'
  BY <1>2, <1>4 DEF Fresh, Goes, HasReclaimer, Looks, Tries, Asked
<1>7. RacePair(p)'
  BY <1>1, <1>2, <1>3, <1>5, <1>6, RaceOn
<1>8. Stood(p)' /\ KeepsPair(p)'
  BY <1>1, <1>2, <1>3, <1>4 DEF Goes, Stood, KeepsPair, HasLock, Looks, Tries, Removals, Asked
<1>. QED
  BY <1>1, <1>2, <1>3, <1>5, <1>6, <1>7, <1>8, PairPathsAlone DEF Paired

LEMMA StoreDiesPair ==
  ASSUME HistoryPairInv, UNCHANGED <<names, at, task, seen, look, won>>, running' \subseteq running
  PROVE  HistoryPairInv'
<1>1. UNCHANGED <<named, aside>>
  BY DEF names
<1>2. LockTypes'
  BY <1>1 DEF HistoryPairInv, LockTypes
<1>3. ASSUME NEW p \in Stores
      PROVE  Paired(p)'
  <2>1. Stood(p) /\ RacePair(p) /\ KeepsPair(p)
    BY DEF HistoryPairInv, Paired
  <2>2. Stood(p)'
    BY <2>1 DEF Stood
  <2>3. RacePair(p)'
    BY <1>1, <2>1 DEF RacePair, Fresh, HasReclaimer, StillIts, Out
  <2>4. KeepsPair(p)'
    BY <1>1, <2>1 DEF KeepsPair, HasLock, Wanted, Own
  <2>. QED
    BY <2>2, <2>3, <2>4 DEF Paired
<1>. QED
  BY <1>2, <1>3 DEF HistoryPairInv

LEMMA LockInitPair ==
  ASSUME LockInit
  PROVE  HistoryPairInv
<1>1. PICK left \in SUBSET Paths :
        named = [x \in Paths |-> IF x \in left THEN <<DeadStore, x>> ELSE NoInode]
  BY DEF LockInit
<1>2. /\ running = Stores /\ at = [p \in Stores |-> "link"]
      /\ task = [p \in Stores |-> "publish reclaimer"]
      /\ DOMAIN look = Stores /\ DOMAIN seen = Stores /\ DOMAIN aside = Anyone
      /\ won = [p \in Stores |-> FALSE]
  BY DEF LockInit
<1>3. LockTypes
  BY <1>1, <1>2 DEF LockTypes, Anyone
<1>4. \A p \in Stores : aside[p] = NoInode
  BY DeadStoreAssumption DEF LockInit, Anyone
<1>5. named["reclaimer"] \in {NoInode, OfDeadStore}
  BY <1>1 DEF Paths, OfDeadStore
<1>6. ASSUME NEW p \in Stores
      PROVE  Paired(p)
  <2>1. /\ named["reclaimer"] # <<p, "reclaimer">>
        /\ \A q \in Stores : aside[q] # <<p, "reclaimer">> /\ aside[q] # OfDeadStore
    BY <1>4, <1>5, DeadStoreInode
  <2>2. Stood(p) /\ KeepsPair(p)
    BY <1>2 DEF Stood, KeepsPair, HasLock, Looks, Tries, Removals, Asked
  <2>3. Fresh(p) /\ ~HasReclaimer(p)
    BY <1>2 DEF Fresh, HasReclaimer, Looks, Asked
  <2>4. RacePair(p)
    BY <1>2, <2>1, <2>3 DEF RacePair, Tries
  <2>. QED
    BY <2>2, <2>4 DEF Paired
<1>. QED
  BY <1>3, <1>6 DEF HistoryPairInv

LEMMA LockStepPair ==
  ASSUME HistoryPairInv, AtMostTwo(Stores), [LockNext]_lockVars
  PROVE  HistoryPairInv'
<1>1. CASE UNCHANGED lockVars
  BY <1>1, StoreDiesPair DEF lockVars, names
<1>2. ASSUME NEW p \in Stores,
             \/ Publish(p) \/ Inspect(p) \/ Quarantine(p)
             \/ FindLost(p) \/ CloseStore(p) \/ StoreDies(p)
      PROVE  HistoryPairInv'
  <2>1. CASE Publish(p)
    BY <2>1, LinkCandidatePair, UnlinkCandidatePair, VerifyPublishedPair DEF Publish
  <2>2. CASE Inspect(p)
    BY <2>2, SeePathPair, ReadLockPair DEF Inspect
  <2>3. CASE Quarantine(p)
    BY <2>3, AssertOwnedPair, RenameAsidePair, ConfirmAsidePair, SeeBeforeRestorePair, PutBackPair
       DEF Quarantine
  <2>4. CASE FindLost(p) \/ CloseStore(p)
    BY <2>4, OwnerStepsPair
  <2>5. CASE StoreDies(p)
    <3>1. UNCHANGED <<names, at, task, seen, look, won>> /\ running' \subseteq running
      BY <2>5 DEF StoreDies
    <3>. QED
      BY <3>1, StoreDiesPair
  <2>. QED
    BY <1>2, <2>1, <2>2, <2>3, <2>4, <2>5
<1>. QED
  BY <1>1, <1>2 DEF LockNext

LEMMA PairExcludes ==
  ASSUME HistoryPairInv
  PROVE  OneHistoryOwner
<1>1. ASSUME NEW p \in Stores, Opened(p)
      PROVE  named["lock"] = <<p, "lock">>
  BY <1>1 DEF Opened, HistoryPairInv, Paired, KeepsPair, HasLock
<1>. QED
  BY <1>1, LocksTell

(* Of two processes, at most one has the history open for writing, and its *)
(* lock is there, whichever files a dead one left and wherever they die.   *)
THEOREM TwoStoresExclude == AtMostTwo(Stores) /\ LockSpec => []OneHistoryOwner
<1>. DEFINE Two == AtMostTwo(Stores)
<1>1. Two /\ HistoryPairInv /\ [LockNext]_lockVars => HistoryPairInv'
  BY LockStepPair
<1>2. HistoryPairInv => OneHistoryOwner
  BY PairExcludes
<1>3. LockInit => HistoryPairInv
  BY LockInitPair
<1>4. Two => []Two
  <2>1. Two => Two'
    BY DEF AtMostTwo
  <2>. HIDE DEF Two
  <2>. QED
    BY <2>1, PTL
<1>. HIDE DEF Two
<1>. QED
  BY <1>1, <1>2, <1>3, <1>4, PTL DEF LockSpec, Two

-----------------------------------------------------------------------------
(* The three locks, as the composition of the files runs them.             *)
LEMMA LocksRun ==
  /\ Init => CoreLockInit /\ LockInit /\ JournalLockInit
  /\ [Next]_durableVars =>
       [CoreLockNext]_coreLockVars /\ [LockNext]_lockVars /\ [JournalLockNext]_journalLockVars
<1>1. Init => CoreLockInit /\ LockInit /\ JournalLockInit
  BY DEF Init
<1>2. ASSUME [Next]_durableVars
      PROVE  /\ [CoreLockNext]_coreLockVars /\ [LockNext]_lockVars
             /\ [JournalLockNext]_journalLockVars
  <2>1. CASE UNCHANGED durableVars
    BY <2>1 DEF durableVars
  <2>2. CASE Next
    BY <2>2, Zenon DEF Next
  <2>. QED
    BY <1>2, <2>1, <2>2
<1>. QED
  BY <1>1, <1>2

LEMMA LocksBehave ==
  FairSpec => CoreLockSpec /\ LockSpec /\ JournalLockSpec
<1>1. Init /\ [][Next]_durableVars => CoreLockSpec /\ LockSpec /\ JournalLockSpec
  BY LocksRun, PTL DEF CoreLockSpec, LockSpec, JournalLockSpec
<1>2. FairSpec => Init /\ [][Next]_durableVars
  BY PTL DEF FairSpec
<1>. QED
  BY <1>1, <1>2

(* For any number of processes: a lock, an alias or a quarantine of a dead *)
(* process never makes the first one that comes for the core or the        *)
(* journal lock give up.                                                   *)
THEOREM DeadNeverKeepTheLocks == FairSpec => []DeadNeverKeepLocks
<1>1. DeadNeverBlock /\ DeadAreReclaimed <=> DeadNeverKeepLocks
  BY DEF DeadNeverKeepLocks
<1>2. []DeadNeverBlock /\ []DeadAreReclaimed => []DeadNeverKeepLocks
  BY <1>1, PTL
<1>. QED
  BY <1>2, LocksBehave, DeadNeverBlockTheCore, DeadAreAlwaysReclaimed

(* Two processes exclude each other at each of the three locks, whatever a *)
(* dead one left, wherever they die and however often they come back.      *)
THEOREM TwoExcludeEachOther ==
  AtMostTwo(Procs) /\ AtMostTwo(Stores) /\ AtMostTwo(Users) => (FairSpec => []LocksExclude)
<1>1. OneOwner /\ OneHistoryOwner /\ OneInside <=> LocksExclude
  BY DEF LocksExclude
<1>2. []OneOwner /\ []OneHistoryOwner /\ []OneInside => []LocksExclude
  BY <1>1, PTL
<1>. QED
  BY <1>2, LocksBehave, TwoCoresExclude, TwoStoresExclude, TwoUsersExclude
=============================================================================
