--------------------------- MODULE MCDurableFiles ---------------------------
(* The files the application keeps for itself, each explored on its own:   *)
(* `active` says which one a behaviour is about.  They share no state; what*)
(* one of them promises the others is in their own modules.                *)
EXTENDS TransactionJournal, CoreLock, HistoryLock, JournalLock, EvidenceManifest,
        JobHistoryStore

VARIABLE active

Parts == {"journal", "core lock", "history lock", "journal lock", "evidence", "history"}

durableVars == <<active, journalVars, coreLockVars, lockVars, journalLockVars, evidenceVars,
                 historyVars>>

(* What the dead left behind matters to one part at a time.                *)
NothingLeft ==
  /\ active # "core lock" =>
       /\ lockPath = None
       /\ \A p \in Everyone : cand[p] = None /\ quar[p] = None
  /\ active # "history lock" =>
       /\ \A x \in Paths : named[x] = NoInode
       /\ \A p \in Anyone : alias[p] = NoInode /\ aside[p] = NoInode
  /\ active # "journal lock" =>
       /\ lockFile = NoFile
       /\ \A u \in AllUsers : candidate[u] = NoFile /\ reclaim[u] = NoFile

Init ==
  /\ active \in Parts
  /\ JournalInit /\ CoreLockInit /\ LockInit /\ JournalLockInit /\ EvidenceInit /\ HistoryInit
  /\ NothingLeft

Next ==
  \/ /\ active = "journal" /\ JournalNext
     /\ UNCHANGED <<active, coreLockVars, lockVars, journalLockVars, evidenceVars, historyVars>>
  \/ /\ active = "core lock" /\ CoreLockNext
     /\ UNCHANGED <<active, journalVars, lockVars, journalLockVars, evidenceVars, historyVars>>
  \/ /\ active = "history lock" /\ LockNext
     /\ UNCHANGED <<active, journalVars, coreLockVars, journalLockVars, evidenceVars, historyVars>>
  \/ /\ active = "journal lock" /\ JournalLockNext
     /\ UNCHANGED <<active, journalVars, coreLockVars, lockVars, evidenceVars, historyVars>>
  \/ /\ active = "evidence" /\ EvidenceNext
     /\ UNCHANGED <<active, journalVars, coreLockVars, lockVars, journalLockVars, historyVars>>
  \/ /\ active = "history" /\ HistoryNext
     /\ UNCHANGED <<active, journalVars, coreLockVars, lockVars, journalLockVars, evidenceVars>>

(* The fairness of the parts, each while it is the active one.             *)
FairSpec ==
  /\ Init /\ [][Next]_durableVars
  /\ \A w \in Writers : WF_journalVars(active = "journal" /\ Step(w))
  /\ WF_evidenceVars(active = "evidence" /\ Writing)

(* One live process at a time holds each of the three locks; none of them  *)
(* is ever taken from a live owner by the reclamation of a dead one's.     *)
LocksExclude == OneOwner /\ OneHistoryOwner /\ OneInside

(* A lock, an alias or a quarantine of a dead process never makes the      *)
(* first one that comes for the core or the journal lock give up.          *)
DeadNeverKeepLocks == DeadNeverBlock /\ DeadAreReclaimed

(* Every call on a journal ends, and every evidence append is answered.    *)
FilesSettle == CallsEnd /\ EvidenceSettles
=============================================================================
