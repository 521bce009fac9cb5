---------------------------- MODULE SourceDelete ----------------------------
(***************************************************************************)
(* Deletion of a moved file's source by the native helper                  *)
(* (native/fs-helper): `delete_source_exact` and `reconcile_source_delete` *)
(* for ONE delete id.  Every system call is an action, so that a helper    *)
(* can be killed between any two of them, and so that a helper which       *)
(* outlives its client (an orphan finishing the request it was given) can  *)
(* interleave with the helper of the next core.  The user may replace or   *)
(* take away the source at any moment.                                     *)
(***************************************************************************)
EXTENDS Naturals

CONSTANTS
  Helpers,      \* helper processes that ever serve this delete id
  Orphans,      \* TRUE: a helper may still run when its successor starts
  MaxKills      \* bound on helper deaths and failing system calls

ASSUME OrphansAssumption  == Orphans \in BOOLEAN
ASSUME MaxKillsAssumption == MaxKills \in Nat

VARIABLES
  path,         \* what the source path names
  quar,         \* the directory .meta-mover-delete-<id> beside the source
  receipt,      \* the delete receipt in the control root
  taken,        \* TRUE: the user removed or replaced the original
  replaced,     \* TRUE: the user put another file at the source path
  asked,        \* TRUE: the one delete_source_exact request was sent
  kills,        \* helper deaths so far
  pc,           \* the next system call of each helper
  seen,         \* what each helper's reconciliation has observed
  verdict       \* the last answer of each helper

vars == <<path, quar, receipt, taken, replaced, asked, kills, pc, seen, verdict>>
disk == <<path, quar, receipt>>

PathStates    == {"original", "absent", "replacement"}
QuarStates    == {"none", "empty", "original", "replacement"}
ReceiptStates == {"absent", "torn", "exact"}

DeletePcs    == {"check", "mkdir", "rename", "verify", "create", "write",
                 "unlink", "rmdir"}
ReconcilePcs == {"see-source", "see-receipt", "see-quarantine", "decide",
                 "r-create", "r-write", "r-recheck", "r-unlink", "r-rmdir",
                 "r-retain"}
Verdicts == {"none", "deleted", "source-retained", "not-applied", "unknown"}

NothingSeen == [source |-> "absent", receipt |-> "absent", quar |-> "none"]

Init ==
  /\ path = "original" /\ quar = "none" /\ receipt = "absent"
  /\ taken = FALSE /\ replaced = FALSE /\ asked = FALSE /\ kills = 0
  /\ pc = [h \in Helpers |-> "idle"]
  /\ seen = [h \in Helpers |-> NothingSeen]
  /\ verdict = [h \in Helpers |-> "none"]

-----------------------------------------------------------------------------
Goto(h, l)    == pc' = [pc EXCEPT ![h] = l]
Answer(h, v)  == Goto(h, "idle") /\ verdict' = [verdict EXCEPT ![h] = v]
Step(h, l)    == Goto(h, l) /\ UNCHANGED verdict
Env           == <<taken, replaced, kills>>

(* A request starts when every helper is idle, or, with orphans, whenever  *)
(* this helper is.                                                         *)
MayStart(h) ==
  /\ pc[h] = "idle"
  /\ Orphans \/ \A g \in Helpers : pc[g] = "idle"

(* The engine hands the helper its delete request: it is sent once per     *)
(* delete id, which deleteSourceAfterCommit draws afresh.                  *)
StartDelete(h) ==
  /\ MayStart(h) /\ ~asked
  /\ asked' = TRUE
  /\ pc' = [pc EXCEPT ![h] = "check"]
  /\ verdict' = [verdict EXCEPT ![h] = "none"]
  /\ UNCHANGED <<disk, Env, seen>>

(* Identity and SHA-256 of the opened source against the request.          *)
CheckSource(h) ==
  /\ pc[h] = "check"
  /\ IF path = "original" THEN Step(h, "mkdir") ELSE Answer(h, "not-applied")
  /\ UNCHANGED <<disk, Env, asked, seen>>

(* An existing quarantine asks for reconciliation.                         *)
MakeQuarantine(h) ==
  /\ pc[h] = "mkdir"
  /\ IF quar = "none"
       THEN quar' = "empty" /\ Step(h, "rename")
       ELSE UNCHANGED quar /\ Answer(h, "unknown")
  /\ UNCHANGED <<path, receipt, Env, asked, seen>>

(* renameat(source, quarantine/entry, NOREPLACE): whatever the path names  *)
(* now is what moves.  When the rename fails, a visible source lets the    *)
(* helper drop the empty quarantine and report that nothing was applied.   *)
RenameIntoQuarantine(h) ==
  /\ pc[h] = "rename"
  /\ \/ /\ path # "absent" /\ quar = "empty"
        /\ quar' = path /\ path' = "absent" /\ Step(h, "verify")
     \/ /\ path = "original"                       \* the rename failed
        /\ IF quar = "empty"
             THEN quar' = "none" /\ Answer(h, "not-applied")
             ELSE UNCHANGED quar /\ Answer(h, "unknown")
        /\ UNCHANGED path
     \/ /\ path # "original" /\ Answer(h, "unknown") /\ UNCHANGED <<path, quar>>
  /\ UNCHANGED <<receipt, Env, asked, seen>>

(* Mutant: the entry is unlinked on the strength of the rename alone.      *)
VerifyEntryUnlinks(h) ==
  /\ pc[h] = "verify" /\ Step(h, "unlink")
  /\ UNCHANGED <<disk, Env, asked, seen>>

(* Mutant: whatever the rename caught is taken for the source.             *)
VerifyEntryTrusts(h) ==
  /\ pc[h] = "verify" /\ Step(h, "create")
  /\ UNCHANGED <<disk, Env, asked, seen>>

VerifyEntry(h) ==
  /\ pc[h] = "verify"
  /\ IF quar = "original" THEN Step(h, "create") ELSE Answer(h, "unknown")
  /\ UNCHANGED <<disk, Env, asked, seen>>

(* Mutant: reconciliation trusts that some receipt has been created.       *)
CreateReceiptOnlyOnce(h, from, next) ==
  /\ pc[h] = from
  /\ IF receipt = "absent" /\ from = "create"
       THEN receipt' = "torn" /\ Step(h, next)
       ELSE UNCHANGED receipt /\ Answer(h, "unknown")
  /\ UNCHANGED <<path, quar, Env, asked, seen>>

(* openat(receipt, CREATE|EXCL): a collision is never overwritten.         *)
CreateReceipt(h, from, next) ==
  /\ pc[h] = from
  /\ IF receipt = "absent"
       THEN receipt' = "torn" /\ Step(h, next)
       ELSE UNCHANGED receipt /\ Answer(h, "unknown")
  /\ UNCHANGED <<path, quar, Env, asked, seen>>

(* write_all and sync of the receipt this helper has just created.         *)
WriteReceipt(h, from, next) ==
  /\ pc[h] = from
  /\ receipt' = "exact" /\ Step(h, next)
  /\ UNCHANGED <<path, quar, Env, asked, seen>>

(* unlinkat(quarantine, "entry"): by name, after the last verification.    *)
UnlinkEntry(h, from, next) ==
  /\ pc[h] = from
  /\ IF quar \in {"original", "replacement"}
       THEN quar' = "empty" /\ Step(h, next)
       ELSE UNCHANGED quar /\ Answer(h, "unknown")
  /\ UNCHANGED <<path, receipt, Env, asked, seen>>

(* unlinkat(quarantine, REMOVEDIR) succeeds on an empty directory only.    *)
RemoveQuarantine(h, from, v) ==
  /\ pc[h] = from
  /\ IF quar = "empty"
       THEN quar' = "none" /\ Answer(h, v)
       ELSE UNCHANGED quar /\ Answer(h, "unknown")
  /\ UNCHANGED <<path, receipt, Env, asked, seen>>

-----------------------------------------------------------------------------
(* reconcile_source_delete: three observations, then a decision on them.   *)
StartReconcile(h) ==
  /\ MayStart(h) /\ asked
  /\ pc' = [pc EXCEPT ![h] = "see-source"]
  /\ verdict' = [verdict EXCEPT ![h] = "none"]
  /\ UNCHANGED <<disk, Env, asked, seen>>

SeeSource(h) ==
  /\ pc[h] = "see-source" /\ Step(h, "see-receipt")
  /\ seen' = [seen EXCEPT ![h].source = path]
  /\ UNCHANGED <<disk, Env, asked>>

SeeReceipt(h) ==
  /\ pc[h] = "see-receipt" /\ Step(h, "see-quarantine")
  /\ seen' = [seen EXCEPT ![h].receipt = receipt]
  /\ UNCHANGED <<disk, Env, asked>>

SeeQuarantine(h) ==
  /\ pc[h] = "see-quarantine" /\ Step(h, "decide")
  /\ seen' = [seen EXCEPT ![h].quar = quar]
  /\ UNCHANGED <<disk, Env, asked>>

PreIntent(o)  == o.source = "original" /\ o.receipt = "absent"
(* Mutant: a missing source is taken for a finished deletion.              *)
PostIntentWithoutReceipt(o) == o.source # "original"
PostIntent(o) == o.source # "original" /\ o.receipt = "exact"

(* The match on (quarantine, source, receipt).  Torn receipts read as      *)
(* "other" and every pair the match does not name stays unknown.           *)
Decide(h) ==
  /\ pc[h] = "decide"
  /\ LET o == seen[h] IN
       \/ o.quar = "none"  /\ PreIntent(o)  /\ Answer(h, "source-retained")
       \/ o.quar = "none"  /\ PostIntent(o) /\ Answer(h, "deleted")
       \/ o.quar = "empty" /\ PreIntent(o)  /\ Step(h, "r-retain")
       \/ o.quar = "empty" /\ PostIntent(o) /\ Step(h, "r-rmdir")
       \/ /\ o.quar = "original" /\ o.source # "original" /\ o.receipt # "torn"
          /\ Step(h, IF o.receipt = "exact" THEN "r-recheck" ELSE "r-create")
       \/ /\ o.quar \in {"none", "empty"} /\ ~PreIntent(o) /\ ~PostIntent(o)
          /\ Answer(h, "unknown")
       \/ /\ o.quar = "original" /\ (o.source = "original" \/ o.receipt = "torn")
          /\ Answer(h, "unknown")
       \/ o.quar = "replacement" /\ Answer(h, "unknown")
  /\ UNCHANGED <<disk, Env, asked, seen>>

(* The opened entry must still have its recorded identity, one link        *)
(* included: another helper's unlink shows as a changed identity.          *)
RecheckEntry(h) ==
  /\ pc[h] = "r-recheck"
  /\ IF quar = "original" THEN Step(h, "r-unlink") ELSE Answer(h, "unknown")
  /\ UNCHANGED <<disk, Env, asked, seen>>

-----------------------------------------------------------------------------
(* The helper is killed, or a system call fails: it stops where it is.     *)
Kill(h) ==
  /\ pc[h] # "idle" /\ kills < MaxKills
  /\ kills' = kills + 1
  /\ Answer(h, "unknown")
  /\ UNCHANGED <<disk, taken, replaced, asked, seen>>

(* The user moves the original away, or saves another file at its path.    *)
TakeSource ==
  /\ path = "original"
  /\ path' = "absent" /\ taken' = TRUE
  /\ UNCHANGED <<quar, receipt, replaced, asked, kills, pc, seen, verdict>>

ReplaceSource ==
  /\ ~replaced
  /\ taken' = (taken \/ path = "original")
  /\ path' = "replacement" /\ replaced' = TRUE
  /\ UNCHANGED <<quar, receipt, asked, kills, pc, seen, verdict>>

Delete(h) ==
  \/ CheckSource(h) \/ MakeQuarantine(h) \/ RenameIntoQuarantine(h)
  \/ VerifyEntry(h) \/ CreateReceipt(h, "create", "write")
  \/ WriteReceipt(h, "write", "unlink") \/ UnlinkEntry(h, "unlink", "rmdir")
  \/ RemoveQuarantine(h, "rmdir", "deleted")

Reconcile(h) ==
  \/ SeeSource(h) \/ SeeReceipt(h) \/ SeeQuarantine(h) \/ Decide(h)
  \/ CreateReceipt(h, "r-create", "r-write")
  \/ WriteReceipt(h, "r-write", "r-recheck")
  \/ RecheckEntry(h) \/ UnlinkEntry(h, "r-unlink", "r-rmdir")
  \/ RemoveQuarantine(h, "r-rmdir", "deleted")
  \/ RemoveQuarantine(h, "r-retain", "source-retained")

Next ==
  \/ \E h \in Helpers : \/ StartDelete(h) \/ Delete(h) \/ StartReconcile(h)
                        \/ Reconcile(h) \/ Kill(h)
  \/ TakeSource \/ ReplaceSource

Spec == Init /\ [][Next]_vars

(* A helper answers what it was asked unless it is killed, and the core of *)
(* the destination is opened again (recoverInterruptedOperations) until    *)
(* the record is terminal.                                                 *)
Fairness ==
  /\ \A h \in Helpers : WF_vars(Delete(h) \/ Reconcile(h))
  /\ WF_vars(\E h \in Helpers : StartReconcile(h))

FairSpec == Spec /\ Fairness

-----------------------------------------------------------------------------
TypeOK ==
  /\ path \in PathStates /\ quar \in QuarStates /\ receipt \in ReceiptStates
  /\ taken \in BOOLEAN /\ replaced \in BOOLEAN /\ asked \in BOOLEAN
  /\ kills \in Nat
  /\ pc \in [Helpers -> {"idle"} \union DeletePcs \union ReconcilePcs]
  /\ seen \in [Helpers -> [source : PathStates, receipt : ReceiptStates,
                             quar : QuarStates]]
  /\ verdict \in [Helpers -> Verdicts]

(* The bytes of the source exist at its path or in the quarantine until    *)
(* the exact receipt does: no kill, orphan or retried reconciliation       *)
(* unlinks them without durable evidence of the intent.                    *)
OriginalConserved ==
  ~taken /\ path # "original" /\ quar # "original" => receipt = "exact"

(* A file the user saved at the source path in the window between the      *)
(* identity check and the rename is never unlinked: it is still at the     *)
(* path, or lies in the quarantine for a person to find.                   *)
ReplacementPreserved ==
  replaced => path = "replacement" \/ quar = "replacement"

(* Answers are true when the core acts on them: `deleted` only behind the  *)
(* receipt and with the entry gone, `not-applied` with no trace left, and, *)
(* unless an orphan may still run, `source-retained` with the original     *)
(* where it was (or taken by the user).                                    *)
VerdictsTruthful ==
  \A h \in Helpers :
    /\ verdict[h] = "deleted" =>
         receipt = "exact" /\ path # "original" /\ quar # "original"
    /\ verdict[h] = "not-applied" => receipt = "absent" /\ quar = "none"
    /\ verdict[h] = "source-retained" /\ ~Orphans => path = "original" \/ taken

-----------------------------------------------------------------------------
(* The inductive strengthening, in parts.                                  *)
BeforeRename(h) == pc[h] \in {"check", "mkdir", "rename"}
Observing(h)    == pc[h] \in {"see-receipt", "see-quarantine", "decide"}

(* Where the original and a replacement can be, against the receipt.       *)
PlaceInv ==
  /\ receipt # "absent" => path # "original" /\ quar # "replacement" /\ ~taken
  /\ quar = "original" => path # "original"
  /\ taken => path # "original" /\ quar # "original"
  /\ path = "replacement" \/ quar = "replacement" => replaced

(* Nothing happens before the request; one helper at most deletes, one at  *)
(* most writes the receipt, and one at most runs when there are no orphans.*)
ActorInv ==
  /\ ~asked => /\ quar = "none" /\ receipt = "absent"
               /\ \A h \in Helpers : pc[h] = "idle" /\ verdict[h] = "none"
  /\ \A g, h \in Helpers :
       /\ pc[g] \in DeletePcs /\ pc[h] \in DeletePcs => g = h
       /\ pc[g] \in {"write", "r-write"} /\ pc[h] \in {"write", "r-write"} => g = h
       /\ ~Orphans /\ pc[g] # "idle" /\ pc[h] # "idle" => g = h
       /\ verdict[h] = "not-applied" => pc[g] \notin DeletePcs
       /\ verdict[h] = "source-retained" /\ ~Orphans => pc[g] \notin DeletePcs

(* What a helper may rely on at each of its system calls.                  *)
ProgressInv ==
  \A h \in Helpers :
    /\ BeforeRename(h) => receipt = "absent" /\ quar \in {"none", "empty"}
    /\ pc[h] \in {"check", "mkdir"} => quar = "none"
    /\ pc[h] \in {"create", "r-create"} => quar = "original" \/ receipt # "absent"
    /\ pc[h] \in {"write", "r-write"} => receipt = "torn" /\ quar = "original"
    /\ pc[h] \in {"unlink", "rmdir", "r-recheck", "r-unlink", "r-rmdir"} => receipt = "exact"
    /\ pc[h] \in {"rmdir", "r-rmdir"} => quar # "original"

(* What an observation still says when it is used.                         *)
ObservationInv ==
  \A h \in Helpers :
    /\ Observing(h) /\ seen[h].source # "original" => path # "original"
    /\ ~Orphans /\ (pc[h] = "r-retain" \/ (Observing(h) /\ seen[h].source = "original"))
         => path = "original" \/ taken
    /\ pc[h] \in {"see-quarantine", "decide"} /\ seen[h].receipt = "exact" => receipt = "exact"
    /\ pc[h] = "decide" /\ seen[h].quar = "original" => quar = "original" \/ receipt # "absent"
    /\ pc[h] = "decide" /\ seen[h].receipt = "exact" /\ seen[h].quar \in {"none", "empty"}
         => quar # "original"

IInv ==
  /\ TypeOK /\ PlaceInv /\ ActorInv /\ ProgressInv /\ ObservationInv
  /\ OriginalConserved /\ ReplacementPreserved /\ VerdictsTruthful

-----------------------------------------------------------------------------
(* The states a person must look at: a receipt torn by a kill, somebody's  *)
(* file in the quarantine, or a source the user took before the receipt.   *)
Ambiguous ==
  \/ receipt = "torn" /\ \A h \in Helpers : pc[h] \notin {"write", "r-write"}
  \/ quar = "replacement"
  \/ taken /\ receipt = "absent"

Definite == \E h \in Helpers :
  verdict[h] \in {"deleted", "source-retained", "not-applied"}

(* Reconciliation converges: once the request was sent, some helper ends   *)
(* with a definite answer unless the state is one a person must look at.   *)
Converges == asked ~> (Definite \/ Ambiguous)

(* The system calls implement the promise.                                 *)
Bytes == IF path = "original" \/ quar = "original" THEN "kept"
         ELSE IF taken THEN "taken" ELSE "gone"

Promise == INSTANCE SourceDeletePromise
  WITH Callers <- Helpers, StaleAnswers <- Orphans,
       bytes <- Bytes, intent <- (receipt = "exact"), answer <- verdict

PromiseKept == Promise!Spec
=============================================================================
