------------------------- MODULE SourceDeleteProofs -------------------------
(***************************************************************************)
(* Proofs about SourceDelete, for any set of helpers, any number of kills, *)
(* with and without orphans.  IInv is the inductive invariant; one lemma   *)
(* per system call shows that it is kept, conjunct by conjunct.  The       *)
(* invariant then yields the safety theorems and the step simulation of    *)
(* SourceDeletePromise.                                                    *)
(***************************************************************************)
EXTENDS SourceDelete, TLAPS

(* The request starts with nothing done. *)
LEMMA StartDeleteKeeps ==
  ASSUME IInv, NEW h \in Helpers,
         StartDelete(h)
  PROVE  IInv'
<1>1. TypeOK'
  BY DEF IInv, TypeOK, PathStates, QuarStates, ReceiptStates, Verdicts, DeletePcs,
         ReconcilePcs, NothingSeen, StartDelete, MayStart, Env, disk
<1>2. PlaceInv'
  BY DEF IInv, TypeOK, PlaceInv, ActorInv, ProgressInv, BeforeRename, StartDelete,
         MayStart, Env, disk
<1>3. ActorInv'
  BY DEF IInv, TypeOK, ActorInv, PlaceInv, ProgressInv, ObservationInv, BeforeRename,
         DeletePcs, ReconcilePcs, StartDelete, MayStart, Env, disk
<1>4. ProgressInv'
  BY DEF IInv, TypeOK, ActorInv, PlaceInv, ProgressInv, ObservationInv,
         OriginalConserved, BeforeRename, Observing, DeletePcs, ReconcilePcs,
         PathStates, QuarStates, ReceiptStates, StartDelete, MayStart, Env, disk
<1>5. ObservationInv'
  BY DEF IInv, TypeOK, ActorInv, PlaceInv, ProgressInv, ObservationInv,
         OriginalConserved, BeforeRename, Observing, DeletePcs, ReconcilePcs,
         PathStates, QuarStates, ReceiptStates, StartDelete, MayStart, Env, disk
<1>6. OriginalConserved'
  BY DEF IInv, TypeOK, PlaceInv, ProgressInv, OriginalConserved, BeforeRename,
         QuarStates, StartDelete, MayStart, Env, disk
<1>7. ReplacementPreserved'
  BY DEF IInv, TypeOK, PlaceInv, ProgressInv, ReplacementPreserved, BeforeRename,
         StartDelete, MayStart, Env, disk
<1>8. VerdictsTruthful'
  BY DEF IInv, TypeOK, ActorInv, PlaceInv, ProgressInv, ObservationInv,
         VerdictsTruthful, OriginalConserved, BeforeRename, Observing, DeletePcs,
         ReconcilePcs, PathStates, QuarStates, ReceiptStates, StartDelete, MayStart,
         Env, disk
<1> QED
  BY <1>1, <1>2, <1>3, <1>4, <1>5, <1>6, <1>7, <1>8 DEF IInv

(* Nothing on disk changes while the source is checked. *)
LEMMA CheckSourceKeeps ==
  ASSUME IInv, NEW h \in Helpers,
         CheckSource(h)
  PROVE  IInv'
<1>1. TypeOK'
  BY DEF IInv, TypeOK, PathStates, QuarStates, ReceiptStates, Verdicts, DeletePcs,
         ReconcilePcs, NothingSeen, CheckSource, Step, Answer, Goto, Env, disk
<1>2. PlaceInv'
  BY DEF IInv, TypeOK, PlaceInv, ActorInv, ProgressInv, BeforeRename, CheckSource,
         Step, Answer, Goto, Env, disk
<1>3. ActorInv'
  BY DEF IInv, TypeOK, ActorInv, PlaceInv, ProgressInv, ObservationInv, BeforeRename,
         DeletePcs, ReconcilePcs, CheckSource, Step, Answer, Goto, Env, disk
<1>4. ProgressInv'
  BY DEF IInv, TypeOK, ActorInv, PlaceInv, ProgressInv, ObservationInv,
         OriginalConserved, BeforeRename, Observing, DeletePcs, ReconcilePcs,
         PathStates, QuarStates, ReceiptStates, CheckSource, Step, Answer, Goto, Env,
         disk
<1>5. ObservationInv'
  BY DEF IInv, TypeOK, ActorInv, PlaceInv, ProgressInv, ObservationInv,
         OriginalConserved, BeforeRename, Observing, DeletePcs, ReconcilePcs,
         PathStates, QuarStates, ReceiptStates, CheckSource, Step, Answer, Goto, Env,
         disk
<1>6. OriginalConserved'
  BY DEF IInv, TypeOK, PlaceInv, ProgressInv, OriginalConserved, BeforeRename,
         QuarStates, CheckSource, Step, Answer, Goto, Env, disk
<1>7. ReplacementPreserved'
  BY DEF IInv, TypeOK, PlaceInv, ProgressInv, ReplacementPreserved, BeforeRename,
         CheckSource, Step, Answer, Goto, Env, disk
<1>8. VerdictsTruthful'
  BY DEF IInv, TypeOK, ActorInv, PlaceInv, ProgressInv, ObservationInv,
         VerdictsTruthful, OriginalConserved, BeforeRename, Observing, DeletePcs,
         ReconcilePcs, PathStates, QuarStates, ReceiptStates, CheckSource, Step,
         Answer, Goto, Env, disk
<1> QED
  BY <1>1, <1>2, <1>3, <1>4, <1>5, <1>6, <1>7, <1>8 DEF IInv

(* The private directory is made empty. *)
LEMMA MakeQuarantineKeeps ==
  ASSUME IInv, NEW h \in Helpers,
         MakeQuarantine(h)
  PROVE  IInv'
<1>1. TypeOK'
  BY DEF IInv, TypeOK, PathStates, QuarStates, ReceiptStates, Verdicts, DeletePcs,
         ReconcilePcs, NothingSeen, MakeQuarantine, Step, Answer, Goto, Env
<1>2. PlaceInv'
  BY DEF IInv, TypeOK, PlaceInv, ActorInv, ProgressInv, BeforeRename, MakeQuarantine,
         Step, Answer, Goto, Env
<1>3. ActorInv'
  BY DEF IInv, TypeOK, ActorInv, PlaceInv, ProgressInv, ObservationInv, BeforeRename,
         DeletePcs, ReconcilePcs, MakeQuarantine, Step, Answer, Goto, Env
<1>4. ProgressInv'
  BY DEF IInv, TypeOK, ActorInv, PlaceInv, ProgressInv, ObservationInv,
         OriginalConserved, BeforeRename, Observing, DeletePcs, ReconcilePcs,
         PathStates, QuarStates, ReceiptStates, MakeQuarantine, Step, Answer, Goto,
         Env
<1>5. ObservationInv'
  BY DEF IInv, TypeOK, ActorInv, PlaceInv, ProgressInv, ObservationInv,
         OriginalConserved, BeforeRename, Observing, DeletePcs, ReconcilePcs,
         PathStates, QuarStates, ReceiptStates, MakeQuarantine, Step, Answer, Goto,
         Env
<1>6. OriginalConserved'
  BY DEF IInv, TypeOK, PlaceInv, ProgressInv, OriginalConserved, BeforeRename,
         QuarStates, MakeQuarantine, Step, Answer, Goto, Env
<1>7. ReplacementPreserved'
  BY DEF IInv, TypeOK, PlaceInv, ProgressInv, ReplacementPreserved, BeforeRename,
         MakeQuarantine, Step, Answer, Goto, Env
<1>8. VerdictsTruthful'
  BY DEF IInv, TypeOK, ActorInv, PlaceInv, ProgressInv, ObservationInv,
         VerdictsTruthful, OriginalConserved, BeforeRename, Observing, DeletePcs,
         ReconcilePcs, PathStates, QuarStates, ReceiptStates, MakeQuarantine, Step,
         Answer, Goto, Env
<1> QED
  BY <1>1, <1>2, <1>3, <1>4, <1>5, <1>6, <1>7, <1>8 DEF IInv

(* What the path names moves into the quarantine, or nothing does. *)
LEMMA RenameIntoQuarantineKeeps ==
  ASSUME IInv, NEW h \in Helpers,
         RenameIntoQuarantine(h)
  PROVE  IInv'
<1>1. TypeOK'
  BY DEF IInv, TypeOK, PathStates, QuarStates, ReceiptStates, Verdicts, DeletePcs,
         ReconcilePcs, NothingSeen, RenameIntoQuarantine, Step, Answer, Goto, Env
<1>2. PlaceInv'
  BY DEF IInv, TypeOK, PlaceInv, ActorInv, ProgressInv, BeforeRename,
         RenameIntoQuarantine, Step, Answer, Goto, Env
<1>3. ActorInv'
  BY DEF IInv, TypeOK, ActorInv, PlaceInv, ProgressInv, ObservationInv, BeforeRename,
         DeletePcs, ReconcilePcs, RenameIntoQuarantine, Step, Answer, Goto, Env
<1>4. ProgressInv'
  BY DEF IInv, TypeOK, ActorInv, PlaceInv, ProgressInv, ObservationInv,
         OriginalConserved, BeforeRename, Observing, DeletePcs, ReconcilePcs,
         PathStates, QuarStates, ReceiptStates, RenameIntoQuarantine, Step, Answer,
         Goto, Env
<1>5. ObservationInv'
  BY DEF IInv, TypeOK, ActorInv, PlaceInv, ProgressInv, ObservationInv,
         OriginalConserved, BeforeRename, Observing, DeletePcs, ReconcilePcs,
         PathStates, QuarStates, ReceiptStates, RenameIntoQuarantine, Step, Answer,
         Goto, Env
<1>6. OriginalConserved'
  BY DEF IInv, TypeOK, PlaceInv, ProgressInv, OriginalConserved, BeforeRename,
         QuarStates, RenameIntoQuarantine, Step, Answer, Goto, Env
<1>7. ReplacementPreserved'
  BY DEF IInv, TypeOK, PlaceInv, ProgressInv, ReplacementPreserved, BeforeRename,
         RenameIntoQuarantine, Step, Answer, Goto, Env
<1>8. VerdictsTruthful'
  BY DEF IInv, TypeOK, ActorInv, PlaceInv, ProgressInv, ObservationInv,
         VerdictsTruthful, OriginalConserved, BeforeRename, Observing, DeletePcs,
         ReconcilePcs, PathStates, QuarStates, ReceiptStates, RenameIntoQuarantine,
         Step, Answer, Goto, Env
<1> QED
  BY <1>1, <1>2, <1>3, <1>4, <1>5, <1>6, <1>7, <1>8 DEF IInv

(* Only the original passes. *)
LEMMA VerifyEntryKeeps ==
  ASSUME IInv, NEW h \in Helpers,
         VerifyEntry(h)
  PROVE  IInv'
<1>1. TypeOK'
  BY DEF IInv, TypeOK, PathStates, QuarStates, ReceiptStates, Verdicts, DeletePcs,
         ReconcilePcs, NothingSeen, VerifyEntry, Step, Answer, Goto, Env, disk
<1>2. PlaceInv'
  BY DEF IInv, TypeOK, PlaceInv, ActorInv, ProgressInv, BeforeRename, VerifyEntry,
         Step, Answer, Goto, Env, disk
<1>3. ActorInv'
  BY DEF IInv, TypeOK, ActorInv, PlaceInv, ProgressInv, ObservationInv, BeforeRename,
         DeletePcs, ReconcilePcs, VerifyEntry, Step, Answer, Goto, Env, disk
<1>4. ProgressInv'
  BY DEF IInv, TypeOK, ActorInv, PlaceInv, ProgressInv, ObservationInv,
         OriginalConserved, BeforeRename, Observing, DeletePcs, ReconcilePcs,
         PathStates, QuarStates, ReceiptStates, VerifyEntry, Step, Answer, Goto, Env,
         disk
<1>5. ObservationInv'
  BY DEF IInv, TypeOK, ActorInv, PlaceInv, ProgressInv, ObservationInv,
         OriginalConserved, BeforeRename, Observing, DeletePcs, ReconcilePcs,
         PathStates, QuarStates, ReceiptStates, VerifyEntry, Step, Answer, Goto, Env,
         disk
<1>6. OriginalConserved'
  BY DEF IInv, TypeOK, PlaceInv, ProgressInv, OriginalConserved, BeforeRename,
         QuarStates, VerifyEntry, Step, Answer, Goto, Env, disk
<1>7. ReplacementPreserved'
  BY DEF IInv, TypeOK, PlaceInv, ProgressInv, ReplacementPreserved, BeforeRename,
         VerifyEntry, Step, Answer, Goto, Env, disk
<1>8. VerdictsTruthful'
  BY DEF IInv, TypeOK, ActorInv, PlaceInv, ProgressInv, ObservationInv,
         VerdictsTruthful, OriginalConserved, BeforeRename, Observing, DeletePcs,
         ReconcilePcs, PathStates, QuarStates, ReceiptStates, VerifyEntry, Step,
         Answer, Goto, Env, disk
<1> QED
  BY <1>1, <1>2, <1>3, <1>4, <1>5, <1>6, <1>7, <1>8 DEF IInv

(* The receipt is created only over an existing original. *)
LEMMA CreateReceiptKeeps ==
  ASSUME IInv, NEW h \in Helpers,
         CreateReceipt(h, "create", "write") \/ CreateReceipt(h, "r-create", "r-write")
  PROVE  IInv'
<1>1. TypeOK'
  BY DEF IInv, TypeOK, PathStates, QuarStates, ReceiptStates, Verdicts, DeletePcs,
         ReconcilePcs, NothingSeen, CreateReceipt, Step, Answer, Goto, Env
<1>2. PlaceInv'
  BY DEF IInv, TypeOK, PlaceInv, ActorInv, ProgressInv, BeforeRename, CreateReceipt,
         Step, Answer, Goto, Env
<1>3. ActorInv'
  BY DEF IInv, TypeOK, ActorInv, PlaceInv, ProgressInv, ObservationInv, BeforeRename,
         DeletePcs, ReconcilePcs, CreateReceipt, Step, Answer, Goto, Env
<1>4. ProgressInv'
  BY DEF IInv, TypeOK, ActorInv, PlaceInv, ProgressInv, ObservationInv,
         OriginalConserved, BeforeRename, Observing, DeletePcs, ReconcilePcs,
         PathStates, QuarStates, ReceiptStates, CreateReceipt, Step, Answer, Goto,
         Env
<1>5. ObservationInv'
  BY DEF IInv, TypeOK, ActorInv, PlaceInv, ProgressInv, ObservationInv,
         OriginalConserved, BeforeRename, Observing, DeletePcs, ReconcilePcs,
         PathStates, QuarStates, ReceiptStates, CreateReceipt, Step, Answer, Goto,
         Env
<1>6. OriginalConserved'
  BY DEF IInv, TypeOK, PlaceInv, ProgressInv, OriginalConserved, BeforeRename,
         QuarStates, CreateReceipt, Step, Answer, Goto, Env
<1>7. ReplacementPreserved'
  BY DEF IInv, TypeOK, PlaceInv, ProgressInv, ReplacementPreserved, BeforeRename,
         CreateReceipt, Step, Answer, Goto, Env
<1>8. VerdictsTruthful'
  BY DEF IInv, TypeOK, ActorInv, PlaceInv, ProgressInv, ObservationInv,
         VerdictsTruthful, OriginalConserved, BeforeRename, Observing, DeletePcs,
         ReconcilePcs, PathStates, QuarStates, ReceiptStates, CreateReceipt, Step,
         Answer, Goto, Env
<1> QED
  BY <1>1, <1>2, <1>3, <1>4, <1>5, <1>6, <1>7, <1>8 DEF IInv

(* The only writer completes the receipt. *)
LEMMA WriteReceiptKeeps ==
  ASSUME IInv, NEW h \in Helpers,
         WriteReceipt(h, "write", "unlink") \/ WriteReceipt(h, "r-write", "r-recheck")
  PROVE  IInv'
<1>1. TypeOK'
  BY DEF IInv, TypeOK, PathStates, QuarStates, ReceiptStates, Verdicts, DeletePcs,
         ReconcilePcs, NothingSeen, WriteReceipt, Step, Goto, Env
<1>2. PlaceInv'
  BY DEF IInv, TypeOK, PlaceInv, ActorInv, ProgressInv, BeforeRename, WriteReceipt,
         Step, Goto, Env
<1>3. ActorInv'
  BY DEF IInv, TypeOK, ActorInv, PlaceInv, ProgressInv, ObservationInv, BeforeRename,
         DeletePcs, ReconcilePcs, WriteReceipt, Step, Goto, Env
<1>4. ProgressInv'
  BY DEF IInv, TypeOK, ActorInv, PlaceInv, ProgressInv, ObservationInv,
         OriginalConserved, BeforeRename, Observing, DeletePcs, ReconcilePcs,
         PathStates, QuarStates, ReceiptStates, WriteReceipt, Step, Goto, Env
<1>5. ObservationInv'
  BY DEF IInv, TypeOK, ActorInv, PlaceInv, ProgressInv, ObservationInv,
         OriginalConserved, BeforeRename, Observing, DeletePcs, ReconcilePcs,
         PathStates, QuarStates, ReceiptStates, WriteReceipt, Step, Goto, Env
<1>6. OriginalConserved'
  BY DEF IInv, TypeOK, PlaceInv, ProgressInv, OriginalConserved, BeforeRename,
         QuarStates, WriteReceipt, Step, Goto, Env
<1>7. ReplacementPreserved'
  BY DEF IInv, TypeOK, PlaceInv, ProgressInv, ReplacementPreserved, BeforeRename,
         WriteReceipt, Step, Goto, Env
<1>8. VerdictsTruthful'
  BY DEF IInv, TypeOK, ActorInv, PlaceInv, ProgressInv, ObservationInv,
         VerdictsTruthful, OriginalConserved, BeforeRename, Observing, DeletePcs,
         ReconcilePcs, PathStates, QuarStates, ReceiptStates, WriteReceipt, Step,
         Goto, Env
<1> QED
  BY <1>1, <1>2, <1>3, <1>4, <1>5, <1>6, <1>7, <1>8 DEF IInv

(* The entry goes only behind the exact receipt. *)
LEMMA UnlinkEntryKeeps ==
  ASSUME IInv, NEW h \in Helpers,
         UnlinkEntry(h, "unlink", "rmdir") \/ UnlinkEntry(h, "r-unlink", "r-rmdir")
  PROVE  IInv'
<1>1. TypeOK'
  BY DEF IInv, TypeOK, PathStates, QuarStates, ReceiptStates, Verdicts, DeletePcs,
         ReconcilePcs, NothingSeen, UnlinkEntry, Step, Answer, Goto, Env
<1>2. PlaceInv'
  BY DEF IInv, TypeOK, PlaceInv, ActorInv, ProgressInv, BeforeRename, UnlinkEntry,
         Step, Answer, Goto, Env
<1>3. ActorInv'
  BY DEF IInv, TypeOK, ActorInv, PlaceInv, ProgressInv, ObservationInv, BeforeRename,
         DeletePcs, ReconcilePcs, UnlinkEntry, Step, Answer, Goto, Env
<1>4. ProgressInv'
  BY DEF IInv, TypeOK, ActorInv, PlaceInv, ProgressInv, ObservationInv,
         OriginalConserved, BeforeRename, Observing, DeletePcs, ReconcilePcs,
         PathStates, QuarStates, ReceiptStates, UnlinkEntry, Step, Answer, Goto, Env
<1>5. ObservationInv'
  BY DEF IInv, TypeOK, ActorInv, PlaceInv, ProgressInv, ObservationInv,
         OriginalConserved, BeforeRename, Observing, DeletePcs, ReconcilePcs,
         PathStates, QuarStates, ReceiptStates, UnlinkEntry, Step, Answer, Goto, Env
<1>6. OriginalConserved'
  BY DEF IInv, TypeOK, PlaceInv, ProgressInv, OriginalConserved, BeforeRename,
         QuarStates, UnlinkEntry, Step, Answer, Goto, Env
<1>7. ReplacementPreserved'
  BY DEF IInv, TypeOK, PlaceInv, ProgressInv, ReplacementPreserved, BeforeRename,
         UnlinkEntry, Step, Answer, Goto, Env
<1>8. VerdictsTruthful'
  BY DEF IInv, TypeOK, ActorInv, PlaceInv, ProgressInv, ObservationInv,
         VerdictsTruthful, OriginalConserved, BeforeRename, Observing, DeletePcs,
         ReconcilePcs, PathStates, QuarStates, ReceiptStates, UnlinkEntry, Step,
         Answer, Goto, Env
<1> QED
  BY <1>1, <1>2, <1>3, <1>4, <1>5, <1>6, <1>7, <1>8 DEF IInv

(* Only an empty quarantine is removed, and the answer is true. *)
LEMMA RemoveQuarantineKeeps ==
  ASSUME IInv, NEW h \in Helpers,
         RemoveQuarantine(h, "rmdir", "deleted") \/ RemoveQuarantine(h, "r-rmdir", "deleted")
          \/ RemoveQuarantine(h, "r-retain", "source-retained")
  PROVE  IInv'
<1>1. TypeOK'
  BY DEF IInv, TypeOK, PathStates, QuarStates, ReceiptStates, Verdicts, DeletePcs,
         ReconcilePcs, NothingSeen, RemoveQuarantine, Step, Answer, Goto, Env
<1>2. PlaceInv'
  BY DEF IInv, TypeOK, PlaceInv, ActorInv, ProgressInv, BeforeRename,
         RemoveQuarantine, Step, Answer, Goto, Env
<1>3. ActorInv'
  BY DEF IInv, TypeOK, ActorInv, PlaceInv, ProgressInv, ObservationInv, BeforeRename,
         DeletePcs, ReconcilePcs, RemoveQuarantine, Step, Answer, Goto, Env
<1>4. ProgressInv'
  BY DEF IInv, TypeOK, ActorInv, PlaceInv, ProgressInv, ObservationInv,
         OriginalConserved, BeforeRename, Observing, DeletePcs, ReconcilePcs,
         PathStates, QuarStates, ReceiptStates, RemoveQuarantine, Step, Answer, Goto,
         Env
<1>5. ObservationInv'
  BY DEF IInv, TypeOK, ActorInv, PlaceInv, ProgressInv, ObservationInv,
         OriginalConserved, BeforeRename, Observing, DeletePcs, ReconcilePcs,
         PathStates, QuarStates, ReceiptStates, RemoveQuarantine, Step, Answer, Goto,
         Env
<1>6. OriginalConserved'
  BY DEF IInv, TypeOK, PlaceInv, ProgressInv, OriginalConserved, BeforeRename,
         QuarStates, RemoveQuarantine, Step, Answer, Goto, Env
<1>7. ReplacementPreserved'
  BY DEF IInv, TypeOK, PlaceInv, ProgressInv, ReplacementPreserved, BeforeRename,
         RemoveQuarantine, Step, Answer, Goto, Env
<1>8. VerdictsTruthful'
  BY DEF IInv, TypeOK, ActorInv, PlaceInv, ProgressInv, ObservationInv,
         VerdictsTruthful, OriginalConserved, BeforeRename, Observing, DeletePcs,
         ReconcilePcs, PathStates, QuarStates, ReceiptStates, RemoveQuarantine, Step,
         Answer, Goto, Env
<1> QED
  BY <1>1, <1>2, <1>3, <1>4, <1>5, <1>6, <1>7, <1>8 DEF IInv

(* A reconciliation starts with nothing observed. *)
LEMMA StartReconcileKeeps ==
  ASSUME IInv, NEW h \in Helpers,
         StartReconcile(h)
  PROVE  IInv'
<1>1. TypeOK'
  BY DEF IInv, TypeOK, PathStates, QuarStates, ReceiptStates, Verdicts, DeletePcs,
         ReconcilePcs, NothingSeen, StartReconcile, MayStart, Env, disk
<1>2. PlaceInv'
  BY DEF IInv, TypeOK, PlaceInv, ActorInv, ProgressInv, BeforeRename, StartReconcile,
         MayStart, Env, disk
<1>3. ActorInv'
  BY DEF IInv, TypeOK, ActorInv, PlaceInv, ProgressInv, ObservationInv, BeforeRename,
         DeletePcs, ReconcilePcs, StartReconcile, MayStart, Env, disk
<1>4. ProgressInv'
  BY DEF IInv, TypeOK, ActorInv, PlaceInv, ProgressInv, ObservationInv,
         OriginalConserved, BeforeRename, Observing, DeletePcs, ReconcilePcs,
         PathStates, QuarStates, ReceiptStates, StartReconcile, MayStart, Env, disk
<1>5. ObservationInv'
  BY DEF IInv, TypeOK, ActorInv, PlaceInv, ProgressInv, ObservationInv,
         OriginalConserved, BeforeRename, Observing, DeletePcs, ReconcilePcs,
         PathStates, QuarStates, ReceiptStates, StartReconcile, MayStart, Env, disk
<1>6. OriginalConserved'
  BY DEF IInv, TypeOK, PlaceInv, ProgressInv, OriginalConserved, BeforeRename,
         QuarStates, StartReconcile, MayStart, Env, disk
<1>7. ReplacementPreserved'
  BY DEF IInv, TypeOK, PlaceInv, ProgressInv, ReplacementPreserved, BeforeRename,
         StartReconcile, MayStart, Env, disk
<1>8. VerdictsTruthful'
  BY DEF IInv, TypeOK, ActorInv, PlaceInv, ProgressInv, ObservationInv,
         VerdictsTruthful, OriginalConserved, BeforeRename, Observing, DeletePcs,
         ReconcilePcs, PathStates, QuarStates, ReceiptStates, StartReconcile,
         MayStart, Env, disk
<1> QED
  BY <1>1, <1>2, <1>3, <1>4, <1>5, <1>6, <1>7, <1>8 DEF IInv

(* What is observed stays usable. *)
LEMMA ObserveKeeps ==
  ASSUME IInv, NEW h \in Helpers,
         SeeSource(h) \/ SeeReceipt(h) \/ SeeQuarantine(h)
  PROVE  IInv'
<1>1. TypeOK'
  BY DEF IInv, TypeOK, PathStates, QuarStates, ReceiptStates, Verdicts, DeletePcs,
         ReconcilePcs, NothingSeen, SeeSource, SeeReceipt, SeeQuarantine, Step, Goto,
         Env, disk
<1>2. PlaceInv'
  BY DEF IInv, TypeOK, PlaceInv, ActorInv, ProgressInv, BeforeRename, SeeSource,
         SeeReceipt, SeeQuarantine, Step, Goto, Env, disk
<1>3. ActorInv'
  BY DEF IInv, TypeOK, ActorInv, PlaceInv, ProgressInv, ObservationInv, BeforeRename,
         DeletePcs, ReconcilePcs, SeeSource, SeeReceipt, SeeQuarantine, Step, Goto,
         Env, disk
<1>4. ProgressInv'
  BY DEF IInv, TypeOK, ActorInv, PlaceInv, ProgressInv, ObservationInv,
         OriginalConserved, BeforeRename, Observing, DeletePcs, ReconcilePcs,
         PathStates, QuarStates, ReceiptStates, SeeSource, SeeReceipt, SeeQuarantine,
         Step, Goto, Env, disk
<1>5. ObservationInv'
  BY DEF IInv, TypeOK, ActorInv, PlaceInv, ProgressInv, ObservationInv,
         OriginalConserved, BeforeRename, Observing, DeletePcs, ReconcilePcs,
         PathStates, QuarStates, ReceiptStates, SeeSource, SeeReceipt, SeeQuarantine,
         Step, Goto, Env, disk
<1>6. OriginalConserved'
  BY DEF IInv, TypeOK, PlaceInv, ProgressInv, OriginalConserved, BeforeRename,
         QuarStates, SeeSource, SeeReceipt, SeeQuarantine, Step, Goto, Env, disk
<1>7. ReplacementPreserved'
  BY DEF IInv, TypeOK, PlaceInv, ProgressInv, ReplacementPreserved, BeforeRename,
         SeeSource, SeeReceipt, SeeQuarantine, Step, Goto, Env, disk
<1>8. VerdictsTruthful'
  BY DEF IInv, TypeOK, ActorInv, PlaceInv, ProgressInv, ObservationInv,
         VerdictsTruthful, OriginalConserved, BeforeRename, Observing, DeletePcs,
         ReconcilePcs, PathStates, QuarStates, ReceiptStates, SeeSource, SeeReceipt,
         SeeQuarantine, Step, Goto, Env, disk
<1> QED
  BY <1>1, <1>2, <1>3, <1>4, <1>5, <1>6, <1>7, <1>8 DEF IInv

(* Each branch of the decision is justified by what was observed. *)
LEMMA DecideKeeps ==
  ASSUME IInv, NEW h \in Helpers,
         Decide(h)
  PROVE  IInv'
<1>1. TypeOK'
  BY DEF IInv, TypeOK, PathStates, QuarStates, ReceiptStates, Verdicts, DeletePcs,
         ReconcilePcs, NothingSeen, Decide, PreIntent, PostIntent, Step, Answer,
         Goto, Env, disk
<1>2. PlaceInv'
  BY DEF IInv, TypeOK, PlaceInv, ActorInv, ProgressInv, BeforeRename, Decide,
         PreIntent, PostIntent, Step, Answer, Goto, Env, disk
<1>3. ActorInv'
  BY DEF IInv, TypeOK, ActorInv, PlaceInv, ProgressInv, ObservationInv, BeforeRename,
         DeletePcs, ReconcilePcs, Decide, PreIntent, PostIntent, Step, Answer, Goto,
         Env, disk
<1>4. ProgressInv'
  BY DEF IInv, TypeOK, ActorInv, PlaceInv, ProgressInv, ObservationInv,
         OriginalConserved, BeforeRename, Observing, DeletePcs, ReconcilePcs,
         PathStates, QuarStates, ReceiptStates, Decide, PreIntent, PostIntent, Step,
         Answer, Goto, Env, disk
<1>5. ObservationInv'
  BY DEF IInv, TypeOK, ActorInv, PlaceInv, ProgressInv, ObservationInv,
         OriginalConserved, BeforeRename, Observing, DeletePcs, ReconcilePcs,
         PathStates, QuarStates, ReceiptStates, Decide, PreIntent, PostIntent, Step,
         Answer, Goto, Env, disk
<1>6. OriginalConserved'
  BY DEF IInv, TypeOK, PlaceInv, ProgressInv, OriginalConserved, BeforeRename,
         QuarStates, Decide, PreIntent, PostIntent, Step, Answer, Goto, Env, disk
<1>7. ReplacementPreserved'
  BY DEF IInv, TypeOK, PlaceInv, ProgressInv, ReplacementPreserved, BeforeRename,
         Decide, PreIntent, PostIntent, Step, Answer, Goto, Env, disk
<1>8. VerdictsTruthful'
  BY DEF IInv, TypeOK, ActorInv, PlaceInv, ProgressInv, ObservationInv,
         VerdictsTruthful, OriginalConserved, BeforeRename, Observing, DeletePcs,
         ReconcilePcs, PathStates, QuarStates, ReceiptStates, Decide, PreIntent,
         PostIntent, Step, Answer, Goto, Env, disk
<1> QED
  BY <1>1, <1>2, <1>3, <1>4, <1>5, <1>6, <1>7, <1>8 DEF IInv

(* The entry is the original while the receipt is exact. *)
LEMMA RecheckEntryKeeps ==
  ASSUME IInv, NEW h \in Helpers,
         RecheckEntry(h)
  PROVE  IInv'
<1>1. TypeOK'
  BY DEF IInv, TypeOK, PathStates, QuarStates, ReceiptStates, Verdicts, DeletePcs,
         ReconcilePcs, NothingSeen, RecheckEntry, Step, Answer, Goto, Env, disk
<1>2. PlaceInv'
  BY DEF IInv, TypeOK, PlaceInv, ActorInv, ProgressInv, BeforeRename, RecheckEntry,
         Step, Answer, Goto, Env, disk
<1>3. ActorInv'
  BY DEF IInv, TypeOK, ActorInv, PlaceInv, ProgressInv, ObservationInv, BeforeRename,
         DeletePcs, ReconcilePcs, RecheckEntry, Step, Answer, Goto, Env, disk
<1>4. ProgressInv'
  BY DEF IInv, TypeOK, ActorInv, PlaceInv, ProgressInv, ObservationInv,
         OriginalConserved, BeforeRename, Observing, DeletePcs, ReconcilePcs,
         PathStates, QuarStates, ReceiptStates, RecheckEntry, Step, Answer, Goto,
         Env, disk
<1>5. ObservationInv'
  BY DEF IInv, TypeOK, ActorInv, PlaceInv, ProgressInv, ObservationInv,
         OriginalConserved, BeforeRename, Observing, DeletePcs, ReconcilePcs,
         PathStates, QuarStates, ReceiptStates, RecheckEntry, Step, Answer, Goto,
         Env, disk
<1>6. OriginalConserved'
  BY DEF IInv, TypeOK, PlaceInv, ProgressInv, OriginalConserved, BeforeRename,
         QuarStates, RecheckEntry, Step, Answer, Goto, Env, disk
<1>7. ReplacementPreserved'
  BY DEF IInv, TypeOK, PlaceInv, ProgressInv, ReplacementPreserved, BeforeRename,
         RecheckEntry, Step, Answer, Goto, Env, disk
<1>8. VerdictsTruthful'
  BY DEF IInv, TypeOK, ActorInv, PlaceInv, ProgressInv, ObservationInv,
         VerdictsTruthful, OriginalConserved, BeforeRename, Observing, DeletePcs,
         ReconcilePcs, PathStates, QuarStates, ReceiptStates, RecheckEntry, Step,
         Answer, Goto, Env, disk
<1> QED
  BY <1>1, <1>2, <1>3, <1>4, <1>5, <1>6, <1>7, <1>8 DEF IInv

(* A helper that stops leaves the disk as it is. *)
LEMMA KillKeeps ==
  ASSUME IInv, NEW h \in Helpers,
         Kill(h)
  PROVE  IInv'
<1>1. TypeOK'
  BY DEF IInv, TypeOK, PathStates, QuarStates, ReceiptStates, Verdicts, DeletePcs,
         ReconcilePcs, NothingSeen, Kill, Answer, Goto, disk
<1>2. PlaceInv'
  BY DEF IInv, TypeOK, PlaceInv, ActorInv, ProgressInv, BeforeRename, Kill, Answer,
         Goto, disk
<1>3. ActorInv'
  BY DEF IInv, TypeOK, ActorInv, PlaceInv, ProgressInv, ObservationInv, BeforeRename,
         DeletePcs, ReconcilePcs, Kill, Answer, Goto, disk
<1>4. ProgressInv'
  BY DEF IInv, TypeOK, ActorInv, PlaceInv, ProgressInv, ObservationInv,
         OriginalConserved, BeforeRename, Observing, DeletePcs, ReconcilePcs,
         PathStates, QuarStates, ReceiptStates, Kill, Answer, Goto, disk
<1>5. ObservationInv'
  BY DEF IInv, TypeOK, ActorInv, PlaceInv, ProgressInv, ObservationInv,
         OriginalConserved, BeforeRename, Observing, DeletePcs, ReconcilePcs,
         PathStates, QuarStates, ReceiptStates, Kill, Answer, Goto, disk
<1>6. OriginalConserved'
  BY DEF IInv, TypeOK, PlaceInv, ProgressInv, OriginalConserved, BeforeRename,
         QuarStates, Kill, Answer, Goto, disk
<1>7. ReplacementPreserved'
  BY DEF IInv, TypeOK, PlaceInv, ProgressInv, ReplacementPreserved, BeforeRename,
         Kill, Answer, Goto, disk
<1>8. VerdictsTruthful'
  BY DEF IInv, TypeOK, ActorInv, PlaceInv, ProgressInv, ObservationInv,
         VerdictsTruthful, OriginalConserved, BeforeRename, Observing, DeletePcs,
         ReconcilePcs, PathStates, QuarStates, ReceiptStates, Kill, Answer, Goto,
         disk
<1> QED
  BY <1>1, <1>2, <1>3, <1>4, <1>5, <1>6, <1>7, <1>8 DEF IInv

(* The user's steps change what the path names and nothing else.           *)
LEMMA UserKeeps ==
  ASSUME IInv, TakeSource \/ ReplaceSource
  PROVE  IInv'
<1>1. TypeOK'
  BY DEF IInv, TypeOK, PathStates, TakeSource, ReplaceSource
<1>2. PlaceInv' /\ ActorInv'
  BY DEF IInv, PlaceInv, ActorInv, TakeSource, ReplaceSource, TypeOK, PathStates
<1>3. ProgressInv'
  BY DEF IInv, ProgressInv, BeforeRename, TakeSource, ReplaceSource
<1>4. ObservationInv'
  BY DEF IInv, ObservationInv, PlaceInv, Observing, TypeOK, TakeSource, ReplaceSource
<1>5. OriginalConserved' /\ ReplacementPreserved'
  <2>1. CASE TakeSource
    BY <2>1 DEF IInv, OriginalConserved, ReplacementPreserved, TakeSource
  <2>2. CASE ReplaceSource
    <3>1. path' = "replacement" /\ UNCHANGED <<quar, receipt>>
      BY <2>2 DEF ReplaceSource
    <3>2. ~taken' => ~taken /\ path # "original"
      BY <2>2 DEF IInv, TypeOK, ReplaceSource
    <3> QED
      BY <3>1, <3>2 DEF IInv, OriginalConserved, ReplacementPreserved
  <2> QED
    BY <2>1, <2>2
<1>6. VerdictsTruthful'
  BY DEF IInv, VerdictsTruthful, PlaceInv, TypeOK, TakeSource, ReplaceSource
<1> QED
  BY <1>1, <1>2, <1>3, <1>4, <1>5, <1>6 DEF IInv

(* The initial disk, with no request running, satisfies the invariant.    *)
LEMMA InitEstablishes == Init => IInv
<1> SUFFICES ASSUME Init PROVE IInv
  OBVIOUS
<1> USE DEF Init
<1>1. TypeOK
  BY DEF TypeOK, PathStates, QuarStates, ReceiptStates, Verdicts, NothingSeen
<1>2. PlaceInv /\ ActorInv /\ ProgressInv /\ ObservationInv
  BY DEF PlaceInv, ActorInv, ProgressInv, ObservationInv, BeforeRename, Observing,
         DeletePcs
<1>3. OriginalConserved /\ ReplacementPreserved /\ VerdictsTruthful
  BY DEF OriginalConserved, ReplacementPreserved, VerdictsTruthful
<1> QED
  BY <1>1, <1>2, <1>3 DEF IInv

(* Every step of the helpers and of the user keeps the invariant.          *)
LEMMA StepKeeps == IInv /\ [Next]_vars => IInv'
<1> SUFFICES ASSUME IInv, [Next]_vars PROVE IInv'
  OBVIOUS
<1>1. ASSUME NEW h \in Helpers, Delete(h) PROVE IInv'
  BY <1>1, CheckSourceKeeps, MakeQuarantineKeeps, RenameIntoQuarantineKeeps,
     VerifyEntryKeeps, CreateReceiptKeeps, WriteReceiptKeeps, UnlinkEntryKeeps,
     RemoveQuarantineKeeps DEF Delete
<1>2. ASSUME NEW h \in Helpers, Reconcile(h) PROVE IInv'
  BY <1>2, ObserveKeeps, DecideKeeps, CreateReceiptKeeps, WriteReceiptKeeps,
     RecheckEntryKeeps, UnlinkEntryKeeps, RemoveQuarantineKeeps DEF Reconcile
<1>3. ASSUME NEW h \in Helpers, StartDelete(h) \/ StartReconcile(h) \/ Kill(h)
      PROVE  IInv'
  BY <1>3, StartDeleteKeeps, StartReconcileKeeps, KillKeeps
<1>4. ASSUME TakeSource \/ ReplaceSource PROVE IInv'
  BY <1>4, UserKeeps
<1>5. CASE UNCHANGED vars
  BY <1>5 DEF IInv, vars, TypeOK, PlaceInv, ActorInv, ProgressInv, ObservationInv,
     OriginalConserved, ReplacementPreserved, VerdictsTruthful, BeforeRename, Observing
<1> QED
  BY <1>1, <1>2, <1>3, <1>4, <1>5 DEF Next

-----------------------------------------------------------------------------
(* The inductive invariant holds in every behaviour, whatever the helpers *)
(* are and however often they are killed.                                 *)
THEOREM Inductive == Spec => []IInv
<1>1. Init => IInv
  BY InitEstablishes
<1>2. IInv /\ [Next]_vars => IInv'
  BY StepKeeps
<1> QED
  BY <1>1, <1>2, PTL DEF Spec

(* delete_source_exact and reconcile_source_delete keep their state inside *)
(* the values the code distinguishes.                                      *)
THEOREM TypeCorrect == Spec => []TypeOK
<1>1. IInv => TypeOK
  BY DEF IInv
<1> QED
  BY <1>1, Inductive, PTL

(* Whatever is killed and whoever overlaps, the source's bytes are not     *)
(* unlinked before the exact receipt exists.                               *)
THEOREM OriginalIsConserved == Spec => []OriginalConserved
<1>1. IInv => OriginalConserved
  BY DEF IInv
<1> QED
  BY <1>1, Inductive, PTL

(* A file saved at the source path meanwhile is never unlinked.            *)
THEOREM ReplacementIsPreserved == Spec => []ReplacementPreserved
<1>1. IInv => ReplacementPreserved
  BY DEF IInv
<1> QED
  BY <1>1, Inductive, PTL

(* The answers the transaction core acts on are true.                      *)
THEOREM VerdictsAreTruthful == Spec => []VerdictsTruthful
<1>1. IInv => VerdictsTruthful
  BY DEF IInv
<1> QED
  BY <1>1, Inductive, PTL

-----------------------------------------------------------------------------
(* Refinement.  An answer maps to Reply, the completed receipt to          *)
(* CommitIntent, the unlink of the entry to Erase, the user's steps to     *)
(* Take; every other system call changes nothing the promise speaks of.    *)
PromiseVars == <<Bytes, receipt = "exact", verdict>>

(* A written answer is an answer the promise allows.                       *)
LEMMA ReplySimulated ==
  ASSUME IInv, NEW h \in Helpers, NEW v \in Verdicts,
         verdict' = [verdict EXCEPT ![h] = v],
         Bytes' = Bytes, receipt' = receipt,
         Promise!MaySay(v)
  PROVE  Promise!Next
<1>1. Promise!Reply(h)
  BY DEF Promise!Reply, Verdicts
<1> QED
  BY <1>1 DEF Promise!Next

(* Answers of the delete request and of reconciliation, and their starts.  *)
LEMMA AnswerSimulated ==
  ASSUME IInv, NEW h \in Helpers,
         \/ StartDelete(h) \/ CheckSource(h) \/ MakeQuarantine(h)
         \/ RenameIntoQuarantine(h) \/ VerifyEntry(h)
         \/ StartReconcile(h) \/ SeeSource(h) \/ SeeReceipt(h) \/ SeeQuarantine(h)
         \/ Decide(h) \/ RecheckEntry(h) \/ Kill(h)
         \/ RemoveQuarantine(h, "rmdir", "deleted")
         \/ RemoveQuarantine(h, "r-rmdir", "deleted")
         \/ RemoveQuarantine(h, "r-retain", "source-retained")
  PROVE  Promise!Next \/ UNCHANGED PromiseVars
<1>1. Bytes' = Bytes /\ receipt' = receipt
  BY DEF IInv, PlaceInv, TypeOK, Bytes, QuarStates, PathStates, StartDelete, CheckSource,
         MakeQuarantine, RenameIntoQuarantine, VerifyEntry, StartReconcile, SeeSource,
         SeeReceipt, SeeQuarantine, Decide, RecheckEntry, Kill, RemoveQuarantine, disk, Env
<1>2. \/ UNCHANGED verdict
      \/ \E v \in {"none", "unknown"} : verdict' = [verdict EXCEPT ![h] = v]
      \/ verdict' = [verdict EXCEPT ![h] = "not-applied"] /\ BeforeRename(h)
      \/ verdict' = [verdict EXCEPT ![h] = "deleted"] /\ pc[h] \in {"rmdir", "r-rmdir"}
      \/ verdict' = [verdict EXCEPT ![h] = "deleted"] /\ pc[h] = "decide"
         /\ PostIntent(seen[h]) /\ seen[h].quar = "none"
      \/ verdict' = [verdict EXCEPT ![h] = "source-retained"] /\ pc[h] = "r-retain"
      \/ verdict' = [verdict EXCEPT ![h] = "source-retained"] /\ pc[h] = "decide"
         /\ PreIntent(seen[h])
  BY DEF StartDelete, CheckSource, MakeQuarantine, RenameIntoQuarantine, VerifyEntry,
         StartReconcile, SeeSource, SeeReceipt, SeeQuarantine, Decide, RecheckEntry, Kill,
         RemoveQuarantine, Step, Answer, BeforeRename
<1>3. CASE UNCHANGED verdict
  BY <1>1, <1>3 DEF PromiseVars
<1>4. CASE \E v \in {"none", "unknown"} : verdict' = [verdict EXCEPT ![h] = v]
  BY <1>1, <1>4, ReplySimulated DEF Promise!MaySay, Verdicts
<1>5. CASE verdict' = [verdict EXCEPT ![h] = "not-applied"] /\ BeforeRename(h)
  <2>1. receipt # "exact"
    BY <1>5 DEF IInv, ProgressInv
  <2> QED
    BY <2>1, <1>1, <1>5, ReplySimulated DEF Promise!MaySay, Verdicts
<1>6. ASSUME verdict' = [verdict EXCEPT ![h] = "deleted"],
             receipt = "exact", quar # "original"
      PROVE  Promise!Next
  <2>1. Bytes = "gone"
    BY <1>6 DEF IInv, PlaceInv, Bytes, ReplacementPreserved, TypeOK
  <2> QED
    BY <2>1, <1>1, <1>6, ReplySimulated DEF Promise!MaySay, Verdicts
<1>7. ASSUME verdict' = [verdict EXCEPT ![h] = "source-retained"],
             ~Orphans => path = "original" \/ taken
      PROVE  Promise!Next
  <2>1. Orphans \/ Bytes # "gone"
    BY <1>7 DEF Bytes
  <2> QED
    BY <2>1, <1>1, <1>7, ReplySimulated DEF Promise!MaySay, Verdicts
<1>8. CASE verdict' = [verdict EXCEPT ![h] = "deleted"] /\ pc[h] \in {"rmdir", "r-rmdir"}
  BY <1>6, <1>8 DEF IInv, ProgressInv
<1>9. CASE /\ verdict' = [verdict EXCEPT ![h] = "deleted"] /\ pc[h] = "decide"
           /\ PostIntent(seen[h]) /\ seen[h].quar = "none"
  BY <1>6, <1>9 DEF IInv, ObservationInv, PostIntent
<1>10. CASE /\ verdict' = [verdict EXCEPT ![h] = "source-retained"]
            /\ \/ pc[h] = "r-retain"
               \/ pc[h] = "decide" /\ PreIntent(seen[h])
  BY <1>7, <1>10 DEF IInv, ObservationInv, PreIntent, Observing
<1> QED
  BY <1>2, <1>3, <1>4, <1>5, <1>8, <1>9, <1>10

(* Every step of the system calls is a step of the promise or a stutter.   *)
LEMMA NextSimulated == IInv /\ [Next]_vars => [Promise!Next]_PromiseVars
<1> SUFFICES ASSUME IInv, [Next]_vars
             PROVE  Promise!Next \/ UNCHANGED PromiseVars
  OBVIOUS
<1>1. ASSUME NEW h \in Helpers, NEW from, NEW next, CreateReceipt(h, from, next)
      PROVE  Promise!Next \/ UNCHANGED PromiseVars
  <2>1. CASE receipt = "absent"
    BY <1>1, <2>1 DEF CreateReceipt, Step, Bytes, PromiseVars, Env
  <2>2. CASE receipt # "absent"
    <3>1. verdict' = [verdict EXCEPT ![h] = "unknown"] /\ Bytes' = Bytes
          /\ receipt' = receipt
      BY <1>1, <2>2 DEF CreateReceipt, Answer, Bytes, Env
    <3> QED
      BY <3>1, ReplySimulated DEF Promise!MaySay, Verdicts
  <2> QED
    BY <2>1, <2>2
<1>2. ASSUME NEW h \in Helpers, NEW next,
             WriteReceipt(h, "write", next) \/ WriteReceipt(h, "r-write", next)
      PROVE  Promise!CommitIntent
  BY <1>2 DEF IInv, ProgressInv, WriteReceipt, Step, Env, Bytes, Promise!CommitIntent
<1>3. ASSUME NEW h \in Helpers, NEW next,
             UnlinkEntry(h, "unlink", next) \/ UnlinkEntry(h, "r-unlink", next)
      PROVE  Promise!Next \/ UNCHANGED PromiseVars
  <2>1. receipt = "exact" /\ path # "original" /\ quar # "replacement"
    BY <1>3 DEF IInv, ProgressInv, PlaceInv, UnlinkEntry
  <2>2. CASE quar = "original"
    <3>1. Promise!Erase
      BY <1>3, <2>1, <2>2 DEF IInv, PlaceInv, TypeOK, UnlinkEntry, Step, Env, Bytes,
         Promise!Erase
    <3> QED
      BY <3>1 DEF Promise!Next
  <2>3. CASE quar # "original"
    <3>1. verdict' = [verdict EXCEPT ![h] = "unknown"] /\ Bytes' = Bytes
          /\ receipt' = receipt
      BY <1>3, <2>1, <2>3 DEF UnlinkEntry, Answer, Bytes, Env
    <3> QED
      BY <3>1, ReplySimulated DEF Promise!MaySay, Verdicts
  <2> QED
    BY <2>2, <2>3
<1>4. ASSUME TakeSource \/ ReplaceSource
      PROVE  Promise!Next \/ UNCHANGED PromiseVars
  <2>1. CASE path = "original"
    <3>1. Promise!Take
      BY <1>4, <2>1 DEF IInv, PlaceInv, TypeOK, TakeSource, ReplaceSource, Bytes,
         Promise!Take
    <3> QED
      BY <3>1 DEF Promise!Next
  <2>2. CASE path # "original"
    <3>1. UNCHANGED <<Bytes, receipt, verdict>>
      BY <1>4, <2>2 DEF IInv, TypeOK, TakeSource, ReplaceSource, Bytes
    <3> QED
      BY <3>1 DEF PromiseVars
  <2> QED
    BY <2>1, <2>2
<1>5. CASE UNCHANGED vars
  BY <1>5 DEF vars, PromiseVars, Bytes
<1>6. ASSUME NEW h \in Helpers,
             StartDelete(h) \/ Delete(h) \/ StartReconcile(h) \/ Reconcile(h) \/ Kill(h)
      PROVE  Promise!Next \/ UNCHANGED PromiseVars
  BY <1>6, <1>1, <1>2, <1>3, AnswerSimulated DEF Delete, Reconcile, Promise!Next
<1> QED
  BY <1>4, <1>5, <1>6 DEF Next

(* The system calls of the two requests implement the promise.             *)
THEOREM KeepsPromise == Spec => PromiseKept
<1>1. Init => Promise!Init
  BY DEF Init, Promise!Init, Bytes
<1>2. IInv /\ [Next]_vars => [Promise!Next]_PromiseVars
  BY NextSimulated
<1> QED
  BY <1>1, <1>2, Inductive, PTL DEF Spec, PromiseKept, Promise!Spec, PromiseVars
=============================================================================
