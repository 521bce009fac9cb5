-------------------------- MODULE EvidenceManifest --------------------------
(***************************************************************************)
(* EvidenceManifest: the append-only, hash-chained evidence file of one    *)
(* job, and its verification.  Appends are queued and written in batches,  *)
(* one at a time; the first failure closes the manifest for good.  A hash  *)
(* is the identity of the event it was taken of: the id it was written     *)
(* under.  Torn writes, failing syncs, the end of the process, a power     *)
(* loss and damage to the file interleave with the verifier's reads.       *)
(***************************************************************************)
EXTENDS Integers, Sequences, SequencesExt

CONSTANTS MaxBatches, MaxVerifies, MaxDamage  \* bounds: calls, verifications, damages

ASSUME EvidenceAssumption ==
  MaxBatches \in Nat /\ MaxVerifies \in Nat /\ MaxDamage \in Nat

VARIABLES
  leaf,       \* the lines of the file; a torn one is the piece of a line
  durable,    \* how many of them a power loss leaves
  sequence, previousHash,
  shutdown,   \* closed
  closePromise, \* close() was called
  waiting,    \* batches queued, the one being written first
  stepOf,     \* where that one is: idle, write, sync, confirm
  batch,      \* its events
  written,    \* ids given so far: every event has its own
  accepted,   \* the events whose append was acknowledged
  batches,    \* calls so far
  alive,      \* the process runs
  reader,     \* the verification: what for, how far, and what it read
  verified,   \* verifications so far
  damages

appendState == <<sequence, previousHash, shutdown, closePromise, waiting, stepOf, batch,
                 written, accepted, batches>>
onDisk == <<leaf, durable>>
reading == <<reader, verified>>
evidenceVars == <<onDisk, appendState, reading, alive, damages>>

Torn == [id |-> 0, seq |-> 0, prev |-> 0, kind |-> "torn"]
NoReader == [ending |-> "none", at |-> "idle", size |-> 0, seen |-> <<>>, valid |-> FALSE]
Opening == [id |-> 1, seq |-> 1, prev |-> 0, kind |-> "job-opened"]

(* Lines, and a piece of one more perhaps.                                 *)
WithTail(lines, torn) == IF torn THEN Append(lines, Torn) ELSE lines

(* create(): the file is new, and its first event is written and synced.   *)
EvidenceInit ==
  /\ leaf = <<Opening>> /\ durable = 1 /\ accepted = <<Opening>>
  /\ sequence = 1 /\ previousHash = 1 /\ written = 1
  /\ shutdown = FALSE /\ closePromise = FALSE
  /\ waiting = <<>> /\ stepOf = "idle" /\ batch = <<>> /\ batches = 0
  /\ alive = TRUE /\ reader = NoReader /\ verified = 0 /\ damages = 0

-----------------------------------------------------------------------------
(* append, appendBatch: refused at once when closed or closing.            *)
AppendBatch(kinds) ==
  /\ alive /\ ~shutdown /\ ~closePromise /\ batches < MaxBatches
  /\ waiting' = Append(waiting, kinds) /\ batches' = batches + 1
  /\ UNCHANGED <<onDisk, sequence, previousHash, shutdown, closePromise, stepOf, batch,
                 written, accepted, reading, alive, damages>>

CloseManifest ==
  /\ alive /\ ~closePromise /\ ~shutdown
  /\ closePromise' = TRUE /\ waiting' = Append(waiting, <<"job-closed">>)
  /\ UNCHANGED <<onDisk, sequence, previousHash, shutdown, stepOf, batch, written, accepted,
                 batches, reading, alive, damages>>

Events(kinds) ==
  [i \in 1..Len(kinds) |->
     [id |-> written + i, seq |-> sequence + i,
      prev |-> IF i = 1 THEN previousHash ELSE written + i - 1, kind |-> kinds[i]]]

(* enqueue: after a failure or the close every batch that waits is refused.*)
(* Mutant: what waits behind a failure is forgotten.                       *)
BeginUnlessShut ==
  /\ alive /\ stepOf = "idle" /\ waiting # <<>> /\ ~shutdown
  /\ stepOf' = "write" /\ batch' = Events(Head(waiting))
  /\ written' = written + Len(Head(waiting))
  /\ UNCHANGED <<onDisk, waiting, sequence, previousHash, shutdown, closePromise, accepted,
                 batches, reading, alive, damages>>

BeginBatch ==
  /\ alive /\ stepOf = "idle" /\ waiting # <<>>
  /\ IF shutdown
       THEN waiting' = Tail(waiting) /\ UNCHANGED <<stepOf, batch, written>>
       ELSE /\ stepOf' = "write" /\ batch' = Events(Head(waiting))
            /\ written' = written + Len(Head(waiting)) /\ UNCHANGED waiting
  /\ UNCHANGED <<onDisk, sequence, previousHash, shutdown, closePromise, accepted, batches,
                 reading, alive, damages>>

(* Any failure is remembered: the handle is closed, nothing follows.       *)
(* Mutant: the batch is refused and the manifest goes on.                  *)
RefuseBatch == waiting' = Tail(waiting) /\ stepOf' = "idle" /\ UNCHANGED shutdown
FailBatch   == waiting' = Tail(waiting) /\ stepOf' = "idle" /\ shutdown' = TRUE

WriteBatch ==
  /\ alive /\ stepOf = "write"
  /\ \/ FailBatch /\ UNCHANGED leaf                          \* the identity check
     \/ \E n \in 0..Len(batch) : \E torn \in BOOLEAN :
          /\ leaf' = WithTail(leaf \o SubSeq(batch, 1, n), torn)
          /\ torn => n < Len(batch)
          /\ \/ FailBatch
             \/ n = Len(batch) /\ stepOf' = "sync" /\ UNCHANGED <<waiting, shutdown>>
  /\ UNCHANGED <<durable, sequence, previousHash, closePromise, batch, written, accepted,
                 batches, reading, alive, damages>>

SyncBatch ==
  /\ alive /\ stepOf = "sync"
  /\ \/ FailBatch /\ UNCHANGED durable
     \/ durable' = Len(leaf) /\ stepOf' = "confirm" /\ UNCHANGED <<waiting, shutdown>>
  /\ UNCHANGED <<leaf, sequence, previousHash, closePromise, batch, written, accepted,
                 batches, reading, alive, damages>>

(* The identity is checked once more, then the chain moves on; the close   *)
(* may still fail when the handle is closed.                               *)
ConfirmBatch ==
  /\ alive /\ stepOf = "confirm"
  /\ \/ FailBatch /\ UNCHANGED <<sequence, previousHash, accepted>>
     \/ /\ sequence' = Last(batch).seq /\ previousHash' = Last(batch).id
        /\ accepted' = accepted \o batch
        /\ waiting' = Tail(waiting) /\ stepOf' = "idle"
        /\ shutdown' = (Head(waiting) = <<"job-closed">>)
  /\ UNCHANGED <<onDisk, closePromise, batch, written, batches, reading, alive, damages>>

-----------------------------------------------------------------------------
(* The chain as verifyLine walks it.                                       *)
(* Mutant: previousHash is not compared.                                   *)
ChainedLoosely(s) ==
  \A i \in 1..Len(s) :
    /\ s[i].kind # "torn" /\ (i = 1 <=> s[i].kind = "job-opened")
    /\ i < Len(s) => s[i].kind # "job-closed"

Chained(s) ==
  \A i \in 1..Len(s) :
    /\ s[i].kind # "torn" /\ s[i].seq = i
    /\ s[i].prev = (IF i = 1 THEN 0 ELSE s[i - 1].id)
    /\ (i = 1 => s[i].kind = "job-opened")
    /\ i < Len(s) => s[i].kind # "job-closed"

StartVerify(ending) ==
  /\ reader.at = "idle" /\ verified < MaxVerifies
  /\ reader' = [NoReader EXCEPT !.ending = ending, !.at = "read", !.size = Len(leaf)]
  /\ verified' = verified + 1
  /\ UNCHANGED <<onDisk, appendState, alive, damages>>

(* The lines the file had when it was opened; fewer if it has shrunk.      *)
ReadLeaf ==
  /\ reader.at = "read"
  /\ reader' = [reader EXCEPT !.at = "recheck",
                              !.seen = SubSeq(leaf, 1, IF reader.size < Len(leaf) THEN reader.size
                                                                                ELSE Len(leaf))]
  /\ UNCHANGED <<onDisk, appendState, verified, alive, damages>>

(* Valid: chained, of the same size as before, with the ending required.   *)
Sound(r) ==
  /\ Len(r.seen) = r.size /\ Len(leaf) = r.size
  /\ Chained(r.seen) /\ r.seen # <<>> /\ Last(r.seen).kind = r.ending

Conclude ==
  /\ reader.at = "recheck"
  /\ reader' = [reader EXCEPT !.at = "idle", !.valid = Sound(reader)]
  /\ UNCHANGED <<onDisk, appendState, verified, alive, damages>>

-----------------------------------------------------------------------------
ProcessEnds ==
  /\ alive /\ alive' = FALSE /\ reader' = NoReader
  /\ \E n \in 0..Len(batch) :
       leaf' = IF stepOf = "write" THEN leaf \o SubSeq(batch, 1, n) ELSE leaf
  /\ UNCHANGED <<durable, appendState, verified, damages>>

PowerFails ==
  /\ alive /\ alive' = FALSE /\ reader' = NoReader
  /\ \E n \in durable..Len(leaf) : \E torn \in BOOLEAN :
       /\ torn => n < Len(leaf)
       /\ leaf' = WithTail(SubSeq(leaf, 1, n), torn)
  /\ UNCHANGED <<durable, appendState, verified, damages>>

(* Lines lost, doubled or out of order, once nobody writes any more.       *)
Damage ==
  /\ damages < MaxDamage /\ damages' = damages + 1 /\ (shutdown \/ ~alive)
  /\ \E i \in 1..Len(leaf) :
       \/ leaf' = SubSeq(leaf, 1, i - 1) \o SubSeq(leaf, i + 1, Len(leaf))
       \/ leaf' = SubSeq(leaf, 1, i) \o SubSeq(leaf, i, Len(leaf))
       \/ i < Len(leaf) /\ leaf' = [leaf EXCEPT ![i] = leaf[i + 1], ![i + 1] = leaf[i]]
  /\ UNCHANGED <<durable, appendState, reading, alive>>

BatchKinds == {<<"event", "event">>, <<"preview-sealed">>}
Writing == BeginBatch \/ WriteBatch \/ SyncBatch \/ ConfirmBatch
Verifying ==
  \/ \E ending \in {"job-closed", "preview-sealed"} : StartVerify(ending)
  \/ ReadLeaf \/ Conclude

EvidenceNext ==
  \/ \E kinds \in BatchKinds : AppendBatch(kinds)
  \/ CloseManifest \/ Writing \/ Verifying \/ ProcessEnds \/ PowerFails \/ Damage

EvidenceSpec == EvidenceInit /\ [][EvidenceNext]_evidenceVars
FairEvidence == EvidenceSpec /\ WF_evidenceVars(Writing)

-----------------------------------------------------------------------------
(* Every acknowledged event stays in the file, at its place in one chain,  *)
(* through torn batches, failed syncs, the end of the process and a power  *)
(* loss.                                                                   *)
AcceptedStays == damages = 0 => IsPrefix(accepted, leaf)

(* A manifest found valid and closed is the whole evidence: all that was   *)
(* acknowledged, in order, and nothing of a batch that was refused; one    *)
(* found validly sealed begins with it.                                    *)
VerdictsHold ==
  /\ reader.valid /\ reader.ending = "job-closed" =>
       \/ reader.seen = accepted
       \/ Len(reader.seen) = Len(accepted) + 1 /\ IsPrefix(accepted, reader.seen)
  /\ reader.valid /\ reader.ending = "preview-sealed" =>
       IsPrefix(reader.seen, accepted) \/ IsPrefix(accepted, reader.seen)

EvidenceHolds == AcceptedStays /\ VerdictsHold

(* Every append and close that was queued is answered: in the end none     *)
(* waits.                                                                  *)
EvidenceSettles == <>[](waiting = <<>> \/ ~alive)
=============================================================================
