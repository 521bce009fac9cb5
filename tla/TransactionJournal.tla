-------------------------- MODULE TransactionJournal --------------------------
(***************************************************************************)
(* TransactionJournal: the append-only file of records, its sequence file, *)
(* and the repair of a torn tail, for several handles on one path, most of *)
(* them in processes of their own.  Appends fail half way, syncs fail,     *)
(* processes die with the lock, the machine loses power.                   *)
(*                                                                         *)
(* The lock file is taken here as what it is for: one holder at a time,    *)
(* and the lock of a dead holder is free again (after LOCK_STALE_MS).      *)
(***************************************************************************)
EXTENDS Integers, Sequences, SequencesExt, FiniteSetsExt

CONSTANTS
  Writers,     \* journal handles
  NoWriter,
  MaxAppends,  \* bound: records ever appended
  MaxTroubles  \* bound: failed system calls, deaths and power losses

ASSUME WritersAssumption == NoWriter \notin Writers
ASSUME BoundsAssumption == MaxAppends \in Nat /\ MaxTroubles \in Nat

VARIABLES
  file,    \* the lines of the journal
  disk,    \* the lines that would survive a power loss for certain
  stored,  \* the sequence file, and what of it would survive
  lock,    \* holder of <journal>.lock
  pc, job, \* where each handle is, and in which call
  record,  \* the record it is appending
  floor,   \* sequenceFloor
  known,   \* knownJournalSize
  acked,   \* records whose append was acknowledged
  spent    \* records begun, and troubles so far

store == <<file, disk, stored>>
local == <<pc, job, record, floor, known>>
journalVars  == <<store, lock, local, acked, spent>>

(* A line holds one record whole, or text that does not parse.             *)
Text(r, form) ==
  [id |-> r.id, sequence |-> r.sequence,
   parses |-> form # "torn", newline |-> form = "whole",
   bytes |-> CASE form = "whole" -> 3 [] form = "bare" -> 2 [] form = "torn" -> 1]

Size(f) == FoldSeq(LAMBDA line, n : line.bytes + n, 0, f)

(* appendFile: text after an unterminated line becomes part of that line.  *)
Glued(f, text) ==
  IF f # <<>> /\ ~Last(f).newline
    THEN Append(Front(f), [Last(f) EXCEPT !.parses = FALSE, !.newline = text.newline,
                                          !.bytes = @ + text.bytes])
    ELSE Append(f, text)

Whole(f) == {i \in DOMAIN f : f[i].parses}
Highest(f) == Max({0} \cup {f[i].sequence : i \in Whole(f)})
Larger(m, n) == IF m > n THEN m ELSE n
Nil == [id |-> 0, sequence |-> 0]

JournalInit ==
  /\ file = <<>> /\ disk = <<>> /\ stored = [now |-> 0, safe |-> 0]
  /\ lock = NoWriter
  /\ pc = [w \in Writers |-> "down"] /\ job = [w \in Writers |-> "none"]
  /\ record = [w \in Writers |-> Nil]
  /\ floor = [w \in Writers |-> 0] /\ known = [w \in Writers |-> 0]
  /\ acked = {} /\ spent = [appends |-> 0, troubles |-> 0]

-----------------------------------------------------------------------------
Goto(w, l) == pc' = [pc EXCEPT ![w] = l]
Trouble ==
  /\ spent.troubles < MaxTroubles
  /\ spent' = [spent EXCEPT !.troubles = @ + 1]

(* Mutant: an error inside the lock leaves it behind.                      *)
ThrowLocked(w) ==
  Goto(w, IF job[w] = "open" THEN "down" ELSE "idle") /\ UNCHANGED lock

(* The end of withFileLock: the call returns, or throws, and releases.     *)
Return(w) == Goto(w, "idle") /\ lock' = NoWriter
Throw(w)  == Goto(w, IF job[w] = "open" THEN "down" ELSE "idle") /\ lock' = NoWriter

(* open and foldRecords repair first, whatever size they remember.         *)
Begin(w, call) ==
  /\ lock = NoWriter /\ lock' = w
  /\ pc[w] = (IF call = "open" THEN "down" ELSE "idle")
  /\ job' = [job EXCEPT ![w] = call] /\ Goto(w, "repair")
  /\ UNCHANGED <<store, record, floor, known, acked, spent>>

(* Mutant: the tail is trusted whatever the size of the file.              *)
AppendTrusting(w) ==
  /\ pc[w] = "idle" /\ lock = NoWriter /\ lock' = w
  /\ spent.appends < MaxAppends /\ spent' = [spent EXCEPT !.appends = @ + 1]
  /\ job' = [job EXCEPT ![w] = "append"]
  /\ record' = [record EXCEPT ![w] = [id |-> spent.appends + 1, sequence |-> 0]]
  /\ Goto(w, "sequence")
  /\ UNCHANGED <<store, floor, known, acked>>

(* append: the tail is read again only when the size is not the remembered *)
(* one.                                                                    *)
AppendRecord(w) ==
  /\ pc[w] = "idle" /\ lock = NoWriter /\ lock' = w
  /\ spent.appends < MaxAppends /\ spent' = [spent EXCEPT !.appends = @ + 1]
  /\ job' = [job EXCEPT ![w] = "append"]
  /\ record' = [record EXCEPT ![w] = [id |-> spent.appends + 1, sequence |-> 0]]
  /\ Goto(w, IF Size(file) = known[w] THEN "sequence" ELSE "repair")
  /\ UNCHANGED <<store, floor, known, acked>>

AfterRepair(w) ==
  \/ job[w] = "open"   /\ Goto(w, "initialize") /\ UNCHANGED lock
  \/ job[w] = "append" /\ Goto(w, "sequence")   /\ UNCHANGED lock
  \/ job[w] = "read"   /\ Return(w)

(* Mutant: a last record without its newline is taken for torn.            *)
RepairedStrictly(f) ==
  IF f # <<>> /\ ~(Last(f).parses /\ Last(f).newline) THEN Front(f) ELSE f

(* What the repair makes of a file: a last line that does not parse is cut *)
(* off, a last record without its newline is completed.                    *)
Interior(f) == \E i \in DOMAIN f : ~f[i].parses /\ i < Len(f)
Repaired(f) ==
  CASE f = <<>> -> f
    [] f # <<>> /\ ~Last(f).parses -> Front(f)
    [] f # <<>> /\ Last(f).parses ->
         Append(Front(f), [Last(f) EXCEPT !.bytes = IF Last(f).newline THEN @ ELSE @ + 1,
                                          !.newline = TRUE])

(* repairTornTailLocked.  The size is remembered between the change and    *)
(* its sync; either may fail.                                              *)
Repair(w) ==
  /\ pc[w] = "repair"
  /\ LET f == Repaired(file) IN
       \/ Interior(file) /\ Throw(w) /\ UNCHANGED <<store, known, spent>>
       \/ /\ ~Interior(file)
          /\ file' = f /\ disk' = (IF f = file THEN disk ELSE f)
          /\ known' = [known EXCEPT ![w] = Size(f)]
          /\ AfterRepair(w) /\ UNCHANGED <<stored, spent>>
       \/ /\ ~Interior(file) /\ f # file /\ Trouble /\ Throw(w)
          /\ \/ UNCHANGED <<file, known>>
             \/ file' = f /\ known' \in {known, [known EXCEPT ![w] = Size(f)]}
          /\ UNCHANGED <<disk, stored>>
  /\ UNCHANGED <<job, record, floor, acked>>

(* writeStoredSequence: a temporary file renamed, then the directory sync; *)
(* a failure may come before or after the rename.                          *)
StoreSequence(n) == stored' = [now |-> n, safe |-> n]
StoreFails(n) ==
  Trouble /\ stored' \in {stored, [stored EXCEPT !.now = n]}

InitializeSequence(w) ==
  LET top == Larger(stored.now, Highest(file)) IN
  /\ pc[w] = "initialize"
  /\ floor' = [floor EXCEPT ![w] = top]
  /\ \/ stored.now = top /\ Return(w) /\ UNCHANGED <<stored, spent>>
     \/ stored.now < top /\ StoreSequence(top) /\ Return(w) /\ UNCHANGED spent
     \/ stored.now < top /\ StoreFails(top) /\ Throw(w)
  /\ UNCHANGED <<file, disk, job, record, known, acked>>

(* Mutant: the sequence comes from the floor of this handle alone.         *)
NextSequenceAlone(w) ==
  LET n == floor[w] + 1 IN
  /\ pc[w] = "sequence" /\ StoreSequence(n)
  /\ floor' = [floor EXCEPT ![w] = n]
  /\ record' = [record EXCEPT ![w].sequence = n]
  /\ Goto(w, "write")
  /\ UNCHANGED <<file, disk, lock, job, known, acked, spent>>

NextSequence(w) ==
  LET n == Larger(stored.now, floor[w]) + 1 IN
  /\ pc[w] = "sequence"
  /\ \/ /\ StoreSequence(n)
        /\ floor' = [floor EXCEPT ![w] = n]
        /\ record' = [record EXCEPT ![w].sequence = n]
        /\ Goto(w, "write") /\ UNCHANGED <<lock, spent>>
     \/ StoreFails(n) /\ Throw(w) /\ UNCHANGED <<floor, record>>
  /\ UNCHANGED <<file, disk, job, known, acked>>

(* appendFile: the whole line, or an error after nothing or a part of it.  *)
Write(w) ==
  /\ pc[w] = "write"
  /\ \/ /\ file' = Glued(file, Text(record[w], "whole"))
        /\ known' = [known EXCEPT ![w] = @ + Text(record[w], "whole").bytes]
        /\ Goto(w, "sync") /\ UNCHANGED <<lock, spent>>
     \/ /\ Trouble /\ Throw(w) /\ UNCHANGED known
        /\ \/ UNCHANGED file
           \/ \E form \in {"bare", "torn"} : file' = Glued(file, Text(record[w], form))
  /\ UNCHANGED <<disk, stored, job, record, floor, acked>>

(* Mutant: the append is acknowledged without a sync.                      *)
SyncLater(w) ==
  /\ pc[w] = "sync" /\ acked' = acked \cup {record[w].id} /\ Return(w)
  /\ UNCHANGED <<store, job, record, floor, known, spent>>

(* The sync, and the acknowledgement.                                      *)
Sync(w) ==
  /\ pc[w] = "sync"
  /\ \/ disk' = file /\ acked' = acked \cup {record[w].id} /\ Return(w) /\ UNCHANGED spent
     \/ Trouble /\ Throw(w) /\ UNCHANGED <<disk, acked>>
  /\ UNCHANGED <<file, stored, job, record, floor, known>>

CloseJournal(w) ==
  /\ pc[w] = "idle" /\ Goto(w, "down")
  /\ UNCHANGED <<store, lock, job, record, floor, known, acked, spent>>

-----------------------------------------------------------------------------
(* The process of one handle dies, inside the write perhaps.               *)
Die(w) ==
  /\ pc[w] # "down" /\ Trouble /\ Goto(w, "down")
  /\ lock' = IF lock = w THEN NoWriter ELSE lock
  /\ \/ UNCHANGED file
     \/ /\ pc[w] = "write"
        /\ \E form \in {"bare", "torn"} : file' = Glued(file, Text(record[w], form))
  /\ UNCHANGED <<disk, stored, job, record, floor, known, acked>>

(* The machine stops: of the lines that were not synced some are there, the*)
(* next one may be torn.                                                   *)
PowerLoss ==
  /\ Trouble /\ pc' = [w \in Writers |-> "down"] /\ lock' = NoWriter
  /\ \/ file' \in {file, disk}
     \/ \E n \in Len(disk) .. Len(file) : file' = SubSeq(file, 1, n)
     \/ \E n \in Len(disk) .. Len(file) - 1, form \in {"torn", "bare"} :
          /\ form = "bare" => file[n + 1].parses
          /\ file' = Glued(SubSeq(file, 1, n), Text(file[n + 1], form))
  /\ disk' = file'
  /\ \E n \in {stored.now, stored.safe} : stored' = [now |-> n, safe |-> n]
  /\ UNCHANGED <<job, record, floor, known, acked>>

Step(w) ==
  \/ Repair(w) \/ InitializeSequence(w) \/ NextSequence(w) \/ Write(w) \/ Sync(w)

JournalNext ==
  \/ \E w \in Writers :
       \/ \E call \in {"open", "read"} : Begin(w, call)
       \/ AppendRecord(w) \/ Step(w) \/ CloseJournal(w) \/ Die(w)
  \/ PowerLoss

JournalSpec == JournalInit /\ [][JournalNext]_journalVars

(* A call that was begun goes on.                                          *)
FairJournal == JournalSpec /\ \A w \in Writers : WF_journalVars(Step(w))

-----------------------------------------------------------------------------
Lines == [id : 1 .. MaxAppends, sequence : 0 .. MaxAppends + MaxTroubles,
          parses : BOOLEAN, newline : BOOLEAN, bytes : 1 .. 3 * MaxAppends]

TypeOK ==
  /\ file \in Seq(Lines) /\ disk \in Seq(Lines)
  /\ lock \in Writers \cup {NoWriter}
  /\ \A w \in Writers : pc[w] \in {"down", "idle", "repair", "initialize",
                                   "sequence", "write", "sync"}
  /\ \A w \in Writers : lock = w <=> pc[w] \notin {"down", "idle"}

(* No open ever meets interior corruption: only the last line may fail to  *)
(* parse, or lack its newline.  Code: the size check of append before it   *)
(* writes behind somebody else's tail.                                     *)
OnlyTheTailIsTorn ==
  \A i \in DOMAIN file : i < Len(file) => file[i].parses /\ file[i].newline

(* A record whose append returned is in the journal, whoever repairs,      *)
(* dies or loses power afterwards.  Code: the sync before append returns,  *)
(* and a repair that cuts no more than the torn tail.                      *)
AcknowledgedKept ==
  \A id \in acked : \E i \in Whole(file) : file[i].id = id

(* The sequence numbers rise along the file, across handles and restarts.  *)
(* Code: nextSequenceLocked writes the number before it is used.           *)
SequencesRise ==
  \A i, j \in Whole(file) : i < j => file[i].sequence < file[j].sequence

(* The optimisation of append is sound: a file of the remembered size has  *)
(* a complete tail.  Code: the comment in append.                          *)
KnownSizeIsValid ==
  \A w \in Writers :
    pc[w] = "idle" /\ Size(file) = known[w] /\ file # <<>>
      => Last(file).parses /\ Last(file).newline

(* What an append relies on when it writes without looking at the tail.    *)
(* Code: append and repairTornTailLocked.                                  *)
TailInv == TypeOK /\ OnlyTheTailIsTorn /\ KnownSizeIsValid

(* The three together: what a reader of the journal relies on.             *)
JournalHolds == TailInv /\ AcknowledgedKept /\ SequencesRise

(* A record that is whole leaves the file only by a power loss: no repair  *)
(* removes it, with or without its newline.  Code: repairTornTailLocked.   *)
RepairKeepsRecords ==
  [][(\E w \in Writers : Repair(w)) =>
       {file[i].id : i \in Whole(file)} \subseteq {file'[i].id : i \in Whole(file')}]_journalVars

(* Every call ends, or its process does: the lock is free again and again. *)
CallsEnd == []<>(lock = NoWriter)
=============================================================================
