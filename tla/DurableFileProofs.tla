------------------------- MODULE DurableFileProofs -------------------------
(***************************************************************************)
(* Three of the files the application keeps for itself, each for any       *)
(* number of calls, troubles and ends of the process: the transaction      *)
(* journal (JournalHolds, RepairKeepsRecords), the evidence manifest       *)
(* (EvidenceHolds) and the job history (HistoryReplays, HistoryIsTold).    *)
(*                                                                         *)
(* The journal.  The sequence file carries the argument for the numbers    *)
(* (RiseInv): a number is safe in it before a record bears it, so that no  *)
(* number in the journal, or in what a power loss would leave of it, is    *)
(* above the safe one, and the next one is above them all.  The size of    *)
(* the file carries the one for its tail (JournalInv): what is torn comes  *)
(* on top of a size that no repair undercuts and that is at least what a   *)
(* handle remembers, so that a file of the remembered size has nothing     *)
(* torn behind it.                                                         *)
(*                                                                         *)
(* The evidence.  Its events have their places in one story: those         *)
(* acknowledged, then those of the batch begun last (Story).  Nothing is   *)
(* begun after a batch that failed, so every line that ever comes to the   *)
(* file is of the story, at the place of its number, and a chain that      *)
(* counts from 1 is a beginning of it.                                     *)
(*                                                                         *)
(* The history.  A record is written only when the replay of the file as   *)
(* it is accepts it; the memory is that replay, but for the record on its  *)
(* way; and a record that was applied is refused the second time, which is *)
(* how a reconciliation knows by the last line whether it was written.     *)
(***************************************************************************)
EXTENDS TransactionJournal, EvidenceManifest, JobHistoryStore, SumLemmas, SequenceTheorems

JournalLine == [id : Nat, sequence : Nat, parses : BOOLEAN, newline : BOOLEAN, bytes : Nat]
Rises(f)    == \A i, j \in Whole(f) : i < j => f[i].sequence < f[j].sequence
UpTo(f, n)  == \A i \in Whole(f) : f[i].sequence <= n
Above(f, n) == \A i \in Whole(f) : f[i].sequence < n
Outside     == {"down", "idle"}

JournalTypeOK ==
  /\ file \in Seq(JournalLine) /\ disk \in Seq(JournalLine)
  /\ stored \in [now : Nat, safe : Nat]
  /\ pc \in [Writers -> Outside \cup {"repair", "initialize", "sequence", "write", "sync"}]
  /\ record \in [Writers -> [id : Nat, sequence : Nat]]
  /\ floor \in [Writers -> Nat]
  /\ spent \in [appends : Nat, troubles : Nat]

(* Whoever is inside a call holds the lock.                                *)
HolderInv == \A w \in Writers : pc[w] \notin Outside => lock = w

(* The file, and what would be left of it, bear no number that is not safe.*)
NumbersInv ==
  /\ Rises(file) /\ UpTo(file, stored.safe)
  /\ Rises(disk) /\ UpTo(disk, stored.safe)
  /\ stored.safe <= stored.now

(* The record that is about to be written bears a safe, and a new, number. *)
RecordInv ==
  \A w \in Writers : pc[w] = "write" =>
    record[w].sequence <= stored.safe /\ Above(file, record[w].sequence)

RiseInv == JournalTypeOK /\ HolderInv /\ NumbersInv /\ RecordInv

-----------------------------------------------------------------------------
(* What the last line leaves when it is cut off.                           *)
LEMMA FrontOfFile ==
  ASSUME NEW f \in Seq(JournalLine), f # <<>>
  PROVE  /\ Front(f) \in Seq(JournalLine) /\ Len(f) \in Nat \ {0}
         /\ Len(Front(f)) = Len(f) - 1 /\ Last(f) \in JournalLine
         /\ \A i \in 1 .. Len(f) - 1 : Front(f)[i] = f[i]
<1>1. Len(f) \in Nat \ {0} /\ \A i \in 1 .. Len(f) : f[i] \in JournalLine
  BY EmptySeq, ElementOfSeq
<1>2. SubSeq(f, 1, Len(f) - 1) \in Seq(JournalLine)
  BY <1>1, SubSeqProperties
<1>3. Len(SubSeq(f, 1, Len(f) - 1)) = Len(f) - 1
  <2>. DEFINE k == Len(f) - 1
  <2>1. k \in Nat /\ \A i \in 1 .. k : f[i] \in JournalLine
    BY <1>1
  <2>. HIDE DEF k
  <2>2. Len(SubSeq(f, 1, k)) = IF 1 <= k THEN k - 1 + 1 ELSE 0
    BY <2>1, SubSeqProperties
  <2>3. Len(SubSeq(f, 1, k)) = k
    BY <2>1, <2>2
  <2>. QED
    BY <2>3 DEF k
<1>4. \A i \in 1 .. Len(f) - 1 : SubSeq(f, 1, Len(f) - 1)[i] = f[i]
  BY <1>1, SubSeqProperties
<1>. QED
  BY <1>1, <1>2, <1>3, <1>4 DEF Front, Last

(* What is left of a file when it ends behind the line n.                  *)
LEMMA Beginning ==
  ASSUME NEW f \in Seq(JournalLine), NEW n \in 0 .. Len(f)
  PROVE  /\ SubSeq(f, 1, n) \in Seq(JournalLine) /\ Len(SubSeq(f, 1, n)) = n
         /\ DOMAIN SubSeq(f, 1, n) = 1 .. n
         /\ \A i \in 1 .. n : SubSeq(f, 1, n)[i] = f[i]
<1>1. Len(f) \in Nat /\ \A i \in 1 .. n : f[i] \in JournalLine
  BY LenProperties, ElementOfSeq
<1>2. n \in Int /\ SubSeq(f, 1, n) \in Seq(JournalLine)
  BY <1>1, SubSeqProperties
<1>3. Len(SubSeq(f, 1, n)) = IF 1 <= n THEN n - 1 + 1 ELSE 0
  BY <1>1, <1>2, SubSeqProperties
<1>4. Len(SubSeq(f, 1, n)) = n
  BY <1>1, <1>2, <1>3
<1>5. \A i \in 1 .. n : SubSeq(f, 1, n)[i] = f[i]
  <2>1. \A i \in 1 .. n - 1 + 1 : SubSeq(f, 1, n)[i] = f[1 + i - 1]
    BY <1>1, <1>2, SubSeqProperties
  <2>. QED
    BY <1>2, <2>1
<1>6. DOMAIN SubSeq(f, 1, n) = 1 .. n
  BY <1>2, <1>4, LenProperties
<1>. QED
  BY <1>2, <1>4, <1>5, <1>6

LEMMA BeginningRises ==
  ASSUME NEW f \in Seq(JournalLine), NEW m \in Nat, Rises(f), UpTo(f, m), NEW n \in 0 .. Len(f)
  PROVE  /\ Rises(SubSeq(f, 1, n)) /\ UpTo(SubSeq(f, 1, n), m)
         /\ n < Len(f) /\ f[n + 1].parses =>
              f[n + 1].sequence <= m /\ Above(SubSeq(f, 1, n), f[n + 1].sequence)
<1>. DEFINE g == SubSeq(f, 1, n)
<1>1. Len(f) \in Nat /\ DOMAIN f = 1 .. Len(f) /\ DOMAIN g = 1 .. n /\ \A i \in 1 .. n : g[i] = f[i]
  BY Beginning, LenProperties
<1>. HIDE DEF g
<1>2. \A i \in Whole(g) : i \in Whole(f) /\ i < n + 1 /\ g[i] = f[i]
  BY <1>1 DEF Whole
<1>3. n < Len(f) /\ f[n + 1].parses => n + 1 \in Whole(f)
  BY <1>1 DEF Whole
<1>4. Rises(g) /\ UpTo(g, m)
  BY <1>1, <1>2 DEF Rises, UpTo
<1>5. n < Len(f) /\ f[n + 1].parses => f[n + 1].sequence <= m /\ Above(g, f[n + 1].sequence)
  BY <1>1, <1>2, <1>3 DEF Rises, UpTo, Above
<1>. QED
  BY <1>4, <1>5 DEF g

(* A line is put behind a file: its number is new, or does not count.      *)
LEMMA LineBehind ==
  ASSUME NEW f \in Seq(JournalLine), NEW t \in JournalLine, NEW n \in Nat,
         Rises(f), UpTo(f, n), t.parses => t.sequence <= n /\ Above(f, t.sequence)
  PROVE  /\ Append(f, t) \in Seq(JournalLine)
         /\ Rises(Append(f, t)) /\ UpTo(Append(f, t), n)
<1>1. /\ Append(f, t) \in Seq(JournalLine) /\ Len(Append(f, t)) = Len(f) + 1
      /\ \A i \in 1 .. Len(f) : Append(f, t)[i] = f[i]
      /\ Append(f, t)[Len(f) + 1] = t
  BY AppendProperties
<1>2. Len(f) \in Nat /\ DOMAIN f = 1 .. Len(f) /\ DOMAIN Append(f, t) = 1 .. Len(f) + 1
  BY <1>1, LenProperties
<1>3. \A i \in Whole(Append(f, t)) :
         \/ i \in Whole(f) /\ i \in 1 .. Len(f) /\ Append(f, t)[i] = f[i]
         \/ i = Len(f) + 1 /\ Append(f, t)[i] = t /\ t.parses
  BY <1>1, <1>2 DEF Whole
<1>. QED
  BY <1>1, <1>2, <1>3 DEF Rises, UpTo, Above

LEMMA FrontRises ==
  ASSUME NEW f \in Seq(JournalLine), NEW n \in Nat, f # <<>>, Rises(f), UpTo(f, n)
  PROVE  /\ Rises(Front(f)) /\ UpTo(Front(f), n)
         /\ Last(f).parses => Last(f).sequence <= n /\ Above(Front(f), Last(f).sequence)
<1>1. DOMAIN f = 1 .. Len(f) /\ DOMAIN Front(f) = 1 .. Len(f) - 1
  BY FrontOfFile, LenProperties
<1>2. Len(f) \in Nat \ {0} /\ \A i \in 1 .. Len(f) - 1 : Front(f)[i] = f[i]
  BY FrontOfFile
<1>3. \A i \in Whole(Front(f)) : i \in Whole(f) /\ i < Len(f) /\ Front(f)[i] = f[i]
  BY <1>1, <1>2 DEF Whole
<1>4. Last(f).parses => Len(f) \in Whole(f) /\ f[Len(f)] = Last(f)
  BY <1>1, <1>2 DEF Whole, Last
<1>. QED
  BY <1>3, <1>4 DEF Rises, UpTo, Above

LEMMA LineTorn ==
  ASSUME NEW t \in JournalLine, NEW q \in BOOLEAN, NEW b \in Nat
  PROVE  /\ [t EXCEPT !.parses = FALSE, !.newline = q, !.bytes = b] \in JournalLine
         /\ ~[t EXCEPT !.parses = FALSE, !.newline = q, !.bytes = b].parses
  BY Zenon DEF JournalLine

LEMMA LineCompleted ==
  ASSUME NEW t \in JournalLine, NEW b \in Nat
  PROVE  /\ [t EXCEPT !.bytes = b, !.newline = TRUE] \in JournalLine
         /\ [t EXCEPT !.bytes = b, !.newline = TRUE].sequence = t.sequence
         /\ [t EXCEPT !.bytes = b, !.newline = TRUE].id = t.id
         /\ [t EXCEPT !.bytes = b, !.newline = TRUE].parses <=> t.parses
  BY Zenon DEF JournalLine

LEMMA GluedRises ==
  ASSUME NEW f \in Seq(JournalLine), NEW t \in JournalLine, NEW n \in Nat,
         Rises(f), UpTo(f, n), t.parses => t.sequence <= n /\ Above(f, t.sequence)
  PROVE  Glued(f, t) \in Seq(JournalLine) /\ Rises(Glued(f, t)) /\ UpTo(Glued(f, t), n)
<1>1. CASE f # <<>> /\ ~Last(f).newline
  <2>. DEFINE l == [Last(f) EXCEPT !.parses = FALSE, !.newline = t.newline, !.bytes = @ + t.bytes]
  <2>1. l \in JournalLine /\ ~l.parses
    <3>1. Last(f) \in JournalLine
      BY <1>1, FrontOfFile
    <3>2. t.newline \in BOOLEAN
      BY Zenon DEF JournalLine
    <3>3. Last(f).bytes + t.bytes \in Nat
      BY <3>1 DEF JournalLine
    <3>. QED
      BY <3>1, <3>2, <3>3, LineTorn, Zenon
  <2>2. Glued(f, t) = Append(Front(f), l)
    BY <1>1 DEF Glued
  <2>. HIDE DEF l
  <2>. QED
    BY <1>1, <2>1, <2>2, FrontOfFile, FrontRises, LineBehind
<1>2. CASE ~(f # <<>> /\ ~Last(f).newline)
  BY <1>2, LineBehind DEF Glued
<1>. QED
  BY <1>1, <1>2

LEMMA TextIsLine ==
  ASSUME NEW r, r.id \in Nat, r.sequence \in Nat, NEW form \in {"whole", "bare", "torn"}
  PROVE  /\ Text(r, form) \in JournalLine /\ Text(r, form).sequence = r.sequence
         /\ Text(r, form).parses <=> form # "torn"
  BY DEF Text, JournalLine

LEMMA RepairedRises ==
  ASSUME NEW f \in Seq(JournalLine), NEW n \in Nat, Rises(f), UpTo(f, n)
  PROVE  /\ Repaired(f) \in Seq(JournalLine) /\ Rises(Repaired(f)) /\ UpTo(Repaired(f), n)
<1>1. CASE f = <<>>
  BY <1>1 DEF Repaired
<1>2. CASE f # <<>> /\ ~Last(f).parses
  BY <1>2, FrontOfFile, FrontRises DEF Repaired
<1>3. CASE f # <<>> /\ Last(f).parses
  <2>. DEFINE l == [Last(f) EXCEPT !.bytes = IF Last(f).newline THEN @ ELSE @ + 1,
                                   !.newline = TRUE]
  <2>1. l \in JournalLine /\ l.sequence = Last(f).sequence
    <3>1. Last(f) \in JournalLine
      BY <1>3, FrontOfFile
    <3>2. (IF Last(f).newline THEN Last(f).bytes ELSE Last(f).bytes + 1) \in Nat
      BY <3>1 DEF JournalLine
    <3>. QED
      BY <3>1, <3>2, LineCompleted, Zenon
  <2>2. Repaired(f) = Append(Front(f), l)
    BY <1>3 DEF Repaired
  <2>. HIDE DEF l
  <2>. QED
    BY <1>3, <2>1, <2>2, FrontOfFile, FrontRises, LineBehind
<1>. QED
  BY <1>1, <1>2, <1>3

-----------------------------------------------------------------------------
(* The highest number of a file: bounded, so it exists.                    *)
LEMMA HighestIsNumber ==
  ASSUME NEW f \in Seq(JournalLine), NEW n \in Nat, UpTo(f, n)
  PROVE  Highest(f) \in Nat /\ Highest(f) <= n
<1>. DEFINE S == {0} \cup {f[i].sequence : i \in Whole(f)}
            T == {n - x : x \in S}
<1>1. S \subseteq 0 .. n
  <2>1. \A i \in Whole(f) : f[i] \in JournalLine
    BY ElementOfSeq, LenProperties DEF Whole
  <2>. QED
    BY <2>1 DEF UpTo, JournalLine
<1>2. T \subseteq Nat /\ T # {}
  <2>1. n - 0 \in T
    OBVIOUS
  <2>2. ASSUME NEW x \in S PROVE n - x \in Nat
    <3>1. x \in 0 .. n
      BY <1>1
    <3>. HIDE DEF S
    <3>. QED
      BY <3>1
  <2>. QED
    BY <2>1, <2>2
<1>3. PICK y \in T : \A z \in T : <<z, y>> \notin OpToRel(<, Nat)
  BY <1>2, WFMin, NatLessThanWellFounded
<1>4. \A z \in T : ~(z < y)
  BY <1>2, <1>3 DEF OpToRel
<1>5. PICK x \in S : y = n - x
  OBVIOUS
<1>6. ASSUME NEW z \in S PROVE x >= z
  <2>1. n - z \in T
    OBVIOUS
  <2>2. x \in 0 .. n /\ z \in 0 .. n
    BY <1>1
  <2>. HIDE DEF S, T
  <2>. QED
    BY <1>4, <1>5, <2>1, <2>2
<1>. HIDE DEF S
<1>7. Max(S) \in S
  BY <1>6 DEF Max
<1>. QED
  BY <1>1, <1>7 DEF Highest, S
-----------------------------------------------------------------------------
LEMMA RiseStarts == JournalInit => RiseInv
<1>. SUFFICES ASSUME JournalInit PROVE RiseInv
  OBVIOUS
<1>1. \A i \in DOMAIN <<>> : FALSE
  OBVIOUS
<1>2. Rises(<<>>) /\ UpTo(<<>>, 0)
  BY <1>1 DEF Rises, UpTo, Whole
<1>. QED
  BY <1>2, EmptySeq DEF JournalInit, RiseInv, JournalTypeOK, HolderInv, NumbersInv, RecordInv,
     Outside, Nil

LEMMA Troubled ==
  ASSUME spent \in [appends : Nat, troubles : Nat], Trouble \/ UNCHANGED spent
  PROVE  spent' \in [appends : Nat, troubles : Nat]
<1>1. CASE Trouble
  BY <1>1 DEF Trouble
<1>. QED
  BY <1>1

LEMMA BeginKeeps ==
  ASSUME RiseInv, NEW w \in Writers,
         AppendRecord(w) \/ \E call \in {"open", "read"} : Begin(w, call)
  PROVE  RiseInv'
<1>1. pc[w] \in Outside /\ lock = NoWriter /\ lock' = w /\ UNCHANGED <<store, floor>>
  BY DEF AppendRecord, Begin, Outside, store
<1>2. pc' \in {[pc EXCEPT ![w] = "repair"], [pc EXCEPT ![w] = "sequence"]}
  BY DEF AppendRecord, Begin, Goto
<1>3. /\ spent' \in [appends : Nat, troubles : Nat]
      /\ record' \in [Writers -> [id : Nat, sequence : Nat]]
      /\ \A v \in Writers \ {w} : record'[v] = record[v]
  <2>1. CASE AppendRecord(w)
    <3>1. spent.appends + 1 \in Nat /\ spent' = [spent EXCEPT !.appends = @ + 1]
      BY <2>1 DEF AppendRecord, RiseInv, JournalTypeOK
    <3>2. [id |-> spent.appends + 1, sequence |-> 0] \in [id : Nat, sequence : Nat]
      BY <3>1
    <3>. QED
      BY <2>1, <3>1, <3>2 DEF AppendRecord, RiseInv, JournalTypeOK
  <2>2. CASE \E call \in {"open", "read"} : Begin(w, call)
    BY <2>2 DEF Begin, RiseInv, JournalTypeOK
  <2>. QED
    BY <2>1, <2>2
<1>4. \A v \in Writers : pc[v] \in Outside
  BY <1>1, WritersAssumption DEF RiseInv, HolderInv
<1>. QED
  BY <1>1, <1>2, <1>3, <1>4 DEF RiseInv, JournalTypeOK, HolderInv, NumbersInv, RecordInv,
     store, Outside

LEMMA RepairKeeps == ASSUME RiseInv, NEW w \in Writers, Repair(w) PROVE RiseInv'
<1>. DEFINE f == Repaired(file)
<1>1. f \in Seq(JournalLine) /\ Rises(f) /\ UpTo(f, stored.safe)
  BY RepairedRises DEF RiseInv, JournalTypeOK, NumbersInv
<1>. HIDE DEF f
<1>2. file' \in {file, f} /\ disk' \in {disk, f} /\ UNCHANGED <<stored, record, floor>>
  BY DEF Repair, f, store
<1>3. /\ \E l \in {"idle", "down", "initialize", "sequence"} : pc' = [pc EXCEPT ![w] = l]
      /\ lock' \in {lock, NoWriter}
      /\ pc'[w] \notin Outside => lock' = lock
  BY DEF Repair, Throw, AfterRepair, Return, Goto, Outside, RiseInv, JournalTypeOK
<1>4. spent' \in [appends : Nat, troubles : Nat]
  BY Troubled DEF Repair, RiseInv, JournalTypeOK
<1>5. pc[w] = "repair" /\ \A v \in Writers \ {w} : pc[v] \in Outside
  BY DEF Repair, RiseInv, HolderInv, Outside
<1>6. JournalTypeOK'
  BY <1>1, <1>2, <1>3, <1>4 DEF RiseInv, JournalTypeOK, Outside
<1>7. HolderInv'
  BY <1>3, <1>5 DEF RiseInv, JournalTypeOK, HolderInv, Outside
<1>8. NumbersInv'
  BY <1>1, <1>2 DEF RiseInv, NumbersInv
<1>9. RecordInv'
  BY <1>3, <1>5 DEF RiseInv, JournalTypeOK, RecordInv, Outside
<1>. QED
  BY <1>6, <1>7, <1>8, <1>9 DEF RiseInv
LEMMA NumbersGrow ==
  ASSUME NEW f \in Seq(JournalLine), NEW n \in Nat, NEW m \in Nat, UpTo(f, n), n <= m
  PROVE  UpTo(f, m) /\ (n < m => Above(f, m))
<1>1. \A i \in Whole(f) : f[i] \in JournalLine
  BY LenProperties, ElementOfSeq DEF Whole
<1>. QED
  BY <1>1 DEF UpTo, Above, JournalLine

(* Where a step inside the lock leads, and who holds the lock then.        *)
Leads(w, l) ==
  /\ pc' = [pc EXCEPT ![w] = l] /\ lock' \in {lock, NoWriter}
  /\ l \notin Outside => lock' = lock

LEMMA NumberKeeps ==
  ASSUME RiseInv, NEW w \in Writers, InitializeSequence(w) \/ NextSequence(w)
  PROVE  RiseInv'
<1>1. /\ UNCHANGED <<file, disk>> /\ pc[w] \in {"initialize", "sequence"}
      /\ \A v \in Writers \ {w} : pc[v] \in Outside
  BY DEF InitializeSequence, NextSequence, RiseInv, HolderInv, Outside
<1>2. spent' \in [appends : Nat, troubles : Nat]
  BY Troubled DEF InitializeSequence, NextSequence, StoreFails, RiseInv, JournalTypeOK
<1>3. ASSUME NEW n \in Nat, n >= stored.now, StoreSequence(n) \/ StoreFails(n) \/ UNCHANGED stored
      PROVE  /\ stored' \in [now : Nat, safe : Nat] /\ stored'.safe >= stored.safe
             /\ stored'.safe <= stored'.now
  <2>1. CASE StoreFails(n)
    BY <1>3, <2>1 DEF StoreFails, RiseInv, JournalTypeOK, NumbersInv
  <2>2. CASE StoreSequence(n)
    BY <1>3, <2>2 DEF StoreSequence, RiseInv, JournalTypeOK, NumbersInv
  <2>. QED
    BY <1>3, <2>1, <2>2 DEF RiseInv, JournalTypeOK, NumbersInv
<1>4. CASE InitializeSequence(w)
  <2>. DEFINE top == Larger(stored.now, Highest(file))
  <2>1. top \in Nat /\ top >= stored.now
    <3>1. Highest(file) \in Nat
      BY HighestIsNumber DEF RiseInv, JournalTypeOK, NumbersInv
    <3>. QED
      BY <3>1 DEF Larger, RiseInv, JournalTypeOK
  <2>2. floor' = [floor EXCEPT ![w] = top] /\ UNCHANGED record
    BY <1>4 DEF InitializeSequence
  <2>3. StoreSequence(top) \/ StoreFails(top) \/ UNCHANGED stored
    BY <1>4 DEF InitializeSequence
  <2>4. \E l \in Outside : Leads(w, l)
    BY <1>4 DEF InitializeSequence, Return, Throw, Goto, Leads, Outside
  <2>. HIDE DEF top
  <2>5. /\ stored' \in [now : Nat, safe : Nat] /\ stored'.safe >= stored.safe
        /\ stored'.safe <= stored'.now
    BY <1>3, <2>1, <2>3
  <2>6. JournalTypeOK' /\ HolderInv' /\ RecordInv'
    BY <1>1, <1>2, <2>1, <2>2, <2>4, <2>5 DEF RiseInv, JournalTypeOK, HolderInv, RecordInv,
       Outside, Leads
  <2>7. stored.safe \in Nat /\ stored'.safe \in Nat
    BY <2>5 DEF RiseInv, JournalTypeOK
  <2>8. UpTo(file, stored'.safe) /\ UpTo(disk, stored'.safe)
    BY <2>5, <2>7, NumbersGrow DEF RiseInv, JournalTypeOK, NumbersInv
  <2>9. NumbersInv'
    BY <1>1, <2>5, <2>8 DEF RiseInv, NumbersInv
  <2>. QED
    BY <2>6, <2>9 DEF RiseInv
<1>5. CASE NextSequence(w)
  <2>. DEFINE n == Larger(stored.now, floor[w]) + 1
  <2>1. n \in Nat /\ n > stored.now
    BY DEF Larger, RiseInv, JournalTypeOK
  <2>2. \/ /\ stored' = [now |-> n, safe |-> n] /\ floor' = [floor EXCEPT ![w] = n]
           /\ record' = [record EXCEPT ![w].sequence = n] /\ Leads(w, "write")
        \/ StoreFails(n) /\ UNCHANGED <<floor, record>> /\ \E l \in Outside : Leads(w, l)
    BY <1>5 DEF NextSequence, StoreSequence, Throw, Goto, Leads, Outside
  <2>. HIDE DEF n
  <2>3. CASE /\ stored' = [now |-> n, safe |-> n] /\ floor' = [floor EXCEPT ![w] = n]
             /\ record' = [record EXCEPT ![w].sequence = n] /\ Leads(w, "write")
    <3>1. /\ record' \in [Writers -> [id : Nat, sequence : Nat]]
          /\ record'[w].sequence = n
      BY <2>1, <2>3 DEF RiseInv, JournalTypeOK
    <3>2. Above(file, n) /\ UpTo(file, n) /\ UpTo(disk, n)
      <4>1. stored.safe \in Nat /\ stored.safe < n
        BY <2>1 DEF RiseInv, JournalTypeOK, NumbersInv
      <4>. QED
        BY <2>1, <4>1, NumbersGrow DEF RiseInv, JournalTypeOK, NumbersInv
    <3>. QED
      <4>1. stored' \in [now : Nat, safe : Nat] /\ stored'.safe = n /\ stored'.now = n
        BY <2>1, <2>3
      <4>2. JournalTypeOK' /\ HolderInv'
        BY <1>1, <1>2, <2>1, <2>3, <3>1, <4>1 DEF RiseInv, JournalTypeOK, HolderInv, Outside, Leads
      <4>3. NumbersInv'
        BY <1>1, <2>1, <3>2, <4>1 DEF RiseInv, NumbersInv
      <4>4. RecordInv'
        <5>1. ASSUME NEW v \in Writers, pc'[v] = "write" PROVE v = w
          BY <1>1, <2>3, <5>1 DEF Leads, Outside, RiseInv, JournalTypeOK
        <5>2. record'[w].sequence <= stored'.safe /\ Above(file, record'[w].sequence)
          BY <2>1, <3>1, <3>2, <4>1
        <5>3. file' = file
          BY <1>1
        <5>. QED
          BY <5>1, <5>2, <5>3 DEF RecordInv, Above, Whole
      <4>. QED
        BY <4>2, <4>3, <4>4 DEF RiseInv
  <2>4. CASE StoreFails(n) /\ UNCHANGED <<floor, record>> /\ \E l \in Outside : Leads(w, l)
    <3>1. /\ stored' \in [now : Nat, safe : Nat] /\ stored'.safe = stored.safe
          /\ stored'.safe <= stored'.now
      <4>1. CASE stored' = stored
        BY <4>1 DEF RiseInv, JournalTypeOK, NumbersInv
      <4>2. CASE stored' = [stored EXCEPT !.now = n]
        <5>1. stored \in [now : Nat, safe : Nat] /\ stored.safe <= stored.now
          BY DEF RiseInv, JournalTypeOK, NumbersInv
        <5>. QED
          BY <2>1, <4>2, <5>1
      <4>. QED
        BY <2>4, <4>1, <4>2 DEF StoreFails
    <3>2. PICK l \in Outside : Leads(w, l)
      BY <2>4
    <3>3. JournalTypeOK'
      BY <1>1, <1>2, <2>4, <3>1, <3>2 DEF RiseInv, JournalTypeOK, Outside, Leads
    <3>4. HolderInv'
      BY <1>1, <3>2 DEF RiseInv, JournalTypeOK, HolderInv, Outside, Leads
    <3>5. NumbersInv'
      BY <1>1, <3>1 DEF RiseInv, NumbersInv
    <3>6. RecordInv'
      BY <1>1, <3>2 DEF RiseInv, JournalTypeOK, RecordInv, Outside, Leads
    <3>. QED
      BY <3>3, <3>4, <3>5, <3>6 DEF RiseInv
  <2>. QED
    BY <2>2, <2>3, <2>4
<1>. QED
  BY <1>4, <1>5

(* A record is written, whole or not, by its holder or by its death.       *)
LEMMA TextKeeps ==
  ASSUME RiseInv, NEW w \in Writers, pc[w] = "write", NEW form \in {"whole", "bare", "torn"},
         file' = Glued(file, Text(record[w], form))
  PROVE  file' \in Seq(JournalLine) /\ Rises(file') /\ UpTo(file', stored.safe)
<1>1. record[w].id \in Nat /\ record[w].sequence \in Nat
  BY DEF RiseInv, JournalTypeOK
<1>2. /\ Text(record[w], form) \in JournalLine
      /\ Text(record[w], form).sequence = record[w].sequence
  BY <1>1, TextIsLine
<1>. QED
  BY <1>2, GluedRises DEF RiseInv, JournalTypeOK, NumbersInv, RecordInv

LEMMA WriteKeeps ==
  ASSUME RiseInv, NEW w \in Writers, Write(w) \/ Sync(w) \/ CloseJournal(w)
  PROVE  RiseInv'
<1>1. UNCHANGED <<stored, record, floor>>
  BY DEF Write, Sync, CloseJournal, store
<1>2. spent' \in [appends : Nat, troubles : Nat]
  BY Troubled DEF Write, Sync, CloseJournal, RiseInv, JournalTypeOK
<1>3. file' \in Seq(JournalLine) /\ Rises(file') /\ UpTo(file', stored.safe)
  <2>1. UNCHANGED file \/ \E form \in {"whole", "bare", "torn"} :
                            pc[w] = "write" /\ file' = Glued(file, Text(record[w], form))
    BY DEF Write, Sync, CloseJournal, store
  <2>. QED
    BY <2>1, TextKeeps DEF RiseInv, JournalTypeOK, NumbersInv
<1>4. disk' \in {disk, file}
  BY DEF Write, Sync, CloseJournal, store
<1>5. (\E l \in Outside : Leads(w, l)) \/ (pc[w] = "write" /\ Leads(w, "sync"))
  BY DEF Write, Sync, CloseJournal, Return, Throw, Goto, Leads, Outside
<1>6. UNCHANGED <<file, lock>> \/ \A v \in Writers \ {w} : pc[v] \in Outside
  BY DEF Write, Sync, CloseJournal, store, RiseInv, HolderInv, Outside
<1>7. JournalTypeOK'
  BY <1>1, <1>2, <1>3, <1>4, <1>5 DEF RiseInv, JournalTypeOK, Outside, Leads
<1>8. HolderInv'
  BY <1>5, <1>6 DEF RiseInv, JournalTypeOK, HolderInv, Outside, Leads
<1>9. NumbersInv'
  BY <1>1, <1>3, <1>4 DEF RiseInv, NumbersInv
<1>10. RecordInv'
  <2>1. ASSUME NEW v \in Writers, pc'[v] = "write"
        PROVE  v # w /\ pc[v] = "write" /\ file' = file
    BY <1>5, <1>6, <2>1 DEF RiseInv, JournalTypeOK, Outside, Leads
  <2>. QED
    BY <1>1, <2>1 DEF RiseInv, RecordInv, Above, Whole
<1>. QED
  BY <1>7, <1>8, <1>9, <1>10 DEF RiseInv
LEMMA DeathKeeps == ASSUME RiseInv, NEW w \in Writers, Die(w) PROVE RiseInv'
<1>1. UNCHANGED <<disk, stored, record, floor>> /\ pc' = [pc EXCEPT ![w] = "down"]
  BY DEF Die, Goto
<1>2. spent' \in [appends : Nat, troubles : Nat]
  BY Troubled DEF Die, RiseInv, JournalTypeOK
<1>3. UNCHANGED file \/ \E form \in {"bare", "torn"} :
                          pc[w] = "write" /\ file' = Glued(file, Text(record[w], form))
  BY DEF Die
<1>4. file' \in Seq(JournalLine) /\ Rises(file') /\ UpTo(file', stored.safe)
  BY <1>3, TextKeeps DEF RiseInv, JournalTypeOK, NumbersInv
<1>5. HolderInv'
  BY <1>1 DEF Die, RiseInv, JournalTypeOK, HolderInv, Outside
<1>6. ASSUME NEW v \in Writers, pc'[v] = "write"
      PROVE  pc[v] = "write" /\ file' = file
  BY <1>1, <1>3, <1>6 DEF RiseInv, JournalTypeOK, HolderInv, Outside
<1>7. RecordInv'
  BY <1>1, <1>6 DEF RiseInv, RecordInv, Above, Whole
<1>8. JournalTypeOK' /\ NumbersInv'
  BY <1>1, <1>2, <1>4 DEF RiseInv, JournalTypeOK, NumbersInv, Outside
<1>. QED
  BY <1>5, <1>7, <1>8 DEF RiseInv

LEMMA PowerLossKeeps == ASSUME RiseInv, PowerLoss PROVE RiseInv'
<1>1. UNCHANGED <<record, floor>> /\ pc' = [v \in Writers |-> "down"] /\ disk' = file'
  BY DEF PowerLoss
<1>2. spent' \in [appends : Nat, troubles : Nat]
  BY Troubled DEF PowerLoss, RiseInv, JournalTypeOK
<1>3. PICK n \in {stored.now, stored.safe} : stored' = [now |-> n, safe |-> n]
  BY DEF PowerLoss
<1>4. n \in Nat /\ stored.safe \in Nat /\ stored.safe <= n
  BY <1>3 DEF RiseInv, JournalTypeOK, NumbersInv
<1>5. /\ file \in Seq(JournalLine) /\ Rises(file) /\ UpTo(file, n)
      /\ disk \in Seq(JournalLine) /\ Rises(disk) /\ UpTo(disk, n)
  BY <1>4, NumbersGrow DEF RiseInv, JournalTypeOK, NumbersInv
<1>6. file' \in Seq(JournalLine) /\ Rises(file') /\ UpTo(file', n)
  <2>0. Len(file) \in Nat /\ Len(disk) \in Nat /\ \A i \in 1 .. Len(file) : file[i] \in JournalLine
    BY <1>5, LenProperties, ElementOfSeq
  <2>1. CASE file' \in {file, disk}
    BY <1>5, <2>1
  <2>2. ASSUME NEW k \in Len(disk) .. Len(file), file' = SubSeq(file, 1, k)
        PROVE  file' \in Seq(JournalLine) /\ Rises(file') /\ UpTo(file', n)
    <3>1. k \in 0 .. Len(file)
      BY <2>0
    <3>. QED
      BY <1>4, <1>5, <2>2, <3>1, Beginning, BeginningRises
  <2>3. ASSUME NEW k \in Len(disk) .. Len(file) - 1, NEW form \in {"torn", "bare"},
               form = "bare" => file[k + 1].parses,
               file' = Glued(SubSeq(file, 1, k), Text(file[k + 1], form))
        PROVE  file' \in Seq(JournalLine) /\ Rises(file') /\ UpTo(file', n)
    <3>. DEFINE h == SubSeq(file, 1, k)
                l == file[k + 1]
    <3>1. k \in 0 .. Len(file) /\ k < Len(file) /\ k + 1 \in 1 .. Len(file)
      BY <2>0
    <3>2. l \in JournalLine /\ l.id \in Nat /\ l.sequence \in Nat
      BY <2>0, <3>1 DEF JournalLine
    <3>3. /\ h \in Seq(JournalLine) /\ Rises(h) /\ UpTo(h, n)
          /\ l.parses => l.sequence <= n /\ Above(h, l.sequence)
      BY <1>4, <1>5, <3>1, Beginning, BeginningRises
    <3>5. file' = Glued(h, Text(l, form))
      BY <2>3
    <3>. HIDE DEF h, l
    <3>4. /\ Text(l, form) \in JournalLine /\ Text(l, form).sequence = l.sequence
          /\ Text(l, form).parses => l.parses
      BY <2>3, <3>2, TextIsLine DEF l
    <3>. QED
      BY <1>4, <3>3, <3>4, <3>5, GluedRises
  <2>. QED
    BY <2>1, <2>2, <2>3 DEF PowerLoss
<1>7. JournalTypeOK' /\ NumbersInv'
  BY <1>1, <1>2, <1>3, <1>4, <1>6 DEF RiseInv, JournalTypeOK, NumbersInv, Outside
<1>. QED
  BY <1>1, <1>7 DEF RiseInv, HolderInv, RecordInv, Outside

LEMMA RiseInvHolds == JournalSpec => []RiseInv
<1>1. RiseInv /\ [JournalNext]_journalVars => RiseInv'
  <2>. SUFFICES ASSUME RiseInv, [JournalNext]_journalVars PROVE RiseInv'
    OBVIOUS
  <2>1. CASE UNCHANGED journalVars
    BY <2>1 DEF journalVars, store, local, RiseInv, JournalTypeOK, HolderInv, NumbersInv, RecordInv,
       Rises, UpTo, Above, Whole
  <2>2. ASSUME NEW w \in Writers,
               \/ \E call \in {"open", "read"} : Begin(w, call)
               \/ AppendRecord(w) \/ Step(w) \/ CloseJournal(w) \/ Die(w)
        PROVE  RiseInv'
    BY <2>2, BeginKeeps, RepairKeeps, NumberKeeps, WriteKeeps, DeathKeeps DEF Step
  <2>3. CASE PowerLoss
    BY <2>3, PowerLossKeeps
  <2>. QED
    BY <2>1, <2>2, <2>3 DEF JournalNext
<1>. QED
  BY <1>1, RiseStarts, PTL DEF JournalSpec

-----------------------------------------------------------------------------
(* For any handles, records, deaths and power losses: the numbers of the   *)
(* records rise along the file.                                            *)
THEOREM NumbersAlwaysRise == JournalSpec => []SequencesRise
<1>1. RiseInv => SequencesRise
  BY DEF RiseInv, NumbersInv, Rises, SequencesRise
<1>. QED
  BY <1>1, RiseInvHolds, PTL

(* No repair removes a record that is whole, whatever the file is.         *)
THEOREM RepairsKeepRecords == JournalSpec => RepairKeepsRecords
<1>. DEFINE Ids(f) == {f[i].id : i \in Whole(f)}
            Step1 == (\E w \in Writers : Repair(w)) => Ids(file) \subseteq Ids(file')
<1>1. ASSUME NEW f \in Seq(JournalLine) PROVE Ids(f) \subseteq Ids(Repaired(f))
  <2>. SUFFICES ASSUME NEW i \in Whole(f)
                PROVE  \E j \in Whole(Repaired(f)) : Repaired(f)[j].id = f[i].id
    OBVIOUS
  <2>1. f # <<>> /\ DOMAIN f = 1 .. Len(f)
    BY LenProperties DEF Whole
  <2>2. /\ DOMAIN Front(f) = 1 .. Len(f) - 1 /\ Len(f) \in Nat \ {0}
        /\ \A j \in 1 .. Len(f) - 1 : Front(f)[j] = f[j]
    BY <2>1, FrontOfFile, LenProperties
  <2>3. CASE ~Last(f).parses
    BY <2>1, <2>2, <2>3 DEF Repaired, Whole, Last
  <2>4. CASE Last(f).parses
    <3>. DEFINE l == [Last(f) EXCEPT !.bytes = IF Last(f).newline THEN @ ELSE @ + 1,
                                     !.newline = TRUE]
    <3>1. l \in JournalLine /\ l.id = Last(f).id /\ l.parses
      <4>1. Last(f) \in JournalLine
        BY <2>1, FrontOfFile
      <4>2. (IF Last(f).newline THEN Last(f).bytes ELSE Last(f).bytes + 1) \in Nat
        BY <4>1 DEF JournalLine
      <4>. QED
        BY <2>4, <4>1, <4>2, LineCompleted, Zenon
    <3>2. Repaired(f) = Append(Front(f), l)
      BY <2>1, <2>4 DEF Repaired
    <3>. HIDE DEF l
    <3>3. /\ DOMAIN Repaired(f) = 1 .. Len(f) /\ Repaired(f)[Len(f)] = l
          /\ \A j \in 1 .. Len(f) - 1 : Repaired(f)[j] = f[j]
      <4>. DEFINE g == Front(f)
      <4>1. g \in Seq(JournalLine) /\ Len(g) = Len(f) - 1
        BY <2>1, FrontOfFile
      <4>. HIDE DEF g
      <4>2. /\ Append(g, l) \in Seq(JournalLine) /\ Len(Append(g, l)) = Len(g) + 1
            /\ Append(g, l)[Len(g) + 1] = l
            /\ \A j \in 1 .. Len(g) : Append(g, l)[j] = g[j]
        BY <3>1, <4>1, AppendProperties
      <4>3. DOMAIN Append(g, l) = 1 .. Len(f)
        BY <2>2, <4>1, <4>2, LenProperties
      <4>. QED
        BY <2>2, <3>2, <4>1, <4>2, <4>3 DEF g
    <3>. QED
      BY <2>1, <2>2, <3>1, <3>3 DEF Whole, Last
  <2>. QED
    BY <2>3, <2>4
<1>2. RiseInv => Step1
  <2>. SUFFICES ASSUME RiseInv, NEW w \in Writers, Repair(w)
                PROVE  Ids(file) \subseteq Ids(file')
    OBVIOUS
  <2>1. file' = file \/ file' = Repaired(file)
    BY DEF Repair, store
  <2>2. Ids(file) \subseteq Ids(Repaired(file))
    BY <1>1 DEF RiseInv, JournalTypeOK
  <2>. QED
    BY <2>1, <2>2, Zenon
<1>3. RiseInv /\ [JournalNext]_journalVars => [Step1]_journalVars
  BY <1>2
<1>. QED
  BY <1>3, RiseInvHolds, PTL DEF JournalSpec, RepairKeepsRecords

-----------------------------------------------------------------------------
(* The size of a file is a sum, in whatever order.                         *)
Bytes(f) == [i \in DOMAIN f |-> f[i].bytes]

LEMMA SizeIsTotal == ASSUME NEW f PROVE Size(f) = Total(Bytes(f), DOMAIN f)
  BY DEF Size, Total, Walk, Turn, First, Rest, Bytes, FoldSeq, FoldFunction,
     FoldFunctionOnSet, MapThenFoldSet

LEMMA BytesCounted ==
  ASSUME NEW f \in Seq(JournalLine)
  PROVE  /\ Bytes(f) \in [DOMAIN f -> Nat] /\ DOMAIN f = 1 .. Len(f) /\ Len(f) \in Nat
         /\ IsFiniteSet(DOMAIN f)
<1>1. DOMAIN f = 1 .. Len(f) /\ Len(f) \in Nat /\ \A i \in 1 .. Len(f) : f[i] \in JournalLine
  BY LenProperties, ElementOfSeq
<1>2. \A i \in DOMAIN f : f[i].bytes \in Nat
  BY <1>1 DEF JournalLine
<1>3. IsFiniteSet(1 .. Len(f))
  BY <1>1, FS_Interval
<1>. QED
  BY <1>1, <1>2, <1>3 DEF Bytes

LEMMA SizeIsNumber ==
  ASSUME NEW f \in Seq(JournalLine) PROVE Size(f) \in Nat /\ (f = <<>> => Size(f) = 0)
<1>1. f = <<>> => DOMAIN f = {}
  OBVIOUS
<1>. QED
  BY <1>1, SizeIsTotal, BytesCounted, TotalIsNumber

LEMMA SizeOfOneMore ==
  ASSUME NEW f \in Seq(JournalLine), NEW g \in Seq(JournalLine), Len(g) = Len(f) + 1,
         \A i \in 1 .. Len(f) : g[i] = f[i]
  PROVE  Size(g) = Size(f) + g[Len(g)].bytes
<1>. DEFINE L == DOMAIN g
            x == Len(g)
<1>1. /\ Bytes(f) \in [DOMAIN f -> Nat] /\ DOMAIN f = 1 .. Len(f) /\ Len(f) \in Nat
      /\ Bytes(g) \in [L -> Nat] /\ L = 1 .. Len(g) /\ IsFiniteSet(L)
  BY BytesCounted
<1>2. x \in L /\ L \ {x} = DOMAIN f
  BY <1>1
<1>3. \A y \in L \ {x} : Bytes(f)[y] = Bytes(g)[y]
  BY <1>1, <1>2 DEF Bytes
<1>4. Total(Bytes(g), L) = Bytes(g)[x] + Total(Bytes(f), L \ {x})
  <2>1. Bytes(f) \in [L \ {x} -> Nat]
    BY <1>1, <1>2
  <2>2. \A y \in L \ {x} : Bytes(f)[y] = Bytes(g)[y]
    BY <1>3
  <2>. DEFINE F == Bytes(f)
              H == Bytes(g)
  <2>3. H \in [L -> Nat] /\ F \in [L \ {x} -> Nat] /\ IsFiniteSet(L) /\ x \in L
    BY <1>1, <1>2, <2>1
  <2>4. \A y \in L \ {x} : F[y] = H[y]
    BY <2>2
  <2>. HIDE DEF L, x, F, H
  <2>5. Total(H, L) = H[x] + Total(F, L \ {x})
    BY <2>3, <2>4, TotalOfOneMore
  <2>. QED
    BY <2>5 DEF F, H
<1>5. Size(g) = Bytes(g)[x] + Size(f)
  BY <1>2, <1>4, SizeIsTotal
<1>6. Bytes(g)[x] = g[Len(g)].bytes /\ Bytes(g)[x] \in Nat
  BY <1>1, <1>2 DEF Bytes
<1>. QED
  BY <1>5, <1>6, SizeIsNumber

LEMMA SizeOfAppended ==
  ASSUME NEW f \in Seq(JournalLine), NEW t \in JournalLine
  PROVE  Size(Append(f, t)) = Size(f) + t.bytes
<1>1. /\ Append(f, t) \in Seq(JournalLine) /\ Len(Append(f, t)) = Len(f) + 1
      /\ \A i \in 1 .. Len(f) : Append(f, t)[i] = f[i]
      /\ Append(f, t)[Len(f) + 1] = t
  BY AppendProperties
<1>. QED
  BY <1>1, SizeOfOneMore

LEMMA SizeOfFront ==
  ASSUME NEW f \in Seq(JournalLine), f # <<>>
  PROVE  Size(f) = Size(Front(f)) + Last(f).bytes
<1>1. /\ Front(f) \in Seq(JournalLine) /\ Len(f) \in Nat \ {0}
      /\ Len(Front(f)) = Len(f) - 1
      /\ \A i \in 1 .. Len(f) - 1 : Front(f)[i] = f[i]
  BY FrontOfFile
<1>2. Len(f) = Len(Front(f)) + 1
  BY <1>1
<1>. QED
  BY <1>1, <1>2, SizeOfOneMore DEF Last

(* Files whose last line alone may be torn; those that end with a newline. *)
Tidy(f)  == \A i \in DOMAIN f : i < Len(f) => f[i].parses /\ f[i].newline
Ended(f) == f # <<>> => Last(f).parses /\ Last(f).newline
LineOf(l, n) ==
  /\ l.id \in 1 .. n /\ l.sequence \in 0 .. n
  /\ l.bytes \in 1 .. 3 /\ (~l.newline => l.bytes <= 2)
Lined(f, n) == \A i \in DOMAIN f : LineOf(f[i], n)
(* What of the size of a file no repair takes away.                        *)
Base(f) == IF Ended(f) THEN Size(f) ELSE Size(Front(f))
(* The records of a file are in another one, in their places.              *)
Kept(f, g) == \A i \in Whole(f) : i \in Whole(g) /\ g[i].id = f[i].id

LEMMA LinesOfFile ==
  ASSUME NEW f \in Seq(JournalLine)
  PROVE  /\ DOMAIN f = 1 .. Len(f) /\ Len(f) \in Nat /\ (f = <<>> <=> Len(f) = 0)
         /\ \A i \in DOMAIN f : f[i] \in JournalLine
  BY LenProperties, ElementOfSeq, EmptySeq

LEMMA FrontTidy ==
  ASSUME NEW f \in Seq(JournalLine), f # <<>>, Tidy(f), NEW n \in Nat, Lined(f, n)
  PROVE  /\ Front(f) \in Seq(JournalLine)
         /\ Tidy(Front(f)) /\ Ended(Front(f)) /\ Lined(Front(f), n)
         /\ LineOf(Last(f), n) /\ Last(f) \in JournalLine
<1>. DEFINE g == Front(f)
<1>1. /\ g \in Seq(JournalLine) /\ Len(f) \in Nat \ {0} /\ Len(g) = Len(f) - 1
      /\ \A i \in 1 .. Len(f) - 1 : g[i] = f[i]
      /\ Last(f) \in JournalLine
  BY FrontOfFile
<1>2. DOMAIN g = 1 .. Len(f) - 1 /\ DOMAIN f = 1 .. Len(f) /\ (g = <<>> <=> Len(g) = 0)
  BY <1>1, LinesOfFile
<1>. HIDE DEF g
<1>3. \A i \in DOMAIN g : i \in DOMAIN f /\ i < Len(f) /\ g[i] = f[i]
  BY <1>1, <1>2
<1>4. Tidy(g) /\ Lined(g, n)
  BY <1>3 DEF Tidy, Lined
<1>5. Ended(g)
  <2>1. g # <<>> => Len(g) \in DOMAIN g
    BY <1>1, <1>2
  <2>. QED
    BY <1>3, <2>1 DEF Ended, Last, Tidy
<1>6. LineOf(Last(f), n)
  BY <1>1, <1>2 DEF Last, Lined
<1>. QED
  BY <1>1, <1>4, <1>5, <1>6 DEF g

LEMMA BeginningTidy ==
  ASSUME NEW f \in Seq(JournalLine), Tidy(f), NEW m \in Nat, Lined(f, m),
         NEW g, NEW n \in 0 .. Len(f), g = SubSeq(f, 1, n)
  PROVE  /\ g \in Seq(JournalLine) /\ Tidy(g) /\ Lined(g, m)
         /\ n < Len(f) => Ended(g) /\ f[n + 1] \in JournalLine /\ LineOf(f[n + 1], m)
         /\ \A d \in Seq(JournalLine) : Len(d) <= n /\ Kept(d, f) => Kept(d, g)
<1>1. /\ g \in Seq(JournalLine) /\ Len(g) = n /\ DOMAIN g = 1 .. n
      /\ \A i \in 1 .. n : g[i] = f[i]
  BY Beginning
<1>2. /\ Len(f) \in Nat /\ DOMAIN f = 1 .. Len(f) /\ (g = <<>> <=> Len(g) = 0)
      /\ \A i \in DOMAIN f : f[i] \in JournalLine
  BY <1>1, LinesOfFile
<1>3. \A i \in DOMAIN g : i \in DOMAIN f /\ i <= n /\ g[i] = f[i]
  BY <1>1, <1>2
<1>4. Tidy(g) /\ Lined(g, m)
  BY <1>1, <1>2, <1>3 DEF Tidy, Lined
<1>5. ASSUME n < Len(f) PROVE Ended(g) /\ f[n + 1] \in JournalLine /\ LineOf(f[n + 1], m)
  <2>1. g # <<>> => Len(g) \in DOMAIN g /\ Len(g) < Len(f)
    BY <1>1, <1>2, <1>5
  <2>2. n + 1 \in DOMAIN f
    BY <1>2, <1>5
  <2>. QED
    BY <1>2, <1>3, <2>1, <2>2 DEF Ended, Last, Tidy, Lined
<1>6. ASSUME NEW d \in Seq(JournalLine), Len(d) <= n, Kept(d, f) PROVE Kept(d, g)
  <2>1. DOMAIN d = 1 .. Len(d) /\ Len(d) \in Nat
    BY LinesOfFile
  <2>2. \A i \in Whole(d) : i \in 1 .. n /\ i \in Whole(f) /\ f[i].id = d[i].id
    BY <1>6, <2>1 DEF Kept, Whole
  <2>. QED
    BY <1>1, <2>2 DEF Kept, Whole
<1>. QED
  BY <1>1, <1>4, <1>5, <1>6

LEMMA TextBehind ==
  ASSUME NEW f \in Seq(JournalLine), Tidy(f), Ended(f), NEW n \in Nat, Lined(f, n),
         NEW t \in JournalLine, LineOf(t, n)
  PROVE  LET g == Append(f, t) IN
         /\ Glued(f, t) = g /\ g \in Seq(JournalLine)
         /\ Tidy(g) /\ Lined(g, n) /\ Size(g) = Size(f) + t.bytes /\ Size(f) \in Nat
         /\ Base(f) = Size(f) /\ Base(f) <= Base(g) /\ Base(g) \in Nat
         /\ t.parses /\ t.newline => Ended(g) /\ Base(g) = Size(g)
         /\ Kept(f, g)
         /\ t.parses => Len(g) \in Whole(g) /\ g[Len(g)].id = t.id
<1>. DEFINE g == Append(f, t)
<1>1. /\ g \in Seq(JournalLine) /\ Len(g) = Len(f) + 1
      /\ \A i \in 1 .. Len(f) : g[i] = f[i]
      /\ g[Len(f) + 1] = t
  BY AppendProperties
<1>2. /\ DOMAIN f = 1 .. Len(f) /\ Len(f) \in Nat /\ (f = <<>> <=> Len(f) = 0)
      /\ DOMAIN g = 1 .. Len(f) + 1 /\ g # <<>>
  BY <1>1, LinesOfFile
<1>3. Size(g) = Size(f) + t.bytes /\ Size(f) \in Nat
  BY SizeOfAppended, SizeIsNumber
<1>4. Glued(f, t) = g
  BY DEF Ended, Glued
<1>5. Size(g) = Size(Front(g)) + Last(g).bytes /\ Last(g) = t /\ Front(g) \in Seq(JournalLine)
  <2>. HIDE DEF g
  <2>1. Size(g) = Size(Front(g)) + Last(g).bytes
    BY <1>1, <1>2, SizeOfFront
  <2>2. Front(g) \in Seq(JournalLine)
    BY <1>1, <1>2, FrontOfFile
  <2>. QED
    BY <1>1, <2>1, <2>2 DEF Last
<1>. HIDE DEF g
<1>6. \A i \in DOMAIN g : \/ i \in DOMAIN f /\ g[i] = f[i]
                          \/ i = Len(g) /\ g[i] = t
  BY <1>1, <1>2
<1>7. Lined(g, n)
  BY <1>6 DEF Lined
<1>8. Tidy(g)
  <2>. SUFFICES ASSUME NEW i \in 1 .. Len(f) PROVE f[i].parses /\ f[i].newline
    BY <1>1, <1>2 DEF Tidy
  <2>1. CASE i < Len(f)
    BY <1>2, <2>1 DEF Tidy
  <2>2. CASE i = Len(f)
    BY <1>2, <2>2 DEF Ended, Last
  <2>3. i < Len(f) \/ i = Len(f)
    <3>1. Len(f) \in Nat /\ i \in 1 .. Len(f)
      BY <1>2
    <3>. QED
      BY ONLY <3>1
  <2>. QED
    BY <2>1, <2>2, <2>3, Zenon
<1>9. Size(Front(g)) = Size(f) /\ t.bytes \in Nat
  <2>1. Size(Front(g)) \in Nat /\ t.bytes \in Nat
    BY <1>5, SizeIsNumber DEF JournalLine
  <2>. QED
    BY <1>3, <1>5, <2>1
<1>10. Base(f) = Size(f) /\ Base(g) \in {Size(g), Size(f)}
  BY <1>9 DEF Base
<1>11. t.parses /\ t.newline => Ended(g) /\ Base(g) = Size(g)
  BY <1>5 DEF Ended, Base
<1>12. \A i \in Whole(f) : i \in Whole(g) /\ g[i] = f[i]
  BY <1>1, <1>2 DEF Whole
<1>13. t.parses => Len(g) \in Whole(g) /\ g[Len(g)] = t
  BY <1>1, <1>2 DEF Whole
<1>14. Base(f) <= Base(g) /\ Base(g) \in Nat
  BY <1>3, <1>9, <1>10
<1>. QED
  BY <1>1, <1>3, <1>4, <1>7, <1>8, <1>10, <1>11, <1>12, <1>13, <1>14 DEF Kept, g

(* A line with the newline that the repair gives it.                       *)
Finished(l) == [l EXCEPT !.bytes = IF l.newline THEN @ ELSE @ + 1, !.newline = TRUE]

LEMMA LineFinished ==
  ASSUME NEW t \in JournalLine, NEW n \in Nat, LineOf(t, n), t.parses
  PROVE  /\ Finished(t) \in JournalLine /\ Finished(t).id = t.id
         /\ Finished(t).parses /\ Finished(t).newline /\ LineOf(Finished(t), n)
         /\ Finished(t).bytes >= t.bytes
<1>. DEFINE l == Finished(t)
<1>1. /\ t.id \in Nat /\ t.sequence \in Nat /\ t.bytes \in Nat
      /\ t.id \in 1 .. n /\ t.sequence \in 0 .. n /\ t.bytes \in 1 .. 3
      /\ ~t.newline => t.bytes <= 2
  BY DEF JournalLine, LineOf
<1>2. PICK b \in Nat : b = IF t.newline THEN t.bytes ELSE t.bytes + 1
  BY <1>1
<1>3. b \in 1 .. 3 /\ b >= t.bytes
  BY <1>1, <1>2
<1>4. l = [t EXCEPT !.bytes = b, !.newline = TRUE]
  BY <1>2 DEF Finished
<1>. HIDE DEF l
<1>5. /\ l \in JournalLine /\ l.sequence = t.sequence /\ l.id = t.id
      /\ l.parses <=> t.parses
  BY ONLY t \in JournalLine, b \in Nat, <1>4, LineCompleted, Zenon
<1>6. l.bytes = b /\ l.newline
  BY <1>4 DEF JournalLine
<1>. QED
  BY <1>1, <1>3, <1>5, <1>6 DEF LineOf, l

LEMMA RepairedTidy ==
  ASSUME NEW f \in Seq(JournalLine), Tidy(f), NEW n \in Nat, Lined(f, n)
  PROVE  LET g == Repaired(f) IN
         /\ g \in Seq(JournalLine) /\ Tidy(g) /\ Ended(g) /\ Lined(g, n)
         /\ Base(g) = Size(g) /\ Size(g) \in Nat /\ Base(f) \in Nat /\ Base(f) <= Size(g)
         /\ Kept(f, g)
<1>1. CASE f = <<>>
  <2>1. Ended(f) /\ Repaired(f) = f
    BY <1>1 DEF Ended, Repaired
  <2>. QED
    BY <2>1, SizeIsNumber DEF Base, Kept
<1>2. CASE f # <<>> /\ ~Last(f).parses
  <2>1. Repaired(f) = Front(f) /\ ~Ended(f)
    BY <1>2 DEF Repaired, Ended
  <2>2. /\ DOMAIN Front(f) = 1 .. Len(f) - 1 /\ Len(f) \in Nat \ {0} /\ DOMAIN f = 1 .. Len(f)
        /\ \A i \in 1 .. Len(f) - 1 : Front(f)[i] = f[i]
    BY <1>2, FrontOfFile, LinesOfFile
  <2>3. Kept(f, Front(f))
    BY <1>2, <2>2 DEF Kept, Whole, Last
  <2>. QED
    BY <1>2, <2>1, <2>3, FrontTidy, SizeIsNumber DEF Base
<1>3. CASE f # <<>> /\ Last(f).parses
  <2>. DEFINE l == Finished(Last(f))
              h == Front(f)
              g == Repaired(f)
  <2>1. /\ h \in Seq(JournalLine) /\ Tidy(h) /\ Ended(h) /\ Lined(h, n)
        /\ LineOf(Last(f), n) /\ Last(f) \in JournalLine
    BY <1>3, FrontTidy
  <2>2. /\ l \in JournalLine /\ l.id = Last(f).id /\ l.parses /\ l.newline /\ LineOf(l, n)
        /\ l.bytes >= Last(f).bytes
    BY <1>3, <2>1, LineFinished
  <2>3. g = Append(h, l)
    BY <1>3 DEF Repaired, Finished
  <2>4. /\ DOMAIN h = 1 .. Len(f) - 1 /\ Len(f) \in Nat \ {0} /\ DOMAIN f = 1 .. Len(f)
        /\ \A i \in 1 .. Len(f) - 1 : h[i] = f[i]
        /\ Len(h) = Len(f) - 1
    BY <1>3, FrontOfFile, LinesOfFile
  <2>. HIDE DEF l, h
  <2>5. /\ g \in Seq(JournalLine) /\ Tidy(g) /\ Ended(g) /\ Lined(g, n)
        /\ Size(g) = Size(h) + l.bytes /\ Size(h) \in Nat /\ Base(g) = Size(g)
    <3>. HIDE DEF g
    <3>. QED
      BY <2>1, <2>2, <2>3, TextBehind
  <2>6. Kept(f, g)
    <3>1. /\ Append(h, l) \in Seq(JournalLine) /\ Len(Append(h, l)) = Len(f)
          /\ \A i \in 1 .. Len(f) - 1 : Append(h, l)[i] = f[i]
          /\ Append(h, l)[Len(f)] = l
      <4>1. /\ Append(h, l) \in Seq(JournalLine) /\ Len(Append(h, l)) = Len(h) + 1
            /\ \A i \in 1 .. Len(h) : Append(h, l)[i] = h[i]
            /\ Append(h, l)[Len(h) + 1] = l
        BY <2>1, <2>2, AppendProperties
      <4>2. Len(h) + 1 = Len(f)
        BY <2>4
      <4>. QED
        BY <2>4, <4>1, <4>2
    <3>2. DOMAIN g = 1 .. Len(f) /\ g[Len(f)] = l /\ \A i \in 1 .. Len(f) - 1 : g[i] = f[i]
      BY <2>3, <3>1, LinesOfFile
    <3>. HIDE DEF g
    <3>. QED
      BY <2>2, <2>4, <3>2 DEF Kept, Whole, Last
  <2>7. Size(f) = Size(h) + Last(f).bytes
    BY <1>3, SizeOfFront DEF h
  <2>8. Base(f) \in {Size(f), Size(h)} /\ l.bytes \in Nat /\ Last(f).bytes \in Nat
    BY <2>1, <2>2 DEF Base, h, JournalLine
  <2>. HIDE DEF g
  <2>9. Base(f) \in Nat /\ Base(f) <= Size(g) /\ Size(g) \in Nat
    BY <2>2, <2>5, <2>7, <2>8
  <2>. QED
    BY <2>5, <2>6, <2>9 DEF g
<1>. QED
  BY <1>1, <1>2, <1>3

Calls == {"none", "open", "read", "append"}
(* A handle inside append that has not taken its number; one whose known   *)
(* size is of a file it has seen repaired.                                 *)
Asking(w)    == job[w] = "append" /\ pc[w] \in {"repair", "sequence"}
Remembers(w) == pc[w] # "down" /\ ~(pc[w] = "repair" /\ job[w] = "open")

CallOf(w) ==
  /\ lock = w => pc[w] \notin Outside
  /\ pc[w] \in {"sequence", "write", "sync"} => job[w] = "append"
  /\ job[w] = "append" => record[w].id \in 1 .. spent.appends
  /\ pc[w] \in {"sequence", "write"} => Ended(file)
  /\ pc[w] = "sync" => \E i \in Whole(file) : file[i].id = record[w].id
CallsInv ==
  /\ lock \in Writers \cup {NoWriter} /\ spent.appends <= MaxAppends
  /\ known \in [Writers -> Nat] /\ job \in [Writers -> Calls]
  /\ \A w \in Writers : CallOf(w)

(* A number is taken at most once for each record that is begun.           *)
CountInv ==
  /\ stored.now <= spent.appends /\ \A v \in Writers : floor[v] <= spent.appends
  /\ \A w \in Writers : Asking(w) =>
       stored.now < spent.appends /\ \A v \in Writers : floor[v] < spent.appends

(* No repair brings a file back to a size that a handle knows it by: what  *)
(* is torn comes on top of what no repair takes away.                      *)
LinesInv ==
  /\ Tidy(file) /\ Lined(file, spent.appends)
  /\ Tidy(disk) /\ Lined(disk, spent.appends)
  /\ \A w \in Writers : Remembers(w) => known[w] <= Base(file)

AckInv ==
  /\ Kept(disk, file)
  /\ \A id \in acked : \E i \in Whole(disk) : disk[i].id = id

JournalInv == CallsInv /\ CountInv /\ LinesInv /\ AckInv

LEMMA KeptTwice ==
  ASSUME NEW f, NEW g, NEW h, Kept(f, g), Kept(g, h) PROVE Kept(f, h)
  BY DEF Kept

LEMMA KeptItself == ASSUME NEW f PROVE Kept(f, f)
  BY DEF Kept

LEMMA MoreLines ==
  ASSUME NEW f, NEW m \in Nat, NEW n \in Nat, m <= n, Lined(f, m) PROVE Lined(f, n)
  BY DEF Lined, LineOf

(* The size by which an idle handle knows a file is that of a whole file.  *)
LEMMA SizesAreValid == ASSUME RiseInv, JournalInv PROVE KnownSizeIsValid
<1>. SUFFICES ASSUME NEW w \in Writers, pc[w] = "idle", Size(file) = known[w], file # <<>>,
                     ~Ended(file)
              PROVE  FALSE
  BY DEF KnownSizeIsValid, Ended
<1>1. file \in Seq(JournalLine) /\ Tidy(file) /\ Lined(file, spent.appends)
      /\ spent.appends \in Nat
  BY DEF RiseInv, JournalTypeOK, JournalInv, LinesInv
<1>2. Size(file) = Size(Front(file)) + Last(file).bytes /\ Size(Front(file)) \in Nat
      /\ Last(file).bytes \in 1 .. 3
  <2>1. Front(file) \in Seq(JournalLine) /\ LineOf(Last(file), spent.appends)
    BY <1>1, FrontTidy
  <2>. QED
    BY <1>1, <2>1, SizeOfFront, SizeIsNumber DEF LineOf
<1>3. known[w] <= Base(file) /\ Base(file) = Size(Front(file))
  BY DEF JournalInv, LinesInv, Remembers, Base
<1>. QED
  BY <1>2, <1>3

(* The holder of the lock is the only one inside a call.                   *)
LEMMA Alone ==
  ASSUME RiseInv, CallsInv, NEW w \in Writers, pc[w] \notin Outside
  PROVE  lock = w /\ \A v \in Writers \ {w} : pc[v] \in Outside /\ ~Asking(v)
  BY DEF RiseInv, HolderInv, Asking, Outside

LEMMA JournalStarts == JournalInit => JournalInv
<1>. SUFFICES ASSUME JournalInit PROVE JournalInv
  OBVIOUS
<1>1. \A i \in DOMAIN <<>> : FALSE
  OBVIOUS
<1>2. Tidy(<<>>) /\ Lined(<<>>, 0) /\ Kept(<<>>, <<>>)
  BY <1>1 DEF Tidy, Lined, Kept, Whole
<1>3. CallsInv
  BY WritersAssumption, BoundsAssumption DEF JournalInit, CallsInv, CallOf, Outside, Calls, Nil
<1>4. CountInv
  BY DEF JournalInit, CountInv, Asking
<1>. QED
  BY <1>2, <1>3, <1>4 DEF JournalInit, JournalInv, LinesInv, AckInv, Remembers

LEMMA BeginHolds ==
  ASSUME RiseInv, JournalInv, NEW w \in Writers, \E call \in {"open", "read"} : Begin(w, call)
  PROVE  JournalInv'
<1>. USE DEF Begin, store, Goto
<1>1. PICK call \in {"open", "read"} : Begin(w, call)
  OBVIOUS
<1>2. \A v \in Writers : pc[v] \in Outside
  BY <1>1, WritersAssumption DEF RiseInv, HolderInv
<1>3. CallsInv'
  BY <1>1, <1>2 DEF JournalInv, CallsInv, CallOf, Calls, Outside, RiseInv, JournalTypeOK
<1>4. CountInv'
  BY <1>1 DEF JournalInv, CountInv, Asking, RiseInv, JournalTypeOK, CallsInv
<1>5. LinesInv'
  <2>1. \A v \in Writers : Remembers(v)' => Remembers(v)
    BY <1>1 DEF Remembers, RiseInv, JournalTypeOK, JournalInv, CallsInv
  <2>. QED
    BY <1>1, <2>1 DEF JournalInv, LinesInv
<1>. QED
  BY <1>1, <1>3, <1>4, <1>5 DEF JournalInv, AckInv

LEMMA AppendHolds ==
  ASSUME RiseInv, JournalInv, NEW w \in Writers, AppendRecord(w)
  PROVE  JournalInv'
<1>. DEFINE l == IF Size(file) = known[w] THEN "sequence" ELSE "repair"
<1>1. /\ pc[w] = "idle" /\ lock = NoWriter /\ lock' = w /\ spent.appends < MaxAppends
      /\ spent' = [spent EXCEPT !.appends = @ + 1] /\ job' = [job EXCEPT ![w] = "append"]
      /\ record' = [record EXCEPT ![w] = [id |-> spent.appends + 1, sequence |-> 0]]
      /\ UNCHANGED <<file, disk, stored, floor, known, acked>>
      /\ pc' = [pc EXCEPT ![w] = l]
  BY DEF AppendRecord, store, Goto
<1>2. \A v \in Writers : pc[v] \in Outside
  BY <1>1, WritersAssumption DEF RiseInv, HolderInv
<1>3. l \in {"sequence", "repair"} /\ (l = "sequence" => Ended(file))
  BY <1>1, SizesAreValid DEF KnownSizeIsValid, Ended
<1>. HIDE DEF l
<1>4. spent.appends \in Nat /\ spent'.appends = spent.appends + 1 /\ MaxAppends \in Nat
  BY <1>1, BoundsAssumption DEF RiseInv, JournalTypeOK
<1>5. CallsInv'
  <2>1. record'[w].id = spent.appends + 1 /\ \A v \in Writers \ {w} : record'[v] = record[v]
    BY <1>1 DEF RiseInv, JournalTypeOK
  <2>2. CallOf(w)'
    BY <1>1, <1>3, <1>4, <2>1 DEF JournalInv, CallsInv, CallOf, Outside, RiseInv, JournalTypeOK
  <2>3. ASSUME NEW v \in Writers, v # w PROVE CallOf(v)'
    BY <1>1, <1>2, <1>4, <2>1, <2>3 DEF JournalInv, CallsInv, CallOf, Outside, RiseInv,
       JournalTypeOK
  <2>. QED
    BY <1>1, <1>4, <2>2, <2>3 DEF JournalInv, CallsInv, Calls
<1>6. CountInv'
  BY <1>1, <1>4 DEF JournalInv, CountInv, RiseInv, JournalTypeOK
<1>7. LinesInv'
  <2>1. \A v \in Writers : Remembers(v)' => Remembers(v)
    BY <1>1, <1>3 DEF Remembers, RiseInv, JournalTypeOK, JournalInv, CallsInv
  <2>2. Lined(file, spent'.appends) /\ Lined(disk, spent'.appends)
    BY <1>4, MoreLines DEF JournalInv, LinesInv
  <2>. QED
    BY <1>1, <2>1, <2>2 DEF JournalInv, LinesInv
<1>. QED
  BY <1>1, <1>5, <1>6, <1>7 DEF JournalInv, AckInv

LEMMA RepairHolds ==
  ASSUME RiseInv, JournalInv, NEW w \in Writers, Repair(w) PROVE JournalInv'
<1>. DEFINE f == Repaired(file)
<1>1. /\ pc[w] = "repair" /\ lock = w
      /\ \A v \in Writers \ {w} : pc[v] \in Outside /\ ~Asking(v)
  BY Alone DEF Repair, Outside, JournalInv
<1>2. /\ file \in Seq(JournalLine) /\ Tidy(file) /\ Lined(file, spent.appends)
      /\ disk \in Seq(JournalLine) /\ Tidy(disk) /\ Lined(disk, spent.appends)
      /\ spent.appends \in Nat
  BY DEF RiseInv, JournalTypeOK, JournalInv, LinesInv
<1>3. /\ f \in Seq(JournalLine) /\ Tidy(f) /\ Ended(f) /\ Lined(f, spent.appends)
      /\ Base(f) = Size(f) /\ Size(f) \in Nat /\ Base(file) \in Nat /\ Base(file) <= Size(f)
      /\ Kept(file, f)
  BY <1>2, RepairedTidy
<1>. HIDE DEF f
<1>4. ~Interior(file)
  BY <1>2 DEF Interior, Tidy
<1>5. /\ UNCHANGED <<stored, job, record, floor, acked>>
      /\ spent' = spent \/ spent' = [spent EXCEPT !.troubles = @ + 1]
      /\ file' \in {file, f} /\ disk' \in {disk, file'}
      /\ known' \in {known, [known EXCEPT ![w] = Size(f)]}
      /\ (known' # known => file' = f)
      /\ \/ Throw(w)
         \/ AfterRepair(w) /\ file' = f /\ known' = [known EXCEPT ![w] = Size(f)]
  BY <1>4 DEF Repair, f, store, Trouble
<1>6. spent'.appends = spent.appends
  BY <1>5 DEF RiseInv, JournalTypeOK
<1>7. \/ /\ lock' = NoWriter
         /\ pc' = [pc EXCEPT ![w] = IF job[w] = "open" THEN "down" ELSE "idle"]
      \/ /\ file' = f /\ known' = [known EXCEPT ![w] = Size(f)]
         /\ \/ pc' = [pc EXCEPT ![w] = "initialize"] /\ lock' = lock /\ job[w] = "open"
            \/ pc' = [pc EXCEPT ![w] = "sequence"] /\ lock' = lock /\ job[w] = "append"
            \/ pc' = [pc EXCEPT ![w] = "idle"] /\ lock' = NoWriter /\ job[w] = "read"
  BY <1>5 DEF Throw, AfterRepair, Return, Goto
<1>8. CallsInv'
  <2>1. known' \in [Writers -> Nat] /\ lock' \in Writers \cup {NoWriter}
    BY <1>3, <1>5, <1>7 DEF JournalInv, CallsInv
  <2>2. ASSUME NEW v \in Writers PROVE CallOf(v)'
    <3>1. CASE v = w
      BY <1>1, <1>3, <1>5, <1>6, <1>7, <3>1, WritersAssumption
         DEF JournalInv, CallsInv, CallOf, Outside, RiseInv, JournalTypeOK
    <3>2. CASE v # w
      BY <1>1, <1>5, <1>6, <1>7, <3>2, WritersAssumption
         DEF JournalInv, CallsInv, CallOf, Outside, RiseInv, JournalTypeOK
    <3>. QED
      BY <3>1, <3>2
  <2>. QED
    BY <1>5, <1>6, <2>1, <2>2 DEF JournalInv, CallsInv
<1>9. CountInv'
  <2>1. \A v \in Writers : Asking(v)' => Asking(v)
    BY <1>1, <1>5, <1>7 DEF Asking, RiseInv, JournalTypeOK, Outside
  <2>. QED
    BY <1>5, <1>6, <2>1 DEF JournalInv, CountInv
<1>10. Base(file') \in Nat /\ Base(file) <= Base(file') /\ Kept(file, file')
  BY <1>3, <1>5, KeptItself
<1>11. LinesInv'
  <2>1. ASSUME NEW v \in Writers, Remembers(v)' PROVE known'[v] <= Base(file')
    <3>1. CASE v = w /\ known' = [known EXCEPT ![w] = Size(f)] /\ file' = f
      BY <1>3, <3>1 DEF JournalInv, CallsInv
    <3>2. CASE known' = known \/ v # w
      <4>1. known'[v] = known[v] /\ known[v] \in Nat
        BY <1>5, <3>2 DEF JournalInv, CallsInv
      <4>2. CASE v # w
        BY <1>3, <1>5, <1>7, <1>10, <2>1, <4>1, <4>2 DEF Remembers, JournalInv, LinesInv, RiseInv,
           JournalTypeOK
      <4>3. CASE v = w /\ Throw(w)
        <5>1. Remembers(v)
          BY <1>1, <2>1, <4>3 DEF Throw, Goto, Remembers, RiseInv, JournalTypeOK
        <5>. QED
          BY <1>3, <1>10, <4>1, <5>1 DEF JournalInv, LinesInv
      <4>4. CASE v = w /\ ~Throw(w)
        BY <1>3, <1>5, <4>1, <4>4 DEF JournalInv, CallsInv
      <4>. QED
        BY <4>2, <4>3, <4>4
    <3>. QED
      BY <1>5, <3>1, <3>2
  <2>. QED
    BY <1>2, <1>3, <1>5, <1>6, <2>1 DEF JournalInv, LinesInv
<1>12. AckInv'
  <2>1. Kept(disk, file')
    BY <1>10, KeptTwice DEF JournalInv, AckInv
  <2>2. CASE disk' = disk
    BY <1>5, <2>1, <2>2 DEF JournalInv, AckInv
  <2>3. CASE disk' = file'
    <3>1. \A id \in acked : \E i \in Whole(file') : file'[i].id = id
      BY <2>1 DEF JournalInv, AckInv, Kept
    <3>. QED
      BY <1>5, <2>3, <3>1, KeptItself DEF AckInv
  <2>. QED
    BY <1>5, <2>2, <2>3
<1>. QED
  BY <1>8, <1>9, <1>11, <1>12 DEF JournalInv

(* A step inside the lock leads on with it, or out of it.                  *)
Moves(w, l) ==
  /\ pc' = [pc EXCEPT ![w] = l]
  /\ IF l \in Outside THEN lock' = NoWriter ELSE lock' = lock

(* What the steps inside the lock that leave the file alone have in common.*)
LEMMA FileStays ==
  ASSUME RiseInv, JournalInv, NEW w \in Writers, pc[w] \notin Outside,
         UNCHANGED <<file, known, job>>, spent'.appends = spent.appends,
         NEW l, Moves(w, l),
         l \in {"idle", "down", "write"}, l = "write" => pc[w] = "sequence",
         \A v \in Writers : record'[v].id = record[v].id,
         pc[w] # "repair"
  PROVE  CallsInv' /\ (\A v \in Writers : ~Asking(v)')
         /\ \A v \in Writers : Remembers(v)' => known'[v] <= Base(file')
<1>1. lock = w /\ \A v \in Writers \ {w} : pc[v] \in Outside
  BY Alone DEF JournalInv
<1>2. /\ pc' = [pc EXCEPT ![w] = l] /\ lock' \in {lock, NoWriter}
      /\ (l \notin Outside => lock' = lock) /\ (l \in Outside => lock' = NoWriter)
  BY DEF Moves
<1>3. pc'[w] = l /\ \A v \in Writers \ {w} : pc'[v] = pc[v]
  BY <1>2 DEF RiseInv, JournalTypeOK
<1>4. ASSUME NEW v \in Writers PROVE CallOf(v)'
  <2>1. /\ CallOf(v) /\ record'[v].id = record[v].id
        /\ UNCHANGED <<file, job>> /\ spent'.appends = spent.appends
    BY DEF JournalInv, CallsInv
  <2>2. lock' = v => pc'[v] \notin Outside
    BY <1>1, <1>2, <1>3, <2>1, WritersAssumption DEF CallOf
  <2>3. pc'[v] \in {"sequence", "write", "sync"} =>
          pc[v] \in {"sequence", "write", "sync"} /\ pc'[v] \in {pc[v], "write"}
    BY <1>1, <1>3 DEF Outside
  <2>4. pc'[v] \in {"sequence", "write"} => pc[v] \in {"sequence", "write"}
    BY <1>1, <1>3 DEF Outside
  <2>5. pc'[v] = "sync" => pc[v] = "sync"
    BY <1>1, <1>3 DEF Outside
  <2>6. (\E i \in Whole(file) : file[i].id = record[v].id) =>
          \E i \in Whole(file') : file'[i].id = record'[v].id
    BY <2>1
  <2>7. Ended(file') <=> Ended(file)
    BY <2>1
  <2>. QED
    BY <2>1, <2>2, <2>3, <2>4, <2>5, <2>6, <2>7 DEF CallOf
<1>5. CallsInv'
  BY <1>2, <1>4 DEF JournalInv, CallsInv
<1>6. \A v \in Writers : ~Asking(v)'
  BY <1>1, <1>3 DEF Asking, Outside
<1>7. \A v \in Writers : Remembers(v)' => Remembers(v)
  BY <1>1, <1>3 DEF Remembers, Outside
<1>. QED
  BY <1>5, <1>6, <1>7 DEF JournalInv, LinesInv

LEMMA InitializeHolds ==
  ASSUME RiseInv, JournalInv, NEW w \in Writers, InitializeSequence(w) PROVE JournalInv'
<1>. DEFINE top == Larger(stored.now, Highest(file))
<1>1. /\ stored.now \in Nat /\ stored.safe \in Nat /\ stored.safe <= stored.now
      /\ spent.appends \in Nat /\ stored.now <= spent.appends
      /\ Highest(file) \in Nat /\ Highest(file) <= stored.safe
  BY HighestIsNumber DEF RiseInv, JournalTypeOK, NumbersInv, JournalInv, CountInv
<1>2. top \in Nat /\ top <= spent.appends
  BY <1>1 DEF Larger
<1>. HIDE DEF top
<1>3. /\ UNCHANGED <<file, disk, job, record, known, acked>> /\ pc[w] = "initialize"
      /\ floor' = [floor EXCEPT ![w] = top]
      /\ stored'.now \in {stored.now, top}
      /\ spent' = spent \/ spent' = [spent EXCEPT !.troubles = @ + 1]
      /\ \E l \in Outside : Moves(w, l)
  BY DEF InitializeSequence, top, StoreSequence, StoreFails, Trouble, Return, Throw, Goto,
     Moves, Outside, RiseInv, JournalTypeOK
<1>4. spent'.appends = spent.appends
  BY <1>3 DEF RiseInv, JournalTypeOK
<1>5. /\ CallsInv' /\ (\A v \in Writers : ~Asking(v)')
      /\ \A v \in Writers : Remembers(v)' => known'[v] <= Base(file')
  BY <1>3, <1>4, FileStays DEF Outside
<1>6. CountInv'
  BY <1>1, <1>2, <1>3, <1>4, <1>5 DEF CountInv, JournalInv, RiseInv, JournalTypeOK
<1>. QED
  BY <1>3, <1>4, <1>5, <1>6 DEF JournalInv, LinesInv, AckInv

LEMMA NextHolds ==
  ASSUME RiseInv, JournalInv, NEW w \in Writers, NextSequence(w) PROVE JournalInv'
<1>. DEFINE n == Larger(stored.now, floor[w]) + 1
<1>1. pc[w] = "sequence" /\ Asking(w)
  BY DEF NextSequence, JournalInv, CallsInv, CallOf, Asking
<1>2. /\ stored.now \in Nat /\ floor[w] \in Nat /\ spent.appends \in Nat
      /\ stored.now < spent.appends /\ floor[w] < spent.appends
  BY <1>1 DEF RiseInv, JournalTypeOK, JournalInv, CountInv
<1>3. n \in Nat /\ n <= spent.appends
  BY <1>2 DEF Larger
<1>. HIDE DEF n
<1>4. /\ UNCHANGED <<file, disk, job, known, acked>>
      /\ floor' \in {floor, [floor EXCEPT ![w] = n]}
      /\ record' \in {record, [record EXCEPT ![w].sequence = n]}
      /\ stored'.now \in {stored.now, n}
      /\ spent' = spent \/ spent' = [spent EXCEPT !.troubles = @ + 1]
      /\ \E l \in {"idle", "down", "write"} : Moves(w, l)
  BY DEF NextSequence, n, StoreSequence, StoreFails, Trouble, Throw, Goto, Moves, Outside,
     RiseInv, JournalTypeOK
<1>5. spent'.appends = spent.appends /\ \A v \in Writers : record'[v].id = record[v].id
  <2>1. record \in [Writers -> [id : Nat, sequence : Nat]]
    BY DEF RiseInv, JournalTypeOK
  <2>2. ASSUME record' = [record EXCEPT ![w].sequence = n], NEW v \in Writers
        PROVE  record'[v].id = record[v].id
    BY <2>1, <2>2
  <2>. QED
    BY <1>4, <2>2 DEF RiseInv, JournalTypeOK
<1>6. /\ CallsInv' /\ (\A v \in Writers : ~Asking(v)')
      /\ \A v \in Writers : Remembers(v)' => known'[v] <= Base(file')
  BY <1>1, <1>4, <1>5, FileStays DEF Outside
<1>7. CountInv'
  BY <1>2, <1>3, <1>4, <1>5, <1>6 DEF CountInv, JournalInv, RiseInv, JournalTypeOK
<1>. QED
  BY <1>4, <1>5, <1>6, <1>7 DEF JournalInv, LinesInv, AckInv

LEMMA TextOfRecord ==
  ASSUME NEW r, NEW n \in Nat, r.id \in 1 .. n, r.sequence \in 0 .. n,
         NEW form \in {"whole", "bare", "torn"}
  PROVE  /\ Text(r, form) \in JournalLine /\ LineOf(Text(r, form), n) /\ Text(r, form).id = r.id
         /\ form = "whole" =>
              Text(r, form).parses /\ Text(r, form).newline /\ Text(r, form).bytes = 3
<1>1. r.id \in Nat /\ r.sequence \in Nat
  OBVIOUS
<1>2. Text(r, form) \in JournalLine
  BY <1>1, TextIsLine
<1>3. /\ Text(r, form).id = r.id /\ Text(r, form).sequence = r.sequence
      /\ Text(r, form).bytes = (IF form = "whole" THEN 3 ELSE IF form = "bare" THEN 2 ELSE 1)
  BY DEF Text
<1>4. /\ Text(r, form).newline <=> form = "whole"
      /\ Text(r, form).parses <=> form # "torn"
  BY Zenon DEF Text
<1>. QED
  BY <1>2, <1>3, <1>4 DEF LineOf

(* What appendFile leaves of a record behind a file that ends properly.    *)
LEMMA RecordBehind ==
  ASSUME RiseInv, JournalInv, NEW w \in Writers, pc[w] = "write",
         NEW form \in {"whole", "bare", "torn"}
  PROVE  LET g == Glued(file, Text(record[w], form)) IN
         /\ g \in Seq(JournalLine) /\ Tidy(g) /\ Lined(g, spent.appends)
         /\ Base(file) = Size(file) /\ Base(file) \in Nat /\ Base(g) \in Nat
         /\ Base(file) <= Base(g) /\ Kept(file, g)
         /\ form = "whole" =>
              /\ Ended(g) /\ Base(g) = Size(file) + 3
              /\ \E i \in Whole(g) : g[i].id = record[w].id
<1>. DEFINE t == Text(record[w], form)
            g == Glued(file, t)
<1>1. /\ file \in Seq(JournalLine) /\ Tidy(file) /\ Lined(file, spent.appends) /\ Ended(file)
      /\ spent.appends \in Nat
  BY DEF RiseInv, JournalTypeOK, JournalInv, LinesInv, CallsInv, CallOf
<1>2. record[w].id \in 1 .. spent.appends /\ record[w].sequence \in 0 .. spent.appends
  <2>1. /\ record[w].sequence \in Nat /\ record[w].sequence <= stored.safe
        /\ stored.safe \in Nat /\ stored.now \in Nat
        /\ stored.safe <= stored.now /\ stored.now <= spent.appends
    BY DEF RiseInv, JournalTypeOK, RecordInv, NumbersInv, JournalInv, CountInv
  <2>2. record[w].id \in 1 .. spent.appends
    BY DEF JournalInv, CallsInv, CallOf
  <2>. QED
    BY <1>1, <2>1, <2>2
<1>3. /\ t \in JournalLine /\ LineOf(t, spent.appends) /\ t.id = record[w].id
      /\ form = "whole" => t.parses /\ t.newline /\ t.bytes = 3
  BY <1>1, <1>2, TextOfRecord
<1>. HIDE DEF t
<1>4. /\ g \in Seq(JournalLine) /\ Tidy(g) /\ Lined(g, spent.appends)
      /\ Base(file) = Size(file) /\ Size(file) \in Nat /\ Base(file) <= Base(g)
      /\ Base(g) \in Nat /\ Kept(file, g) /\ Size(g) = Size(file) + t.bytes
      /\ t.parses /\ t.newline => Ended(g) /\ Base(g) = Size(g)
      /\ t.parses => Len(g) \in Whole(g) /\ g[Len(g)].id = t.id
  BY <1>1, <1>3, TextBehind
<1>. HIDE DEF g
<1>5. form = "whole" => \E i \in Whole(g) : g[i].id = record[w].id
  BY <1>3, <1>4
<1>6. form = "whole" => Ended(g) /\ Base(g) = Size(file) + 3
  BY <1>3, <1>4
<1>. QED
  BY <1>4, <1>5, <1>6 DEF g, t

LEMMA WriteHolds ==
  ASSUME RiseInv, JournalInv, NEW w \in Writers, Write(w) PROVE JournalInv'
<1>1. /\ pc[w] = "write" /\ lock = w
      /\ \A v \in Writers \ {w} : pc[v] \in Outside /\ ~Asking(v)
  BY Alone DEF Write, Outside, JournalInv
<1>2. UNCHANGED <<disk, stored, job, record, floor, acked>>
  BY DEF Write
<1>3. /\ spent' = spent \/ spent' = [spent EXCEPT !.troubles = @ + 1]
      /\ \/ /\ file' = Glued(file, Text(record[w], "whole"))
            /\ known' = [known EXCEPT ![w] = @ + 3]
            /\ pc' = [pc EXCEPT ![w] = "sync"] /\ lock' = lock
         \/ /\ \/ file' = file
               \/ \E form \in {"bare", "torn"} : file' = Glued(file, Text(record[w], form))
            /\ known' = known /\ lock' = NoWriter
            /\ \E l \in Outside : pc' = [pc EXCEPT ![w] = l]
  BY DEF Write, Trouble, Throw, Goto, Text, Outside
<1>4. spent'.appends = spent.appends
  BY <1>3 DEF RiseInv, JournalTypeOK
<1>5. /\ file \in Seq(JournalLine) /\ Tidy(file) /\ Lined(file, spent.appends)
      /\ Tidy(disk) /\ Lined(disk, spent.appends)
      /\ Base(file) = Size(file) /\ Base(file) \in Nat /\ Kept(file, file)
  BY <1>1, RecordBehind, KeptItself DEF RiseInv, JournalTypeOK, JournalInv, LinesInv
<1>6. /\ Tidy(file') /\ Lined(file', spent.appends) /\ Base(file') \in Nat
      /\ Base(file) <= Base(file') /\ Kept(file, file')
  <2>1. CASE file' = file
    BY <1>5, <2>1
  <2>2. ASSUME NEW form \in {"whole", "bare", "torn"}, file' = Glued(file, Text(record[w], form))
        PROVE  /\ Tidy(file') /\ Lined(file', spent.appends) /\ Base(file') \in Nat
               /\ Base(file) <= Base(file') /\ Kept(file, file')
    BY <1>1, <2>2, RecordBehind
  <2>. QED
    BY <1>3, <2>1, <2>2
<1>7. pc'[w] = "sync" =>
        /\ file' = Glued(file, Text(record[w], "whole")) /\ known' = [known EXCEPT ![w] = @ + 3]
        /\ Base(file') = Size(file) + 3 /\ lock' = lock
        /\ \E i \in Whole(file') : file'[i].id = record[w].id
  <2>1. ASSUME NEW l \in Outside, pc' = [pc EXCEPT ![w] = l] PROVE pc'[w] # "sync"
    BY <2>1 DEF Outside, RiseInv, JournalTypeOK
  <2>2. ASSUME file' = Glued(file, Text(record[w], "whole"))
        PROVE  /\ Base(file') = Size(file) + 3
               /\ \E i \in Whole(file') : file'[i].id = record[w].id
    BY <1>1, <2>2, RecordBehind
  <2>. QED
    BY <1>3, <2>1, <2>2
<1>8. \A v \in Writers \ {w} : pc'[v] = pc[v]
  BY <1>3 DEF RiseInv, JournalTypeOK
<1>9. \/ pc'[w] = "sync"
      \/ pc'[w] \in Outside /\ lock' = NoWriter /\ known' = known
  <2>1. pc \in [Writers -> Outside \cup {"repair", "initialize", "sequence", "write", "sync"}]
    BY DEF RiseInv, JournalTypeOK
  <2>. QED
    BY <1>3, <2>1
<1>10. known' \in [Writers -> Nat]
  BY <1>3 DEF JournalInv, CallsInv
<1>11. CallsInv'
  <2>1. ASSUME NEW v \in Writers PROVE CallOf(v)'
    <3>1. CallOf(v)
      BY DEF JournalInv, CallsInv
    <3>2. CASE v = w
      BY <1>1, <1>2, <1>4, <1>7, <1>9, <3>1, <3>2, WritersAssumption DEF CallOf, Outside
    <3>3. CASE v # w
      BY <1>1, <1>2, <1>4, <1>3, <1>8, <3>1, <3>3, WritersAssumption DEF CallOf, Outside
    <3>. QED
      BY <3>2, <3>3
  <2>. QED
    BY <1>2, <1>3, <1>4, <1>10, <2>1 DEF JournalInv, CallsInv
<1>12. CountInv'
  <2>1. \A v \in Writers : ~Asking(v)'
    BY <1>1, <1>8, <1>9 DEF Asking, Outside
  <2>. QED
    BY <1>2, <1>4, <2>1 DEF JournalInv, CountInv
<1>13. LinesInv'
  <2>1. ASSUME NEW v \in Writers, Remembers(v)' PROVE known'[v] <= Base(file')
    <3>1. known[v] \in Nat /\ (Remembers(v) => known[v] <= Base(file))
      BY DEF JournalInv, CallsInv, LinesInv
    <3>2. CASE v = w /\ pc'[w] = "sync"
      <4>1. known'[w] = known[w] + 3 /\ known[w] <= Base(file)
        BY <1>1, <1>7, <3>1, <3>2 DEF JournalInv, CallsInv, Remembers
      <4>. QED
        BY <1>5, <1>7, <3>1, <3>2, <4>1
    <3>3. CASE v # w \/ known' = known
      <4>1. known'[v] = known[v]
        BY <1>3, <3>3 DEF JournalInv, CallsInv
      <4>2. Remembers(v)
        BY <1>1, <1>2, <1>8, <2>1 DEF Remembers
      <4>. QED
        BY <1>5, <1>6, <3>1, <4>1, <4>2
    <3>. QED
      BY <1>9, <3>2, <3>3
  <2>. QED
    BY <1>2, <1>4, <1>5, <1>6, <2>1 DEF LinesInv
<1>14. AckInv'
  BY <1>2, <1>6, KeptTwice DEF JournalInv, AckInv
<1>. QED
  BY <1>11, <1>12, <1>13, <1>14 DEF JournalInv

LEMMA SyncHolds ==
  ASSUME RiseInv, JournalInv, NEW w \in Writers, Sync(w) PROVE JournalInv'
<1>1. /\ UNCHANGED <<file, stored, job, record, floor, known>> /\ pc[w] = "sync"
      /\ spent' = spent \/ spent' = [spent EXCEPT !.troubles = @ + 1]
      /\ \/ disk' = file /\ acked' = acked \cup {record[w].id}
         \/ UNCHANGED <<disk, acked>>
      /\ \E l \in Outside : Moves(w, l)
  BY DEF Sync, Trouble, Return, Throw, Goto, Moves, Outside
<1>2. spent'.appends = spent.appends
  BY <1>1 DEF RiseInv, JournalTypeOK
<1>3. /\ CallsInv' /\ (\A v \in Writers : ~Asking(v)')
      /\ \A v \in Writers : Remembers(v)' => known'[v] <= Base(file')
  BY <1>1, <1>2, FileStays DEF Outside
<1>4. CountInv' /\ LinesInv'
  BY <1>1, <1>2, <1>3 DEF JournalInv, CountInv, LinesInv
<1>5. AckInv'
  <2>1. CASE UNCHANGED <<disk, acked>>
    BY <1>1, <2>1 DEF JournalInv, AckInv
  <2>2. CASE disk' = file /\ acked' = acked \cup {record[w].id}
    <3>1. \E i \in Whole(file) : file[i].id = record[w].id
      BY <1>1 DEF JournalInv, CallsInv, CallOf
    <3>2. \A id \in acked : \E i \in Whole(file) : file[i].id = id
      BY DEF JournalInv, AckInv, Kept
    <3>. QED
      BY <1>1, <2>2, <3>1, <3>2, KeptItself DEF AckInv
  <2>. QED
    BY <1>1, <2>1, <2>2
<1>. QED
  BY <1>3, <1>4, <1>5 DEF JournalInv

LEMMA CloseHolds ==
  ASSUME RiseInv, JournalInv, NEW w \in Writers, CloseJournal(w) PROVE JournalInv'
<1>1. /\ UNCHANGED <<store, lock, job, record, floor, known, acked, spent>>
      /\ pc[w] = "idle" /\ pc' = [pc EXCEPT ![w] = "down"]
  BY DEF CloseJournal, Goto
<1>2. pc'[w] = "down" /\ \A v \in Writers \ {w} : pc'[v] = pc[v]
  BY <1>1 DEF RiseInv, JournalTypeOK
<1>3. ASSUME NEW v \in Writers PROVE CallOf(v)'
  <2>1. CallOf(v)
    BY DEF JournalInv, CallsInv
  <2>. QED
    BY <1>1, <1>2, <2>1 DEF CallOf, Outside, store
<1>4. \A v \in Writers : (Asking(v)' => Asking(v)) /\ (Remembers(v)' => Remembers(v))
  BY <1>1, <1>2 DEF Asking, Remembers
<1>. QED
  BY <1>1, <1>3, <1>4 DEF JournalInv, CallsInv, CountInv, LinesInv, AckInv, store

LEMMA DeathHolds ==
  ASSUME RiseInv, JournalInv, NEW w \in Writers, Die(w) PROVE JournalInv'
<1>1. /\ UNCHANGED <<disk, stored, job, record, floor, known, acked>>
      /\ spent' = [spent EXCEPT !.troubles = @ + 1] /\ pc' = [pc EXCEPT ![w] = "down"]
      /\ lock' = (IF lock = w THEN NoWriter ELSE lock)
      /\ \/ file' = file
         \/ /\ pc[w] = "write"
            /\ \E form \in {"bare", "torn"} : file' = Glued(file, Text(record[w], form))
  BY DEF Die, Trouble, Goto
<1>2. spent'.appends = spent.appends
  BY <1>1 DEF RiseInv, JournalTypeOK
<1>3. pc'[w] = "down" /\ \A v \in Writers \ {w} : pc'[v] = pc[v]
  BY <1>1 DEF RiseInv, JournalTypeOK
<1>4. /\ file' = file \/ \A v \in Writers \ {w} : pc[v] \in Outside
      /\ Tidy(file') /\ Lined(file', spent.appends) /\ Kept(file, file')
      /\ \/ file' = file
         \/ Base(file) \in Nat /\ Base(file') \in Nat /\ Base(file) <= Base(file')
  <2>1. CASE file' = file
    <3>1. Tidy(file) /\ Lined(file, spent.appends) /\ Kept(file, file)
      BY KeptItself DEF JournalInv, LinesInv
    <3>. QED
      BY <2>1, <3>1, Zenon
  <2>2. CASE pc[w] = "write" /\ \E form \in {"bare", "torn"} :
                                   file' = Glued(file, Text(record[w], form))
    BY <2>2, RecordBehind, Alone DEF Outside, JournalInv
  <2>. QED
    BY <1>1, <2>1, <2>2
<1>5. ASSUME NEW v \in Writers PROVE CallOf(v)'
  <2>1. CallOf(v)
    BY DEF JournalInv, CallsInv
  <2>2. CASE v = w
    BY <1>1, <1>2, <1>3, <2>1, <2>2, WritersAssumption DEF CallOf
  <2>3. CASE v # w /\ file' = file
    BY <1>1, <1>2, <1>3, <2>1, <2>3, WritersAssumption DEF CallOf
  <2>4. CASE v # w /\ pc[v] \in Outside
    BY <1>1, <1>2, <1>3, <2>1, <2>4, WritersAssumption DEF CallOf, Outside
  <2>. QED
    BY <1>4, <2>2, <2>3, <2>4
<1>6. \A v \in Writers : (Asking(v)' => Asking(v)) /\ (Remembers(v)' => Remembers(v))
  BY <1>1, <1>3 DEF Asking, Remembers
<1>7. \A v \in Writers : Remembers(v)' => known'[v] <= Base(file')
  <2>. SUFFICES ASSUME NEW v \in Writers, Remembers(v)' PROVE known'[v] <= Base(file')
    OBVIOUS
  <2>1. known'[v] = known[v] /\ known[v] \in Nat /\ known[v] <= Base(file)
    BY <1>1, <1>6 DEF JournalInv, CallsInv, LinesInv
  <2>. QED
    BY <1>4, <2>1
<1>8. CallsInv'
  BY <1>1, <1>2, <1>5 DEF JournalInv, CallsInv
<1>9. CountInv'
  BY <1>1, <1>2, <1>6 DEF JournalInv, CountInv
<1>10. LinesInv'
  BY <1>1, <1>2, <1>4, <1>7 DEF JournalInv, LinesInv
<1>11. AckInv'
  BY <1>1, <1>4, KeptTwice DEF JournalInv, AckInv
<1>. QED
  BY <1>8, <1>9, <1>10, <1>11 DEF JournalInv

LEMMA PowerLossHolds == ASSUME RiseInv, JournalInv, PowerLoss PROVE JournalInv'
<1>1. /\ UNCHANGED <<job, record, floor, known, acked>> /\ disk' = file'
      /\ spent' = [spent EXCEPT !.troubles = @ + 1] /\ lock' = NoWriter
      /\ pc' = [v \in Writers |-> "down"] /\ stored'.now \in {stored.now, stored.safe}
  BY DEF PowerLoss, Trouble
<1>2. spent'.appends = spent.appends /\ spent.appends \in Nat
  BY <1>1 DEF RiseInv, JournalTypeOK
<1>3. /\ file \in Seq(JournalLine) /\ Tidy(file) /\ Lined(file, spent.appends)
      /\ disk \in Seq(JournalLine) /\ Tidy(disk) /\ Lined(disk, spent.appends)
      /\ Kept(disk, file)
  BY DEF RiseInv, JournalTypeOK, JournalInv, LinesInv, AckInv
<1>4. Tidy(file') /\ Lined(file', spent.appends) /\ Kept(disk, file')
  <2>0. Len(file) \in Nat /\ Len(disk) \in Nat
    BY <1>3, LinesOfFile
  <2>1. CASE file' \in {file, disk}
    BY <1>3, <2>1, KeptItself
  <2>2. ASSUME NEW k \in Len(disk) .. Len(file), file' = SubSeq(file, 1, k)
        PROVE  Tidy(file') /\ Lined(file', spent.appends) /\ Kept(disk, file')
    <3>1. k \in 0 .. Len(file) /\ Len(disk) <= k
      BY <2>0
    <3>. QED
      BY <1>2, <1>3, <2>2, <3>1, BeginningTidy
  <2>3. ASSUME NEW k \in Len(disk) .. Len(file) - 1, NEW form \in {"torn", "bare"},
               file' = Glued(SubSeq(file, 1, k), Text(file[k + 1], form))
        PROVE  Tidy(file') /\ Lined(file', spent.appends) /\ Kept(disk, file')
    <3>. DEFINE h == SubSeq(file, 1, k)
                t == Text(file[k + 1], form)
    <3>1. k \in 0 .. Len(file) /\ Len(disk) <= k /\ k < Len(file)
      BY <2>0
    <3>2. /\ h \in Seq(JournalLine) /\ Tidy(h) /\ Ended(h) /\ Lined(h, spent.appends)
          /\ LineOf(file[k + 1], spent.appends)
          /\ Kept(disk, h)
      BY <1>2, <1>3, <3>1, BeginningTidy
    <3>3. t \in JournalLine /\ LineOf(t, spent.appends)
      BY <1>2, <3>2, TextOfRecord DEF LineOf
    <3>. HIDE DEF h, t
    <3>4. Tidy(Glued(h, t)) /\ Lined(Glued(h, t), spent.appends) /\ Kept(h, Glued(h, t))
      BY <1>2, <3>2, <3>3, TextBehind
    <3>. QED
      BY <2>3, <3>2, <3>4, KeptTwice DEF h, t
  <2>. QED
    BY <2>1, <2>2, <2>3 DEF PowerLoss
<1>5. ASSUME NEW v \in Writers PROVE CallOf(v)' /\ ~Asking(v)' /\ ~Remembers(v)'
  <2>1. CallOf(v) /\ pc'[v] = "down"
    BY <1>1 DEF JournalInv, CallsInv
  <2>. QED
    BY <1>1, <1>2, <2>1, WritersAssumption DEF CallOf, Asking, Remembers
<1>6. CallsInv'
  BY <1>1, <1>2, <1>5 DEF JournalInv, CallsInv
<1>7. CountInv'
  BY <1>1, <1>2, <1>5 DEF JournalInv, CountInv, RiseInv, NumbersInv, JournalTypeOK
<1>8. LinesInv'
  BY <1>1, <1>2, <1>4, <1>5 DEF LinesInv
<1>9. AckInv'
  <2>1. \A id \in acked : \E i \in Whole(file') : file'[i].id = id
    BY <1>4 DEF JournalInv, AckInv, Kept
  <2>. QED
    BY <1>1, <2>1, KeptItself DEF AckInv
<1>. QED
  BY <1>6, <1>7, <1>8, <1>9 DEF JournalInv

LEMMA JournalInvHolds == JournalSpec => []JournalInv
<1>1. RiseInv /\ JournalInv /\ [JournalNext]_journalVars => JournalInv'
  <2>. SUFFICES ASSUME RiseInv, JournalInv, [JournalNext]_journalVars PROVE JournalInv'
    OBVIOUS
  <2>1. CASE UNCHANGED journalVars
    <3>1. UNCHANGED <<file, disk, stored, pc, job, record, floor, known, lock, acked, spent>>
      BY <2>1 DEF journalVars, store, local
    <3>2. \A v \in Writers : (CallOf(v) => CallOf(v)') /\ (Asking(v)' <=> Asking(v))
                             /\ (Remembers(v)' <=> Remembers(v))
      BY <3>1 DEF CallOf, Asking, Remembers
    <3>3. CallsInv' /\ CountInv'
      BY <3>1, <3>2 DEF JournalInv, CallsInv, CountInv
    <3>4. LinesInv' /\ AckInv'
      BY <3>1, <3>2 DEF JournalInv, LinesInv, AckInv
    <3>. QED
      BY <3>3, <3>4 DEF JournalInv
  <2>2. ASSUME NEW w \in Writers,
               \/ \E call \in {"open", "read"} : Begin(w, call)
               \/ AppendRecord(w) \/ Step(w) \/ CloseJournal(w) \/ Die(w)
        PROVE  JournalInv'
    BY <2>2, BeginHolds, AppendHolds, RepairHolds, InitializeHolds, NextHolds, WriteHolds,
       SyncHolds, CloseHolds, DeathHolds DEF Step
  <2>3. CASE PowerLoss
    BY <2>3, PowerLossHolds
  <2>. QED
    BY <2>1, <2>2, <2>3 DEF JournalNext
<1>. QED
  BY <1>1, JournalStarts, RiseInvHolds, PTL DEF JournalSpec

-----------------------------------------------------------------------------
LEMMA LinesFit ==
  ASSUME NEW f \in Seq(JournalLine), NEW n \in Nat, n <= MaxAppends, Lined(f, n)
  PROVE  f \in Seq(Lines)
<1>1. /\ DOMAIN f = 1 .. Len(f) /\ Len(f) \in Nat
      /\ f \in [1 .. Len(f) -> JournalLine]
  BY LenProperties
<1>2. ASSUME NEW l \in JournalLine, LineOf(l, n) PROVE l \in Lines
  <2>1. /\ l.id \in 1 .. MaxAppends /\ l.sequence \in 0 .. MaxAppends + MaxTroubles
        /\ l.bytes \in 1 .. 3 * MaxAppends
    BY <1>2, BoundsAssumption DEF LineOf
  <2>2. l = [id |-> l.id, sequence |-> l.sequence, parses |-> l.parses,
             newline |-> l.newline, bytes |-> l.bytes]
        /\ l.parses \in BOOLEAN /\ l.newline \in BOOLEAN
    BY Zenon DEF JournalLine
  <2>. QED
    BY <2>1, <2>2, Zenon DEF Lines
<1>3. \A i \in 1 .. Len(f) : f[i] \in Lines
  BY <1>1, <1>2 DEF Lined
<1>4. f \in [1 .. Len(f) -> Lines]
  BY <1>1, <1>3
<1>. QED
  BY <1>1, <1>4, SeqDef

(* For any handles, records, deaths and power losses: an append that       *)
(* writes without looking at the tail may do so, what was acknowledged is  *)
(* in the journal, and the numbers rise along it.                          *)
THEOREM JournalAlwaysHolds == JournalSpec => []JournalHolds
<1>1. RiseInv /\ JournalInv => JournalHolds
  <2>. SUFFICES ASSUME RiseInv, JournalInv PROVE JournalHolds
    OBVIOUS
  <2>1. TypeOK
    <3>1. file \in Seq(Lines) /\ disk \in Seq(Lines)
      BY LinesFit DEF RiseInv, JournalTypeOK, JournalInv, LinesInv, CallsInv
    <3>2. \A w \in Writers : /\ pc[w] \in {"down", "idle", "repair", "initialize",
                                           "sequence", "write", "sync"}
                             /\ lock = w <=> pc[w] \notin {"down", "idle"}
      BY DEF RiseInv, JournalTypeOK, HolderInv, JournalInv, CallsInv, CallOf, Outside
    <3>. QED
      BY <3>1, <3>2 DEF TypeOK, JournalInv, CallsInv
  <2>2. OnlyTheTailIsTorn
    BY DEF OnlyTheTailIsTorn, JournalInv, LinesInv, Tidy
  <2>3. KnownSizeIsValid
    BY SizesAreValid
  <2>4. AcknowledgedKept
    BY DEF AcknowledgedKept, JournalInv, AckInv, Kept
  <2>5. SequencesRise
    BY DEF RiseInv, NumbersInv, Rises, SequencesRise
  <2>. QED
    BY <2>1, <2>2, <2>3, <2>4, <2>5 DEF JournalHolds, TailInv
<1>. QED
  BY <1>1, RiseInvHolds, JournalInvHolds, PTL

-----------------------------------------------------------------------------
LineKinds == {"job-opened", "event", "preview-sealed", "job-closed", "torn"}
EvidenceLine == [id : Nat, seq : Nat, prev : Nat, kind : LineKinds]
Evidence == Seq(EvidenceLine)
Batches == BatchKinds \cup {<<"job-closed">>}

(* The batch that was begun last is not, or not yet, acknowledged; what    *)
(* the manifest says with it.                                              *)
Outstanding == batch # <<>> /\ batch[1].seq > sequence
Story == IF Outstanding THEN accepted \o batch ELSE accepted
Told(l) == l.kind = "torn" \/ (l.seq \in DOMAIN Story /\ Story[l.seq] = l)

EvidenceTypeOK ==
  /\ leaf \in Evidence /\ accepted \in Evidence /\ batch \in Evidence
  /\ waiting \in Seq(Batches)
  /\ durable \in Nat /\ written \in Nat /\ sequence \in Nat /\ previousHash \in Nat
  /\ damages \in Nat
  /\ stepOf \in {"idle", "write", "sync", "confirm"}
  /\ reader.seen \in Evidence /\ reader.size \in Nat /\ DOMAIN reader = {"ending", "at", "size", "seen", "valid"}

(* An event is told at the place of its number, and a closing one last:    *)
(* once a batch has failed nothing is begun after it.                      *)
StoryInv ==
  /\ sequence = Len(accepted) /\ sequence >= 1
  /\ \A i \in DOMAIN Story : Story[i].seq = i /\ Story[i].kind # "torn"
                             /\ (Story[i].kind = "job-closed" => i = Len(Story))
  /\ Outstanding => stepOf # "idle" \/ shutdown
  /\ Outstanding /\ Last(batch).kind = "job-closed" => Len(batch) = 1
  /\ ~shutdown => Last(accepted).kind # "job-closed"
  /\ stepOf # "idle" =>
       /\ Outstanding /\ ~shutdown /\ waiting # <<>> /\ Len(batch) = Len(Head(waiting))
       /\ \A k \in DOMAIN batch : batch[k].kind = Head(waiting)[k] /\ batch[k].seq = sequence + k

(* Whatever became of the file, a line of it is told or is a torn one.     *)
FileInv ==
  /\ \A i \in DOMAIN leaf : Told(leaf[i])
  /\ alive /\ ~shutdown =>
       damages = 0 /\ leaf = IF stepOf \in {"sync", "confirm"} THEN Story ELSE accepted
  /\ alive /\ stepOf = "confirm" => durable = Len(leaf)
  /\ damages = 0 => /\ Len(accepted) <= Len(leaf) /\ Len(accepted) <= durable
                    /\ \A i \in DOMAIN accepted : leaf[i] = accepted[i]

SeenInv ==
  /\ \A i \in DOMAIN reader.seen : Told(reader.seen[i])
  /\ reader.valid => /\ reader.at = "idle" /\ reader.seen # <<>> /\ Last(reader.seen).kind = reader.ending
                     /\ \A i \in DOMAIN reader.seen :
                          reader.seen[i].seq = i /\ reader.seen[i].kind # "torn"

LEMMA EvidenceShape ==
  ASSUME NEW f \in Evidence
  PROVE  /\ DOMAIN f = 1 .. Len(f) /\ Len(f) \in Nat /\ (f = <<>> <=> Len(f) = 0)
         /\ \A i \in DOMAIN f : f[i] \in EvidenceLine /\ f[i].seq \in Nat
<1>1. /\ DOMAIN f = 1 .. Len(f) /\ Len(f) \in Nat /\ (f = <<>> <=> Len(f) = 0)
      /\ \A i \in 1 .. Len(f) : f[i] \in EvidenceLine
  BY LenProperties, ElementOfSeq, EmptySeq DEF Evidence
<1>2. \A l \in EvidenceLine : l.seq \in Nat
  BY DEF EvidenceLine
<1>. QED
  BY <1>1, <1>2

LEMMA TornIsLine == Torn \in EvidenceLine /\ Torn.kind = "torn"
  BY DEF Torn, EvidenceLine, LineKinds

LEMMA Joined ==
  ASSUME NEW f \in Evidence, NEW g \in Evidence
  PROVE  /\ f \o g \in Evidence /\ Len(f \o g) = Len(f) + Len(g)
         /\ DOMAIN (f \o g) = 1 .. Len(f) + Len(g)
         /\ \A i \in DOMAIN f : (f \o g)[i] = f[i]
         /\ \A k \in DOMAIN g : (f \o g)[Len(f) + k] = g[k]
         /\ \A i \in DOMAIN (f \o g) :
              i \in DOMAIN f \/ \E k \in DOMAIN g : i = Len(f) + k /\ (f \o g)[i] = g[k]
<1>1. /\ f \o g \in Evidence /\ Len(f \o g) = Len(f) + Len(g)
      /\ \A i \in 1 .. Len(f) + Len(g) : (f \o g)[i] =
           IF i <= Len(f) THEN f[i] ELSE g[i - Len(f)]
  BY ConcatProperties DEF Evidence
<1>. DEFINE h == f \o g
<1>2. /\ DOMAIN f = 1 .. Len(f) /\ Len(f) \in Nat /\ DOMAIN g = 1 .. Len(g) /\ Len(g) \in Nat
      /\ DOMAIN h = 1 .. Len(f) + Len(g)
  BY <1>1, EvidenceShape
<1>. HIDE DEF h
<1>3. \A i \in 1 .. Len(f) + Len(g) : h[i] = IF i <= Len(f) THEN f[i] ELSE g[i - Len(f)]
  BY <1>1 DEF h
<1>4. \A i \in DOMAIN f : h[i] = f[i]
  BY <1>2, <1>3
<1>5. ASSUME NEW k \in DOMAIN g PROVE h[Len(f) + k] = g[k]
  <2>1. /\ Len(f) + k \in 1 .. Len(f) + Len(g) /\ ~(Len(f) + k <= Len(f))
        /\ Len(f) + k - Len(f) = k
    BY <1>2
  <2>. QED
    BY <1>3, <2>1
<1>6. ASSUME NEW i \in DOMAIN h, i \notin DOMAIN f
      PROVE  \E k \in DOMAIN g : i = Len(f) + k /\ h[i] = g[k]
  <2>1. i - Len(f) \in DOMAIN g /\ i = Len(f) + (i - Len(f))
    BY <1>2, <1>6
  <2>. QED
    BY <1>5, <2>1
<1>. QED
  BY <1>1, <1>2, <1>4, <1>5, <1>6 DEF h

LEMMA PieceOf ==
  ASSUME NEW f \in Evidence, NEW n \in 0 .. Len(f)
  PROVE  /\ SubSeq(f, 1, n) \in Evidence /\ Len(SubSeq(f, 1, n)) = n
         /\ DOMAIN SubSeq(f, 1, n) = 1 .. n
         /\ \A i \in 1 .. n : SubSeq(f, 1, n)[i] = f[i] /\ i \in DOMAIN f
<1>1. /\ Len(f) \in Nat /\ n \in Nat /\ DOMAIN f = 1 .. Len(f)
      /\ \A i \in 1 .. n : f[i] \in EvidenceLine /\ i \in DOMAIN f
  BY EvidenceShape
<1>2. /\ SubSeq(f, 1, n) \in Evidence
      /\ Len(SubSeq(f, 1, n)) = IF 1 <= n THEN n - 1 + 1 ELSE 0
      /\ \A i \in 1 .. n - 1 + 1 : SubSeq(f, 1, n)[i] = f[1 + i - 1]
  BY <1>1, SubSeqProperties DEF Evidence
<1>3. Len(SubSeq(f, 1, n)) = n
  BY <1>1, <1>2
<1>4. \A i \in 1 .. n : 1 + i - 1 = i /\ i \in 1 .. n - 1 + 1
  BY <1>1
<1>5. \A i \in 1 .. n : SubSeq(f, 1, n)[i] = f[i]
  BY <1>2, <1>4
<1>. QED
  BY <1>1, <1>2, <1>3, <1>5, EvidenceShape

LEMMA TailOf ==
  ASSUME NEW h \in Evidence, NEW g, g = h \/ g = Append(h, Torn)
  PROVE  /\ g \in Evidence /\ Len(h) <= Len(g)
         /\ \A i \in DOMAIN h : i \in DOMAIN g /\ g[i] = h[i]
         /\ \A i \in DOMAIN g : g[i].kind = "torn" \/ (i \in DOMAIN h /\ g[i] = h[i])
<1>1. DOMAIN h = 1 .. Len(h) /\ Len(h) \in Nat
  BY EvidenceShape
<1>2. CASE g = h
  <2>1. Len(h) <= Len(h)
    BY <1>1
  <2>. QED
    BY <1>2, <2>1
<1>3. CASE g = Append(h, Torn)
  <2>2. /\ g \in Evidence /\ Len(g) = Len(h) + 1 /\ g[Len(h) + 1] = Torn
        /\ \A i \in 1 .. Len(h) : g[i] = h[i]
    BY <1>3, TornIsLine, AppendProperties DEF Evidence
  <2>3. DOMAIN g = 1 .. Len(h) + 1
    BY <2>2, EvidenceShape
  <2>4. \A i \in DOMAIN g : g[i].kind = "torn" \/ (i \in DOMAIN h /\ g[i] = h[i])
    BY <1>1, <2>2, <2>3, TornIsLine
  <2>5. Len(h) <= Len(g) /\ \A i \in DOMAIN h : i \in DOMAIN g /\ g[i] = h[i]
    BY <1>1, <2>2, <2>3
  <2>. QED
    BY <1>3, <2>2, <2>4, <2>5
<1>. QED
  BY <1>2, <1>3

(* What a write leaves of a batch behind the file: lines of the file, of   *)
(* the batch, and a torn one perhaps.                                      *)
LEMMA WrittenOut ==
  ASSUME NEW f \in Evidence, NEW b \in Evidence, NEW n \in 0 .. Len(b), NEW g,
         g = f \o SubSeq(b, 1, n) \/ g = Append(f \o SubSeq(b, 1, n), Torn)
  PROVE  /\ g \in Evidence /\ Len(f) <= Len(g)
         /\ \A i \in DOMAIN f : i \in DOMAIN g /\ g[i] = f[i]
         /\ \A i \in DOMAIN g : \/ g[i].kind = "torn"
                                \/ \E j \in DOMAIN f : g[i] = f[j]
                                \/ \E j \in DOMAIN b : g[i] = b[j]
         /\ n = Len(b) => f \o SubSeq(b, 1, n) = f \o b
<1>. DEFINE p == SubSeq(b, 1, n)
            h == f \o p
<1>1. /\ p \in Evidence /\ DOMAIN p = 1 .. n /\ \A i \in DOMAIN p : p[i] = b[i] /\ i \in DOMAIN b
      /\ n = Len(b) => p = b
  <2>1. SubSeq(b, 1, Len(b)) = b
    BY SubSeqFull DEF Evidence
  <2>. QED
    BY <2>1, PieceOf
<1>. HIDE DEF p
<1>2. /\ h \in Evidence /\ Len(h) = Len(f) + Len(p)
      /\ DOMAIN h = 1 .. Len(f) + Len(p)
      /\ \A i \in DOMAIN f : h[i] = f[i]
      /\ \A i \in DOMAIN h : i \in DOMAIN f \/ \E k \in DOMAIN p : i = Len(f) + k /\ h[i] = p[k]
  BY <1>1, Joined
<1>. HIDE DEF h
<1>3. /\ g \in Evidence /\ Len(h) <= Len(g)
      /\ \A i \in DOMAIN h : i \in DOMAIN g /\ g[i] = h[i]
      /\ \A i \in DOMAIN g : g[i].kind = "torn" \/ (i \in DOMAIN h /\ g[i] = h[i])
  <2>1. g = h \/ g = Append(h, Torn)
    BY DEF h, p
  <2>. QED
    BY <1>2, <2>1, TailOf
<1>4. /\ DOMAIN f = 1 .. Len(f) /\ Len(f) \in Nat /\ Len(p) \in Nat /\ Len(g) \in Nat
  BY <1>1, <1>3, EvidenceShape
<1>5. Len(f) <= Len(g)
  BY <1>2, <1>3, <1>4
<1>6. \A i \in DOMAIN f : i \in DOMAIN g /\ g[i] = f[i]
  BY <1>2, <1>3, <1>4
<1>7. \A i \in DOMAIN g : \/ g[i].kind = "torn"
                          \/ \E j \in DOMAIN f : g[i] = f[j]
                          \/ \E j \in DOMAIN b : g[i] = b[j]
  <2>. SUFFICES ASSUME NEW i \in DOMAIN g, g[i].kind # "torn"
                PROVE  (\E j \in DOMAIN f : g[i] = f[j]) \/ (\E j \in DOMAIN b : g[i] = b[j])
    OBVIOUS
  <2>1. i \in DOMAIN h /\ g[i] = h[i]
    BY <1>3
  <2>. QED
    BY <1>1, <1>2, <2>1
<1>8. n = Len(b) => f \o SubSeq(b, 1, n) = f \o b
  BY <1>1 DEF p
<1>. QED
  BY <1>3, <1>5, <1>6, <1>7, <1>8

-----------------------------------------------------------------------------
LEMMA StoryIs ==
  ASSUME EvidenceTypeOK
  PROVE  /\ Story \in Evidence /\ DOMAIN Story = 1 .. Len(Story) /\ Len(Story) \in Nat
         /\ DOMAIN accepted = 1 .. Len(accepted) /\ Len(accepted) \in Nat
         /\ Len(accepted) <= Len(Story)
         /\ \A i \in DOMAIN accepted : i \in DOMAIN Story /\ Story[i] = accepted[i]
         /\ ~Outstanding => Story = accepted
         /\ Outstanding =>
              /\ Story = accepted \o batch /\ Len(batch) \in Nat /\ DOMAIN batch = 1 .. Len(batch)
              /\ Len(Story) = Len(accepted) + Len(batch) /\ batch # <<>>
              /\ \A k \in DOMAIN batch : Len(accepted) + k \in DOMAIN Story
                                         /\ Story[Len(accepted) + k] = batch[k]
<1>1. /\ accepted \in Evidence /\ batch \in Evidence
      /\ DOMAIN accepted = 1 .. Len(accepted) /\ Len(accepted) \in Nat
      /\ DOMAIN batch = 1 .. Len(batch) /\ Len(batch) \in Nat
  BY EvidenceShape DEF EvidenceTypeOK
<1>2. CASE ~Outstanding
  <2>1. Story = accepted
    BY <1>2 DEF Story
  <2>2. Len(accepted) <= Len(accepted)
    BY <1>1
  <2>. QED
    BY <1>1, <1>2, <2>1, <2>2, Zenon
<1>3. CASE Outstanding
  <2>. DEFINE h == accepted \o batch
  <2>1. /\ h \in Evidence /\ Len(h) = Len(accepted) + Len(batch)
        /\ DOMAIN h = 1 .. Len(accepted) + Len(batch)
        /\ \A i \in DOMAIN accepted : h[i] = accepted[i]
        /\ \A k \in DOMAIN batch : h[Len(accepted) + k] = batch[k]
    BY <1>1, Joined
  <2>2. Story = h
    BY <1>3 DEF Story
  <2>3. batch # <<>>
    BY <1>3 DEF Outstanding
  <2>. HIDE DEF h
  <2>4. /\ DOMAIN h = 1 .. Len(h) /\ Len(h) \in Nat /\ Len(accepted) <= Len(h)
        /\ \A i \in DOMAIN accepted : i \in DOMAIN h
        /\ \A k \in DOMAIN batch : Len(accepted) + k \in DOMAIN h
    BY <1>1, <2>1
  <2>. QED
    BY <1>1, <1>3, <2>1, <2>2, <2>3, <2>4 DEF h
<1>. QED
  BY <1>2, <1>3

LEMMA SameStory ==
  ASSUME UNCHANGED <<accepted, batch, sequence>>
  PROVE  /\ Story' = Story /\ (Outstanding' <=> Outstanding)
         /\ \A l : Told(l)' <=> Told(l)
  BY DEF Story, Outstanding, Told

LEMMA ToldStays ==
  ASSUME \A i \in DOMAIN Story : i \in DOMAIN Story' /\ Story'[i] = Story[i]
  PROVE  \A l : Told(l) => Told(l)'
  BY DEF Told

EvidenceInv == EvidenceTypeOK /\ StoryInv /\ FileInv /\ SeenInv

LEMMA WaitingIs ==
  ASSUME EvidenceTypeOK, waiting # <<>>
  PROVE  Head(waiting) \in Batches /\ Tail(waiting) \in Seq(Batches)
  BY HeadTailProperties DEF EvidenceTypeOK

(* What holds of the lines that were read goes on holding while the reader *)
(* rests and the story is the same, or goes on.                            *)
LEMMA SeenStays ==
  ASSUME SeenInv, UNCHANGED reader,
         \A i \in DOMAIN Story : i \in DOMAIN Story' /\ Story'[i] = Story[i]
  PROVE  SeenInv'
  BY ToldStays DEF SeenInv

LEMMA QueueKeeps ==
  ASSUME EvidenceInv, CloseManifest \/ \E kinds \in BatchKinds : AppendBatch(kinds)
  PROVE  EvidenceInv'
<1>1. /\ \E k \in Batches : waiting' = Append(waiting, k)
      /\ UNCHANGED <<onDisk, sequence, previousHash, shutdown, stepOf, batch, written, accepted,
                     reading, alive, damages>>
  BY DEF CloseManifest, AppendBatch, Batches, onDisk, reading
<1>2. PICK k \in Batches : waiting' = Append(waiting, k)
  BY <1>1
<1>3. waiting' \in Seq(Batches) /\ (waiting # <<>> => waiting' # <<>> /\ Head(waiting') = Head(waiting))
  BY <1>2, AppendProperties, HeadTailAppend DEF EvidenceInv, EvidenceTypeOK
<1>4. Story' = Story /\ (Outstanding' <=> Outstanding) /\ \A l : Told(l)' <=> Told(l)
  BY <1>1, SameStory
<1>5. EvidenceTypeOK'
  BY <1>1, <1>3 DEF EvidenceInv, EvidenceTypeOK, onDisk, reading
<1>6. StoryInv'
  BY <1>1, <1>3, <1>4 DEF EvidenceInv, StoryInv
<1>7. FileInv'
  BY <1>1, <1>4 DEF EvidenceInv, FileInv, onDisk
<1>8. SeenInv'
  BY <1>1, <1>4, SeenStays DEF EvidenceInv, reading
<1>. QED
  BY <1>5, <1>6, <1>7, <1>8 DEF EvidenceInv

(* A batch that fails ends the story: the manifest is shut.                *)
LEMMA FailEnds ==
  ASSUME EvidenceInv, stepOf # "idle", FailBatch, UNCHANGED <<sequence, accepted, batch>>
  PROVE  waiting' \in Seq(Batches) /\ StoryInv'
<1>1. waiting' \in Seq(Batches) /\ stepOf' = "idle" /\ shutdown'
  BY WaitingIs DEF FailBatch, EvidenceInv, StoryInv
<1>2. Story' = Story /\ (Outstanding' <=> Outstanding)
  BY SameStory
<1>. QED
  BY <1>1, <1>2 DEF EvidenceInv, StoryInv

LEMMA WriteKeepsEvidence == ASSUME EvidenceInv, WriteBatch PROVE EvidenceInv'
<1>1. /\ UNCHANGED <<durable, sequence, previousHash, batch, written, accepted, reading, alive,
                     damages>>
      /\ alive /\ stepOf = "write"
      /\ FailBatch \/ (stepOf' = "sync" /\ UNCHANGED <<waiting, shutdown>>)
  BY DEF WriteBatch
<1>2. Story' = Story /\ (Outstanding' <=> Outstanding) /\ \A l : Told(l)' <=> Told(l)
  BY <1>1, SameStory
<1>3. /\ ~shutdown /\ damages = 0 /\ leaf = accepted /\ leaf \in Evidence /\ batch \in Evidence
      /\ Outstanding /\ Story = accepted \o batch
  BY <1>1, StoryIs DEF EvidenceInv, EvidenceTypeOK, StoryInv, FileInv
<1>4. /\ leaf' \in Evidence /\ Len(leaf) <= Len(leaf') /\ Len(leaf') \in Nat
      /\ \A i \in DOMAIN leaf : i \in DOMAIN leaf' /\ leaf'[i] = leaf[i]
      /\ \A i \in DOMAIN leaf' : \/ leaf'[i].kind = "torn"
                                 \/ \E j \in DOMAIN leaf : leaf'[i] = leaf[j]
                                 \/ \E j \in DOMAIN batch : leaf'[i] = batch[j]
      /\ stepOf' = "sync" => leaf' = leaf \o batch
  <2>1. CASE FailBatch /\ UNCHANGED leaf
    <3>1. stepOf' = "idle"
      BY <2>1 DEF FailBatch
    <3>2. Len(leaf) \in Nat
      BY <1>3, EvidenceShape
    <3>. QED
      BY <1>3, <2>1, <3>1, <3>2
  <2>2. ASSUME NEW n \in 0 .. Len(batch), NEW torn \in BOOLEAN,
               leaf' = WithTail(leaf \o SubSeq(batch, 1, n), torn),
               torn => n < Len(batch), FailBatch \/ n = Len(batch)
        PROVE  /\ leaf' \in Evidence /\ Len(leaf) <= Len(leaf') /\ Len(leaf') \in Nat
               /\ \A i \in DOMAIN leaf : i \in DOMAIN leaf' /\ leaf'[i] = leaf[i]
               /\ \A i \in DOMAIN leaf' : \/ leaf'[i].kind = "torn"
                                          \/ \E j \in DOMAIN leaf : leaf'[i] = leaf[j]
                                          \/ \E j \in DOMAIN batch : leaf'[i] = batch[j]
               /\ stepOf' = "sync" => leaf' = leaf \o batch
    <3>1. FailBatch => stepOf' = "idle"
      BY DEF FailBatch
    <3>2. n = Len(batch) => ~torn
      BY <1>3, <2>2, EvidenceShape
    <3>3. /\ leaf' \in Evidence /\ Len(leaf) <= Len(leaf')
          /\ \A i \in DOMAIN leaf : i \in DOMAIN leaf' /\ leaf'[i] = leaf[i]
          /\ \A i \in DOMAIN leaf' : \/ leaf'[i].kind = "torn"
                                     \/ \E j \in DOMAIN leaf : leaf'[i] = leaf[j]
                                     \/ \E j \in DOMAIN batch : leaf'[i] = batch[j]
          /\ n = Len(batch) => leaf \o SubSeq(batch, 1, n) = leaf \o batch
      <4>1. \/ leaf' = leaf \o SubSeq(batch, 1, n)
            \/ leaf' = Append(leaf \o SubSeq(batch, 1, n), Torn)
        BY <2>2 DEF WithTail
      <4>2. leaf \in Evidence /\ batch \in Evidence /\ n \in 0 .. Len(batch)
        BY <1>3
      <4>. QED
        BY ONLY <4>1, <4>2, WrittenOut
    <3>5. ~torn => leaf' = leaf \o SubSeq(batch, 1, n)
      BY <2>2 DEF WithTail
    <3>4. Len(leaf') \in Nat
      BY <3>3, EvidenceShape
    <3>. QED
      BY <2>2, <3>1, <3>2, <3>3, <3>4, <3>5
  <2>. QED
    BY <2>1, <2>2 DEF WriteBatch
<1>5. /\ waiting' \in Seq(Batches) /\ StoryInv' /\ stepOf' \in {"idle", "sync"}
      /\ stepOf' = "sync" \/ shutdown'
  <2>1. CASE FailBatch
    BY <1>1, <2>1, FailEnds DEF FailBatch
  <2>2. CASE stepOf' = "sync" /\ UNCHANGED <<waiting, shutdown>>
    BY <1>1, <1>2, <2>2 DEF EvidenceInv, StoryInv, EvidenceTypeOK
  <2>. QED
    BY <1>1, <2>1, <2>2
<1>6. EvidenceTypeOK'
  BY <1>1, <1>4, <1>5 DEF EvidenceInv, EvidenceTypeOK, reading
<1>7. \A i \in DOMAIN leaf' : Told(leaf'[i])
  <2>1. \A j \in DOMAIN leaf : Told(leaf[j])
    BY DEF EvidenceInv, FileInv
  <2>2. ASSUME NEW j \in DOMAIN batch PROVE Told(batch[j])
    <3>1. Len(accepted) + j \in DOMAIN Story /\ Story[Len(accepted) + j] = batch[j]
      BY <1>3, StoryIs DEF EvidenceInv
    <3>. QED
      BY <3>1 DEF Told, EvidenceInv, StoryInv
  <2>. QED
    BY <1>4, <2>1, <2>2 DEF Told
<1>8. FileInv'
  <2>1. alive' /\ ~shutdown' =>
          damages' = 0 /\ leaf' = IF stepOf' \in {"sync", "confirm"} THEN Story' ELSE accepted'
    BY <1>1, <1>2, <1>3, <1>4, <1>5
  <2>2. /\ Len(accepted) <= Len(leaf') /\ Len(accepted) <= durable
        /\ \A i \in DOMAIN accepted : leaf'[i] = accepted[i]
    BY <1>3, <1>4 DEF EvidenceInv, FileInv
  <2>. QED
    BY <1>1, <1>2, <1>5, <1>7, <2>1, <2>2 DEF FileInv
<1>9. SeenInv'
  BY <1>1, <1>2, SeenStays DEF EvidenceInv, reading
<1>. QED
  BY <1>5, <1>6, <1>8, <1>9 DEF EvidenceInv

LEMMA SyncKeepsEvidence == ASSUME EvidenceInv, SyncBatch PROVE EvidenceInv'
<1>1. /\ UNCHANGED <<leaf, sequence, previousHash, batch, written, accepted, reading, alive, damages>>
      /\ alive /\ stepOf = "sync"
      /\ \/ FailBatch /\ UNCHANGED durable
         \/ durable' = Len(leaf) /\ stepOf' = "confirm" /\ UNCHANGED <<waiting, shutdown>>
  BY DEF SyncBatch
<1>2. Story' = Story /\ (Outstanding' <=> Outstanding) /\ \A l : Told(l)' <=> Told(l)
  BY <1>1, SameStory
<1>3. ~shutdown /\ damages = 0 /\ leaf = Story /\ Len(leaf) \in Nat /\ Len(accepted) <= Len(leaf)
  BY <1>1, StoryIs DEF EvidenceInv, StoryInv, FileInv
<1>4. /\ waiting' \in Seq(Batches) /\ StoryInv' /\ stepOf' \in {"idle", "confirm"}
      /\ durable' \in Nat
      /\ stepOf' = "confirm" => ~shutdown' /\ durable' = Len(leaf)
      /\ stepOf' = "idle" => shutdown' /\ durable' = durable
  <2>1. CASE FailBatch /\ UNCHANGED durable
    BY <1>1, <2>1, FailEnds DEF FailBatch, EvidenceInv, EvidenceTypeOK
  <2>2. CASE durable' = Len(leaf) /\ stepOf' = "confirm" /\ UNCHANGED <<waiting, shutdown>>
    BY <1>1, <1>2, <1>3, <2>2 DEF EvidenceInv, StoryInv, EvidenceTypeOK
  <2>. QED
    BY <1>1, <2>1, <2>2
<1>5. EvidenceTypeOK'
  BY <1>1, <1>4 DEF EvidenceInv, EvidenceTypeOK, reading
<1>6. FileInv'
  BY <1>1, <1>2, <1>3, <1>4 DEF EvidenceInv, FileInv
<1>7. SeenInv'
  BY <1>1, <1>2, SeenStays DEF EvidenceInv, reading
<1>. QED
  BY <1>4, <1>5, <1>6, <1>7 DEF EvidenceInv

LEMMA EventsAre ==
  ASSUME EvidenceTypeOK, NEW b \in Batches
  PROVE  /\ Events(b) \in Evidence /\ Len(Events(b)) = Len(b) /\ Len(b) \in Nat /\ Len(b) >= 1
         /\ Events(b) # <<>> /\ DOMAIN Events(b) = 1 .. Len(b)
         /\ \A i \in 1 .. Len(b) :
              /\ Events(b)[i].seq = sequence + i /\ Events(b)[i].kind = b[i] /\ b[i] # "torn"
              /\ b[i] = "job-closed" => Len(b) = 1
<1>1. /\ Len(b) \in Nat /\ Len(b) >= 1
      /\ \A i \in 1 .. Len(b) : /\ b[i] \in LineKinds /\ b[i] # "torn"
                                /\ b[i] = "job-closed" => Len(b) = 1
  BY DEF Batches, BatchKinds, LineKinds
<1>2. sequence \in Nat /\ written \in Nat /\ previousHash \in Nat
  BY DEF EvidenceTypeOK
<1>. DEFINE e(i) == [id |-> written + i, seq |-> sequence + i,
                     prev |-> IF i = 1 THEN previousHash ELSE written + i - 1, kind |-> b[i]]
<1>3. ASSUME NEW i \in 1 .. Len(b)
      PROVE  e(i) \in EvidenceLine /\ e(i).seq = sequence + i /\ e(i).kind = b[i]
  BY <1>1, <1>2 DEF EvidenceLine
<1>4. Events(b) = [i \in 1 .. Len(b) |-> e(i)]
  BY DEF Events
<1>. HIDE DEF e
<1>5. Events(b) \in Evidence
  BY <1>1, <1>3, <1>4 DEF Evidence
<1>6. DOMAIN Events(b) = 1 .. Len(b) /\ \A i \in 1 .. Len(b) : Events(b)[i] = e(i)
  BY <1>4
<1>7. Len(Events(b)) = Len(b) /\ Events(b) # <<>>
  BY <1>1, <1>4, <1>5, <1>6, EvidenceShape
<1>. QED
  BY <1>1, <1>3, <1>5, <1>6, <1>7

(* The lines of a batch that is outstanding are told.                      *)
LEMMA BatchIsTold ==
  ASSUME EvidenceInv, Outstanding, NEW j \in DOMAIN batch
  PROVE  Told(batch[j])
<1>1. Len(accepted) + j \in DOMAIN Story /\ Story[Len(accepted) + j] = batch[j]
  BY StoryIs DEF EvidenceInv
<1>. QED
  BY <1>1 DEF Told, EvidenceInv, StoryInv

LEMMA BeginKeepsEvidence == ASSUME EvidenceInv, BeginBatch PROVE EvidenceInv'
<1>1. /\ UNCHANGED <<leaf, durable, sequence, previousHash, shutdown, accepted, reader, alive, damages>>
      /\ alive /\ stepOf = "idle" /\ waiting # <<>>
  BY DEF BeginBatch, onDisk, reading
<1>. DEFINE b == Head(waiting)
<1>2. b \in Batches /\ Tail(waiting) \in Seq(Batches)
  BY <1>1, WaitingIs DEF EvidenceInv
<1>3. CASE shutdown
  <2>1. waiting' = Tail(waiting) /\ UNCHANGED <<stepOf, batch, written>>
    BY <1>3 DEF BeginBatch
  <2>2. Story' = Story /\ (Outstanding' <=> Outstanding) /\ \A l : Told(l)' <=> Told(l)
    BY <1>1, <2>1, SameStory
  <2>3. EvidenceTypeOK'
    BY <1>1, <1>2, <2>1 DEF EvidenceInv, EvidenceTypeOK
  <2>4. StoryInv'
    BY <1>1, <1>3, <2>1, <2>2 DEF EvidenceInv, StoryInv
  <2>5. FileInv'
    BY <1>1, <2>1, <2>2 DEF EvidenceInv, FileInv
  <2>6. SeenInv'
    BY <1>1, <2>2, SeenStays DEF EvidenceInv
  <2>. QED
    BY <2>3, <2>4, <2>5, <2>6 DEF EvidenceInv
<1>4. CASE ~shutdown
  <2>1. stepOf' = "write" /\ batch' = Events(b) /\ written' = written + Len(b) /\ waiting' = waiting
    BY <1>4 DEF BeginBatch
  <2>2. /\ batch' \in Evidence /\ Len(batch') = Len(b) /\ Len(b) \in Nat /\ Len(b) >= 1
        /\ batch' # <<>> /\ DOMAIN batch' = 1 .. Len(b)
        /\ \A i \in 1 .. Len(b) :
             /\ batch'[i].seq = sequence + i /\ batch'[i].kind = b[i] /\ b[i] # "torn"
             /\ b[i] = "job-closed" => Len(b) = 1
    BY <1>2, <2>1, EventsAre DEF EvidenceInv
  <2>. HIDE DEF b
  <2>3. /\ Story = accepted /\ accepted \in Evidence /\ sequence = Len(accepted) /\ sequence \in Nat
        /\ sequence >= 1 /\ DOMAIN accepted = 1 .. Len(accepted)
        /\ \A i \in DOMAIN accepted : accepted[i].seq = i /\ accepted[i].kind # "torn"
                                      /\ (accepted[i].kind = "job-closed" => i = Len(accepted))
        /\ accepted[Len(accepted)].kind # "job-closed"
    BY <1>1, <1>4, EvidenceShape DEF EvidenceInv, StoryInv, Story, EvidenceTypeOK, Last
  <2>4. Outstanding'
    BY <1>1, <2>2, <2>3 DEF Outstanding
  <2>. DEFINE h == accepted \o batch'
  <2>5. Story' = h
    BY <1>1, <2>4 DEF Story
  <2>6. /\ h \in Evidence /\ Len(h) = Len(accepted) + Len(b)
        /\ DOMAIN h = 1 .. Len(accepted) + Len(b)
        /\ \A i \in DOMAIN accepted : h[i] = accepted[i]
        /\ \A i \in DOMAIN h :
             i \in DOMAIN accepted \/ \E k \in DOMAIN batch' : i = Len(accepted) + k /\ h[i] = batch'[k]
    <3>1. accepted \in Evidence /\ batch' \in Evidence /\ Len(batch') = Len(b)
      BY <2>2, <2>3
    <3>2. /\ h \in Evidence /\ Len(h) = Len(accepted) + Len(batch')
          /\ DOMAIN h = 1 .. Len(accepted) + Len(batch')
          /\ \A i \in DOMAIN accepted : h[i] = accepted[i]
          /\ \A i \in DOMAIN h :
               i \in DOMAIN accepted
                 \/ \E k \in DOMAIN batch' : i = Len(accepted) + k /\ h[i] = batch'[k]
      BY ONLY <3>1, Joined, Zenon
    <3>. HIDE DEF h
    <3>. QED
      BY ONLY <3>1, <3>2
  <2>. HIDE DEF h
  <2>7. ASSUME NEW i \in DOMAIN h
        PROVE  h[i].seq = i /\ h[i].kind # "torn" /\ (h[i].kind = "job-closed" => i = Len(h))
    <3>1. CASE i \in DOMAIN accepted
      <4>1. accepted[i].kind # "job-closed"
        BY <2>3, <3>1
      <4>. QED
        BY <2>3, <2>6, <3>1, <4>1
    <3>2. CASE i \notin DOMAIN accepted
      <4>1. PICK k \in 1 .. Len(b) : i = Len(accepted) + k /\ h[i] = batch'[k]
        BY <2>2, <2>6, <3>2
      <4>2. h[i].seq = sequence + k /\ h[i].kind = b[k] /\ b[k] # "torn"
            /\ (b[k] = "job-closed" => Len(b) = 1)
        BY <2>2, <4>1
      <4>. QED
        BY <2>2, <2>3, <2>6, <4>1, <4>2
    <3>. QED
      BY <3>1, <3>2
  <2>8. StoryInv'
    <3>1. Last(batch').kind = "job-closed" => Len(batch') = 1
      BY <2>2 DEF Last
    <3>2. \A k \in DOMAIN batch' : batch'[k].kind = b[k] /\ batch'[k].seq = sequence' + k
      BY <1>1, <2>2
    <3>3. Last(accepted').kind # "job-closed"
      BY <1>1, <2>3 DEF Last
    <3>4. waiting' # <<>> /\ Len(batch') = Len(Head(waiting')) /\ b = Head(waiting')
      BY <1>1, <2>1, <2>2 DEF b
    <3>. QED
      BY <1>1, <1>4, <2>1, <2>3, <2>4, <2>5, <2>7, <3>1, <3>2, <3>3, <3>4 DEF StoryInv
  <2>9. \A i \in DOMAIN Story : i \in DOMAIN Story' /\ Story'[i] = Story[i]
    BY <2>2, <2>3, <2>5, <2>6
  <2>10. EvidenceTypeOK'
    BY <1>1, <2>1, <2>2 DEF EvidenceInv, EvidenceTypeOK
  <2>11. FileInv'
    BY <1>1, <2>1, <2>9, ToldStays DEF EvidenceInv, FileInv
  <2>12. SeenInv'
    BY <1>1, <2>9, SeenStays DEF EvidenceInv
  <2>. QED
    BY <2>8, <2>10, <2>11, <2>12 DEF EvidenceInv
<1>. QED
  BY <1>3, <1>4

LEMMA ConfirmKeepsEvidence == ASSUME EvidenceInv, ConfirmBatch PROVE EvidenceInv'
<1>1. /\ UNCHANGED <<leaf, durable, batch, written, reader, alive, damages>>
      /\ alive /\ stepOf = "confirm"
  BY DEF ConfirmBatch, onDisk, reading
<1>2. /\ ~shutdown /\ damages = 0 /\ leaf = Story /\ durable = Len(leaf) /\ Outstanding
      /\ waiting # <<>> /\ Len(batch) = Len(Head(waiting))
      /\ \A k \in DOMAIN batch : batch[k].kind = Head(waiting)[k] /\ batch[k].seq = sequence + k
  BY <1>1 DEF EvidenceInv, StoryInv, FileInv
<1>3. CASE FailBatch /\ UNCHANGED <<sequence, previousHash, accepted>>
  <2>1. Story' = Story /\ (Outstanding' <=> Outstanding) /\ \A l : Told(l)' <=> Told(l)
    BY <1>1, <1>3, SameStory
  <2>2. waiting' \in Seq(Batches) /\ StoryInv' /\ stepOf' = "idle" /\ shutdown'
    BY <1>1, <1>3, FailEnds DEF FailBatch
  <2>3. EvidenceTypeOK'
    BY <1>1, <1>3, <2>2 DEF EvidenceInv, EvidenceTypeOK
  <2>4. FileInv'
    BY <1>1, <1>3, <2>1, <2>2 DEF EvidenceInv, FileInv
  <2>5. SeenInv'
    BY <1>1, <2>1, SeenStays DEF EvidenceInv
  <2>. QED
    BY <2>2, <2>3, <2>4, <2>5 DEF EvidenceInv
<1>4. CASE /\ sequence' = Last(batch).seq /\ previousHash' = Last(batch).id
           /\ accepted' = accepted \o batch
           /\ waiting' = Tail(waiting) /\ stepOf' = "idle"
           /\ shutdown' = (Head(waiting) = <<"job-closed">>)
  <2>1. Head(waiting) \in Batches /\ waiting' \in Seq(Batches)
    BY <1>2, <1>4, WaitingIs DEF EvidenceInv
  <2>2. ~shutdown' => Head(waiting) \in BatchKinds
    <3>1. ~shutdown' => Head(waiting) # <<"job-closed">>
      BY <1>4, Zenon
    <3>. QED
      BY <2>1, <3>1 DEF Batches
  <2>3. /\ Story \in Evidence /\ Story = accepted \o batch /\ Len(batch) \in Nat
        /\ DOMAIN batch = 1 .. Len(batch) /\ batch # <<>> /\ batch \in Evidence
        /\ Len(accepted) \in Nat /\ sequence = Len(accepted) /\ sequence >= 1
        /\ Len(Story) = Len(accepted) + Len(batch)
        /\ \A k \in DOMAIN batch : Story[Len(accepted) + k] = batch[k]
    BY <1>2, StoryIs DEF EvidenceInv, StoryInv, EvidenceTypeOK
  <2>4. Len(batch) \in DOMAIN batch /\ Len(batch) >= 1 /\ 1 \in DOMAIN batch
    BY <2>3, EvidenceShape
  <2>5. /\ sequence' = Len(Story) /\ accepted' = Story /\ previousHash' \in Nat
        /\ Last(accepted') = batch[Len(batch)]
    <3>1. batch[Len(batch)] \in EvidenceLine
      BY <2>3, <2>4, EvidenceShape
    <3>2. batch[Len(batch)].id \in Nat
      BY <3>1 DEF EvidenceLine
    <3>3. sequence' = Len(Story) /\ accepted' = Story
      BY <1>2, <1>4, <2>3, <2>4 DEF Last
    <3>4. Last(accepted') = batch[Len(batch)]
      BY <2>3, <2>4, <3>3 DEF Last
    <3>. QED
      BY <1>4, <3>2, <3>3, <3>4 DEF Last
  <2>6. ~Outstanding'
    <3>1. batch'[1].seq = sequence + 1
      BY <1>1, <1>2, <2>4
    <3>. QED
      BY <2>3, <2>4, <2>5, <3>1 DEF Outstanding
  <2>7. Story' = Story
    BY <2>5, <2>6 DEF Story
  <2>8. ~shutdown' => Last(accepted').kind # "job-closed"
    <3>1. ASSUME Head(waiting) \in BatchKinds PROVE Head(waiting)[Len(batch)] # "job-closed"
      BY <1>2, <3>1 DEF BatchKinds
    <3>. QED
      BY <1>2, <2>2, <2>4, <2>5, <3>1
  <2>9. StoryInv'
    BY <1>4, <2>3, <2>4, <2>5, <2>6, <2>7, <2>8 DEF EvidenceInv, StoryInv
  <2>10. EvidenceTypeOK'
    BY <1>1, <1>4, <2>1, <2>3, <2>5 DEF EvidenceInv, EvidenceTypeOK
  <2>12. FileInv'
    <3>1. \A i \in DOMAIN leaf' : Told(leaf'[i])
      BY <1>1 DEF EvidenceInv, FileInv
    <3>2. Len(Story) <= Len(Story)
      BY <2>3
    <3>. QED
      BY <1>1, <1>2, <1>4, <2>5, <2>7, <3>1, <3>2 DEF FileInv, Told
  <2>13. SeenInv'
    BY <1>1, <2>7, SeenStays DEF EvidenceInv
  <2>. QED
    BY <2>9, <2>10, <2>12, <2>13 DEF EvidenceInv
<1>. QED
  BY <1>3, <1>4 DEF ConfirmBatch

-----------------------------------------------------------------------------
(* What does not touch the writer keeps the story.                         *)
LEMMA WriterRests ==
  ASSUME EvidenceInv, UNCHANGED appendState
  PROVE  /\ StoryInv' /\ Story' = Story /\ \A l : Told(l)' <=> Told(l)
         /\ UNCHANGED <<sequence, previousHash, shutdown, waiting, stepOf, batch, written, accepted>>
<1>1. UNCHANGED <<sequence, previousHash, shutdown, waiting, stepOf, batch, written, accepted>>
  BY DEF appendState
<1>2. Story' = Story /\ (Outstanding' <=> Outstanding) /\ \A l : Told(l)' <=> Told(l)
  BY <1>1, SameStory
<1>3. StoryInv'
  BY <1>1, <1>2 DEF EvidenceInv, StoryInv
<1>. QED
  BY <1>1, <1>2, <1>3

LEMMA StartKeepsEvidence ==
  ASSUME EvidenceInv, NEW ending \in {"job-closed", "preview-sealed"}, StartVerify(ending)
  PROVE  EvidenceInv'
<1>1. /\ UNCHANGED <<leaf, durable, alive, damages>> /\ UNCHANGED appendState
      /\ reader' = [NoReader EXCEPT !.ending = ending, !.at = "read", !.size = Len(leaf)]
  BY DEF StartVerify, onDisk
<1>2. /\ DOMAIN reader' = {"ending", "at", "size", "seen", "valid"} /\ reader'.seen = <<>>
      /\ reader'.size = Len(leaf) /\ ~reader'.valid
  BY <1>1 DEF NoReader
<1>3. <<>> \in Evidence /\ Len(leaf) \in Nat /\ DOMAIN <<>> = {}
  BY EvidenceShape DEF Evidence, EvidenceInv, EvidenceTypeOK
<1>4. EvidenceTypeOK'
  BY <1>1, <1>2, <1>3, WriterRests DEF EvidenceInv, EvidenceTypeOK
<1>5. FileInv'
  BY <1>1, WriterRests DEF EvidenceInv, FileInv
<1>6. SeenInv'
  BY <1>2, <1>3 DEF SeenInv
<1>. QED
  BY <1>1, <1>4, <1>5, <1>6, WriterRests DEF EvidenceInv

LEMMA ReadKeepsEvidence == ASSUME EvidenceInv, ReadLeaf PROVE EvidenceInv'
<1>. DEFINE m == IF reader.size < Len(leaf) THEN reader.size ELSE Len(leaf)
            s == SubSeq(leaf, 1, m)
<1>1. /\ UNCHANGED <<leaf, durable, alive, damages>> /\ UNCHANGED appendState
      /\ reader.at = "read" /\ reader' = [reader EXCEPT !.at = "recheck", !.seen = s]
  BY DEF ReadLeaf, onDisk
<1>2. leaf \in Evidence /\ Len(leaf) \in Nat /\ reader.size \in Nat /\ ~reader.valid
      /\ DOMAIN reader = {"ending", "at", "size", "seen", "valid"}
  BY <1>1, EvidenceShape DEF EvidenceInv, EvidenceTypeOK, SeenInv
<1>3. m \in 0 .. Len(leaf)
  BY <1>2
<1>. HIDE DEF m
<1>4. s \in Evidence /\ DOMAIN s = 1 .. m /\ \A i \in DOMAIN s : s[i] = leaf[i] /\ i \in DOMAIN leaf
  BY <1>2, <1>3, PieceOf
<1>. HIDE DEF s
<1>5. /\ DOMAIN reader' = {"ending", "at", "size", "seen", "valid"} /\ reader'.seen = s
      /\ reader'.size = reader.size /\ reader'.valid = reader.valid
  BY <1>1, <1>2
<1>6. ~reader'.valid
  BY <1>2, <1>5
<1>7. EvidenceTypeOK'
  BY <1>1, <1>2, <1>4, <1>5, WriterRests DEF EvidenceInv, EvidenceTypeOK
<1>8. FileInv'
  BY <1>1, WriterRests DEF EvidenceInv, FileInv
<1>9. \A i \in DOMAIN s : Told(s[i])
  BY <1>4 DEF EvidenceInv, FileInv
<1>10. SeenInv'
  <2>1. Story' = Story
    BY <1>1, WriterRests
  <2>. QED
    BY <1>5, <1>6, <1>9, <2>1 DEF SeenInv, Told
<1>. QED
  BY <1>1, <1>7, <1>8, <1>10, WriterRests DEF EvidenceInv

LEMMA ConcludeKeepsEvidence == ASSUME EvidenceInv, Conclude PROVE EvidenceInv'
<1>1. /\ UNCHANGED <<leaf, durable, alive, damages>> /\ UNCHANGED appendState
      /\ reader' = [reader EXCEPT !.at = "idle", !.valid = Sound(reader)]
  BY DEF Conclude, onDisk
<1>2. DOMAIN reader = {"ending", "at", "size", "seen", "valid"} /\ reader.seen \in Evidence
  BY DEF EvidenceInv, EvidenceTypeOK
<1>3. /\ DOMAIN reader' = {"ending", "at", "size", "seen", "valid"} /\ reader'.seen = reader.seen
      /\ reader'.size = reader.size /\ reader'.at = "idle" /\ reader'.ending = reader.ending
      /\ reader'.valid = Sound(reader)
  BY <1>1, <1>2
<1>4. EvidenceTypeOK'
  BY <1>1, <1>2, <1>3, WriterRests DEF EvidenceInv, EvidenceTypeOK
<1>5. FileInv'
  BY <1>1, WriterRests DEF EvidenceInv, FileInv
<1>6. Sound(reader) =>
        /\ reader.seen # <<>> /\ Last(reader.seen).kind = reader.ending
        /\ \A i \in DOMAIN reader.seen : reader.seen[i].seq = i /\ reader.seen[i].kind # "torn"
  <2>1. DOMAIN reader.seen = 1 .. Len(reader.seen)
    BY <1>2, EvidenceShape
  <2>. QED
    BY <2>1 DEF Sound, Chained
<1>7. reader'.valid => Sound(reader)
  BY <1>3, Zenon
<1>8. \A i \in DOMAIN reader.seen : Told(reader.seen[i])
  BY DEF EvidenceInv, SeenInv
<1>9. SeenInv'
  <2>1. Story' = Story
    BY <1>1, WriterRests
  <2>. QED
    BY <1>3, <1>6, <1>7, <1>8, <2>1 DEF SeenInv, Told
<1>. QED
  BY <1>1, <1>4, <1>5, <1>9, WriterRests DEF EvidenceInv

(* What a crash or damage leaves of the file is enough for the invariant:  *)
(* lines that are told, and the acknowledged ones unless it is damaged.    *)
LEMMA DiskKeepsEvidence ==
  ASSUME EvidenceInv, UNCHANGED appendState, UNCHANGED durable,
         leaf' \in Evidence, damages' \in Nat, shutdown \/ ~alive',
         \A i \in DOMAIN leaf' : leaf'[i].kind = "torn" \/ Told(leaf'[i]),
         damages' = 0 => /\ damages = 0 /\ Len(accepted) <= Len(leaf')
                         /\ \A i \in DOMAIN accepted : leaf'[i] = accepted[i],
         UNCHANGED reader \/ reader' = NoReader,
         alive' => UNCHANGED alive
  PROVE  EvidenceInv'
<1>1. /\ StoryInv' /\ Story' = Story
      /\ UNCHANGED <<sequence, previousHash, shutdown, waiting, stepOf, batch, written, accepted>>
  BY WriterRests
<1>2. /\ reader'.seen \in Evidence /\ reader'.size \in Nat
      /\ DOMAIN reader' = {"ending", "at", "size", "seen", "valid"} /\ SeenInv'
  <2>1. CASE UNCHANGED reader
    <3>1. SeenInv'
      BY <1>1, <2>1, SeenStays DEF EvidenceInv
    <3>. QED
      BY <2>1, <3>1 DEF EvidenceInv, EvidenceTypeOK
  <2>2. CASE reader' = NoReader
    <3>1. <<>> \in Evidence /\ DOMAIN <<>> = {}
      BY DEF Evidence
    <3>2. /\ DOMAIN reader' = {"ending", "at", "size", "seen", "valid"} /\ reader'.seen = <<>>
          /\ reader'.size = 0 /\ ~reader'.valid
      BY <2>2 DEF NoReader
    <3>. QED
      BY <3>1, <3>2 DEF SeenInv
  <2>. QED
    BY <2>1, <2>2
<1>3. EvidenceTypeOK'
  BY <1>1, <1>2 DEF EvidenceInv, EvidenceTypeOK
<1>4. FileInv'
  <2>1. ~(alive' /\ ~shutdown')
    BY <1>1
  <2>2. \A i \in DOMAIN leaf' : leaf'[i].kind = "torn" \/ Told(leaf'[i])
    OBVIOUS
  <2>3. damages = 0 => Len(accepted) <= durable
    BY DEF EvidenceInv, FileInv
  <2>4. alive' /\ stepOf' = "confirm" => shutdown
    OBVIOUS
  <2>5. stepOf # "idle" => ~shutdown
    BY DEF EvidenceInv, StoryInv
  <2>. QED
    BY <1>1, <2>1, <2>2, <2>3, <2>4, <2>5 DEF FileInv, Told
<1>. QED
  BY <1>1, <1>2, <1>3, <1>4 DEF EvidenceInv

LEMMA ProcessEndKeepsEvidence == ASSUME EvidenceInv, ProcessEnds PROVE EvidenceInv'
<1>1. /\ alive /\ ~alive' /\ reader' = NoReader /\ UNCHANGED durable /\ UNCHANGED appendState
      /\ UNCHANGED damages
  BY DEF ProcessEnds
<1>2. leaf \in Evidence /\ batch \in Evidence /\ damages \in Nat /\ Len(leaf) \in Nat
      /\ Len(accepted) \in Nat /\ DOMAIN leaf = 1 .. Len(leaf) /\ DOMAIN accepted = 1 .. Len(accepted)
  BY EvidenceShape DEF EvidenceInv, EvidenceTypeOK
<1>3. /\ leaf' \in Evidence /\ Len(leaf) <= Len(leaf')
      /\ \A i \in DOMAIN leaf : leaf'[i] = leaf[i]
      /\ \A i \in DOMAIN leaf' : leaf'[i].kind = "torn" \/ Told(leaf'[i])
  <2>1. \A i \in DOMAIN leaf : Told(leaf[i])
    BY DEF EvidenceInv, FileInv
  <2>2. CASE leaf' = leaf
    <3>1. Len(leaf) <= Len(leaf)
      BY <1>2
    <3>. QED
      BY <1>2, <2>1, <2>2, <3>1
  <2>3. ASSUME stepOf = "write", NEW n \in 0 .. Len(batch), leaf' = leaf \o SubSeq(batch, 1, n)
        PROVE  /\ leaf' \in Evidence /\ Len(leaf) <= Len(leaf')
               /\ \A i \in DOMAIN leaf : leaf'[i] = leaf[i]
               /\ \A i \in DOMAIN leaf' : leaf'[i].kind = "torn" \/ Told(leaf'[i])
    <3>1. Outstanding
      BY <2>3 DEF EvidenceInv, StoryInv
    <3>2. \A j \in DOMAIN batch : Told(batch[j])
      BY <3>1, BatchIsTold
    <3>3. /\ leaf' \in Evidence /\ Len(leaf) <= Len(leaf')
          /\ \A i \in DOMAIN leaf : i \in DOMAIN leaf' /\ leaf'[i] = leaf[i]
          /\ \A i \in DOMAIN leaf' : \/ leaf'[i].kind = "torn"
                                     \/ \E j \in DOMAIN leaf : leaf'[i] = leaf[j]
                                     \/ \E j \in DOMAIN batch : leaf'[i] = batch[j]
          /\ n = Len(batch) => leaf \o SubSeq(batch, 1, n) = leaf \o batch
      <4>1. leaf \in Evidence /\ batch \in Evidence /\ n \in 0 .. Len(batch)
        BY <1>2
      <4>2. \/ leaf' = leaf \o SubSeq(batch, 1, n)
            \/ leaf' = Append(leaf \o SubSeq(batch, 1, n), Torn)
        BY <2>3
      <4>. QED
        BY ONLY <4>1, <4>2, WrittenOut
    <3>. QED
      BY <2>1, <3>2, <3>3
  <2>. QED
    BY <2>2, <2>3 DEF ProcessEnds
<1>4. damages' = 0 => /\ damages = 0 /\ Len(accepted) <= Len(leaf')
                      /\ \A i \in DOMAIN accepted : leaf'[i] = accepted[i]
  <2>1. Len(leaf') \in Nat
    BY <1>3, EvidenceShape
  <2>. QED
    BY <1>1, <1>2, <1>3, <2>1 DEF EvidenceInv, FileInv
<1>. QED
  BY <1>1, <1>2, <1>3, <1>4, DiskKeepsEvidence

LEMMA PowerKeepsEvidence == ASSUME EvidenceInv, PowerFails PROVE EvidenceInv'
<1>1. /\ alive /\ ~alive' /\ reader' = NoReader /\ UNCHANGED durable /\ UNCHANGED appendState
      /\ UNCHANGED damages
  BY DEF PowerFails
<1>2. leaf \in Evidence /\ damages \in Nat /\ Len(leaf) \in Nat /\ durable \in Nat
      /\ Len(accepted) \in Nat /\ DOMAIN leaf = 1 .. Len(leaf) /\ DOMAIN accepted = 1 .. Len(accepted)
  BY EvidenceShape DEF EvidenceInv, EvidenceTypeOK
<1>3. PICK n \in durable .. Len(leaf) : \E torn \in BOOLEAN :
        leaf' = WithTail(SubSeq(leaf, 1, n), torn)
  BY DEF PowerFails
<1>. DEFINE h == SubSeq(leaf, 1, n)
<1>4. leaf' = h \/ leaf' = Append(h, Torn)
  BY <1>3 DEF WithTail
<1>5. h \in Evidence /\ Len(h) = n /\ DOMAIN h = 1 .. n /\ n \in Nat /\ durable <= n
      /\ \A i \in 1 .. n : h[i] = leaf[i] /\ i \in DOMAIN leaf
  <2>1. n \in 0 .. Len(leaf) /\ n \in Nat /\ durable <= n
    BY <1>2, <1>3
  <2>. QED
    BY <1>2, <2>1, PieceOf
<1>. HIDE DEF h
<1>6. /\ leaf' \in Evidence /\ Len(h) <= Len(leaf')
      /\ \A i \in DOMAIN h : leaf'[i] = h[i]
      /\ \A i \in DOMAIN leaf' : leaf'[i].kind = "torn" \/ (i \in DOMAIN h /\ leaf'[i] = h[i])
  BY ONLY <1>4, <1>5, TailOf
<1>7. \A i \in DOMAIN leaf' : leaf'[i].kind = "torn" \/ Told(leaf'[i])
  BY <1>5, <1>6 DEF EvidenceInv, FileInv
<1>8. damages' = 0 => /\ damages = 0 /\ Len(accepted) <= Len(leaf')
                      /\ \A i \in DOMAIN accepted : leaf'[i] = accepted[i]
  <2>1. Len(leaf') \in Nat
    BY <1>6, EvidenceShape
  <2>. SUFFICES ASSUME damages' = 0
                PROVE  /\ Len(accepted) <= Len(leaf')
                       /\ \A i \in DOMAIN accepted : leaf'[i] = accepted[i]
    BY <1>1
  <2>2. Len(accepted) <= durable /\ \A i \in DOMAIN accepted : leaf[i] = accepted[i]
    BY <1>1 DEF EvidenceInv, FileInv
  <2>. QED
    BY <1>2, <1>5, <1>6, <2>1, <2>2
<1>. QED
  BY <1>1, <1>2, <1>6, <1>7, <1>8, DiskKeepsEvidence

(* Every line of a piece is a line.                                        *)
LEMMA SomePiece ==
  ASSUME NEW f \in Evidence, NEW m \in 1 .. Len(f) + 1
  PROVE  /\ SubSeq(f, m, Len(f)) \in Evidence
         /\ \A k \in DOMAIN SubSeq(f, m, Len(f)) : \E j \in DOMAIN f : SubSeq(f, m, Len(f))[k] = f[j]
<1>. DEFINE s == SubSeq(f, m, Len(f))
<1>1. /\ Len(f) \in Nat /\ m \in Nat /\ m >= 1 /\ DOMAIN f = 1 .. Len(f)
      /\ \A i \in m .. Len(f) : f[i] \in EvidenceLine /\ i \in DOMAIN f
  BY EvidenceShape
<1>2. /\ s \in Evidence /\ Len(s) = IF m <= Len(f) THEN Len(f) - m + 1 ELSE 0
      /\ \A i \in 1 .. Len(f) - m + 1 : s[i] = f[m + i - 1]
  BY <1>1, SubSeqProperties DEF Evidence
<1>. HIDE DEF s
<1>3. DOMAIN s = 1 .. Len(s)
  BY <1>2, EvidenceShape
<1>4. ASSUME NEW k \in DOMAIN s PROVE m + k - 1 \in DOMAIN f /\ s[k] = f[m + k - 1]
  BY <1>1, <1>2, <1>3
<1>5. s \in Evidence /\ \A k \in DOMAIN s : \E j \in DOMAIN f : s[k] = f[j]
  BY <1>2, <1>4
<1>. QED
  BY <1>5 DEF s

LEMMA LinesOfBoth ==
  ASSUME NEW f \in Evidence, NEW p \in Evidence, NEW q \in Evidence,
         \A k \in DOMAIN p : \E j \in DOMAIN f : p[k] = f[j],
         \A k \in DOMAIN q : \E j \in DOMAIN f : q[k] = f[j]
  PROVE  p \o q \in Evidence /\ \A i \in DOMAIN (p \o q) : \E j \in DOMAIN f : (p \o q)[i] = f[j]
<1>. DEFINE h == p \o q
<1>1. /\ h \in Evidence
      /\ \A k \in DOMAIN p : h[k] = p[k]
      /\ \A i \in DOMAIN h : i \in DOMAIN p \/ \E k \in DOMAIN q : i = Len(p) + k /\ h[i] = q[k]
  BY Joined
<1>. HIDE DEF h
<1>2. ASSUME NEW i \in DOMAIN h PROVE \E j \in DOMAIN f : h[i] = f[j]
  BY <1>1
<1>3. h \in Evidence /\ \A i \in DOMAIN h : \E j \in DOMAIN f : h[i] = f[j]
  BY <1>1, <1>2
<1>. QED
  BY <1>3 DEF h

LEMMA DamageKeepsEvidence == ASSUME EvidenceInv, Damage PROVE EvidenceInv'
<1>1. /\ damages' = damages + 1
      /\ shutdown \/ ~alive
      /\ UNCHANGED durable /\ UNCHANGED appendState /\ UNCHANGED reader /\ UNCHANGED alive
  BY DEF Damage, reading
<1>2. leaf \in Evidence /\ damages \in Nat /\ Len(leaf) \in Nat /\ DOMAIN leaf = 1 .. Len(leaf)
  BY EvidenceShape DEF EvidenceInv, EvidenceTypeOK
<1>3. PICK i \in 1 .. Len(leaf) :
        \/ leaf' = SubSeq(leaf, 1, i - 1) \o SubSeq(leaf, i + 1, Len(leaf))
        \/ leaf' = SubSeq(leaf, 1, i) \o SubSeq(leaf, i, Len(leaf))
        \/ i < Len(leaf) /\ leaf' = [leaf EXCEPT ![i] = leaf[i + 1], ![i + 1] = leaf[i]]
  BY DEF Damage
<1>4. leaf' \in Evidence /\ \A k \in DOMAIN leaf' : \E j \in DOMAIN leaf : leaf'[k] = leaf[j]
  <2>1. ASSUME NEW a \in 0 .. Len(leaf), NEW b \in 1 .. Len(leaf) + 1,
               leaf' = SubSeq(leaf, 1, a) \o SubSeq(leaf, b, Len(leaf))
        PROVE  leaf' \in Evidence /\ \A k \in DOMAIN leaf' : \E j \in DOMAIN leaf : leaf'[k] = leaf[j]
    <3>. DEFINE p == SubSeq(leaf, 1, a)
                q == SubSeq(leaf, b, Len(leaf))
    <3>1. p \in Evidence /\ \A k \in DOMAIN p : \E j \in DOMAIN leaf : p[k] = leaf[j]
      BY <1>2, PieceOf
    <3>2. q \in Evidence /\ \A k \in DOMAIN q : \E j \in DOMAIN leaf : q[k] = leaf[j]
      BY <1>2, SomePiece
    <3>3. leaf' = p \o q
      BY <2>1
    <3>. HIDE DEF p, q
    <3>4. leaf \in Evidence
      BY <1>2
    <3>5. p \o q \in Evidence /\ \A k \in DOMAIN (p \o q) : \E j \in DOMAIN leaf : (p \o q)[k] = leaf[j]
      BY <3>1, <3>2, <3>4, LinesOfBoth
    <3>. QED
      BY <3>3, <3>5
  <2>2. CASE i < Len(leaf) /\ leaf' = [leaf EXCEPT ![i] = leaf[i + 1], ![i + 1] = leaf[i]]
    <3>1. i \in DOMAIN leaf /\ i + 1 \in DOMAIN leaf
      BY <1>2, <2>2
    <3>2. \A k \in DOMAIN leaf : leaf[k] \in EvidenceLine
      BY <1>2, EvidenceShape
    <3>3. DOMAIN leaf' = DOMAIN leaf
      BY <2>2
    <3>4. \A k \in DOMAIN leaf : leaf'[k] = leaf[k] \/ leaf'[k] = leaf[i] \/ leaf'[k] = leaf[i + 1]
      BY <2>2, <3>1
    <3>5. leaf' \in Seq(EvidenceLine)
      <4>1. leaf \in [1 .. Len(leaf) -> EvidenceLine]
        BY <1>2 DEF Evidence
      <4>2. leaf' \in [1 .. Len(leaf) -> EvidenceLine]
        BY <1>2, <2>2, <3>1, <3>2, <4>1
      <4>. QED
        BY <1>2, <4>2
    <3>. QED
      BY <3>1, <3>3, <3>4, <3>5 DEF Evidence
  <2>3. /\ i - 1 \in 0 .. Len(leaf) /\ i + 1 \in 1 .. Len(leaf) + 1
        /\ i \in 0 .. Len(leaf) /\ i \in 1 .. Len(leaf) + 1
    BY <1>2
  <2>. QED
    BY <1>3, <2>1, <2>2, <2>3
<1>5. \A k \in DOMAIN leaf' : leaf'[k].kind = "torn" \/ Told(leaf'[k])
  BY <1>4 DEF EvidenceInv, FileInv
<1>6. damages' \in Nat /\ damages' # 0
  BY <1>1, <1>2
<1>. QED
  BY <1>1, <1>4, <1>5, <1>6, DiskKeepsEvidence

-----------------------------------------------------------------------------
LEMMA EvidenceStarts == EvidenceInit => EvidenceInv
<1>. SUFFICES ASSUME EvidenceInit PROVE EvidenceInv
  OBVIOUS
<1>1. Opening \in EvidenceLine /\ Opening.seq = 1 /\ Opening.kind = "job-opened"
  BY DEF Opening, EvidenceLine, LineKinds
<1>2. /\ leaf = <<Opening>> /\ accepted = <<Opening>> /\ <<Opening>> \in Evidence
      /\ Len(<<Opening>>) = 1 /\ DOMAIN <<Opening>> = {1} /\ <<Opening>>[1] = Opening
  BY <1>1 DEF EvidenceInit, Evidence
<1>3. ~Outstanding /\ batch = <<>>
  BY DEF EvidenceInit, Outstanding
<1>4. Story = accepted
  BY <1>3 DEF Story
<1>5. /\ DOMAIN reader = {"ending", "at", "size", "seen", "valid"} /\ reader.seen = <<>>
      /\ reader.size = 0 /\ ~reader.valid
  BY DEF EvidenceInit, NoReader
<1>6. <<>> \in Evidence /\ <<>> \in Seq(Batches) /\ DOMAIN <<>> = {}
  BY DEF Evidence
<1>7. EvidenceTypeOK
  BY <1>2, <1>3, <1>5, <1>6 DEF EvidenceInit, EvidenceTypeOK
<1>8. StoryInv
  BY <1>1, <1>2, <1>3, <1>4 DEF EvidenceInit, StoryInv, Last
<1>9. FileInv
  BY <1>1, <1>2, <1>4 DEF EvidenceInit, FileInv, Told
<1>10. SeenInv
  BY <1>5, <1>6 DEF SeenInv
<1>. QED
  BY <1>7, <1>8, <1>9, <1>10 DEF EvidenceInv

LEMMA EvidenceStep == EvidenceInv /\ [EvidenceNext]_evidenceVars => EvidenceInv'
<1>. SUFFICES ASSUME EvidenceInv, [EvidenceNext]_evidenceVars PROVE EvidenceInv'
  OBVIOUS
<1>1. CASE CloseManifest \/ \E kinds \in BatchKinds : AppendBatch(kinds)
  BY <1>1, QueueKeeps
<1>2. CASE Writing
  BY <1>2, BeginKeepsEvidence, WriteKeepsEvidence, SyncKeepsEvidence, ConfirmKeepsEvidence DEF Writing
<1>3. CASE Verifying
  BY <1>3, StartKeepsEvidence, ReadKeepsEvidence, ConcludeKeepsEvidence DEF Verifying
<1>4. CASE ProcessEnds
  BY <1>4, ProcessEndKeepsEvidence
<1>5. CASE PowerFails
  BY <1>5, PowerKeepsEvidence
<1>6. CASE Damage
  BY <1>6, DamageKeepsEvidence
<1>7. CASE UNCHANGED evidenceVars
  <2>1. /\ UNCHANGED <<leaf, durable, reader, alive, damages>> /\ UNCHANGED appendState
    BY <1>7 DEF evidenceVars, onDisk, reading
  <2>2. EvidenceTypeOK'
    BY <2>1, WriterRests DEF EvidenceInv, EvidenceTypeOK
  <2>3. FileInv'
    BY <2>1, WriterRests DEF EvidenceInv, FileInv
  <2>4. SeenInv'
    BY <2>1, WriterRests, SeenStays DEF EvidenceInv
  <2>. QED
    BY <2>1, <2>2, <2>3, <2>4, WriterRests DEF EvidenceInv
<1>. QED
  BY <1>1, <1>2, <1>3, <1>4, <1>5, <1>6, <1>7 DEF EvidenceNext

LEMMA PrefixIs ==
  ASSUME NEW s \in Evidence, NEW t \in Evidence, Len(s) <= Len(t),
         \A i \in DOMAIN s : t[i] = s[i]
  PROVE  IsPrefix(s, t)
<1>1. Len(s) \in Nat /\ Len(t) \in Nat /\ DOMAIN s = 1 .. Len(s)
  BY EvidenceShape
<1>. DEFINE p == SubSeq(t, 1, Len(s))
<1>2. p \in Evidence /\ Len(p) = Len(s) /\ \A i \in 1 .. Len(s) : p[i] = t[i]
  BY <1>1, PieceOf
<1>. HIDE DEF p
<1>3. p = s
  BY <1>1, <1>2, SeqEqual DEF Evidence
<1>4. SubSeq(s, 1, Len(s)) = s
  BY SubSeqFull DEF Evidence
<1>. QED
  BY <1>3, <1>4 DEF IsPrefix, p

(* The places say it: what was acknowledged is the beginning of the file;  *)
(* what was read and found valid is a beginning of the story, and all of   *)
(* it when it ends with the close.                                         *)
LEMMA EvidenceIsThere == EvidenceInv => EvidenceHolds
<1>. SUFFICES ASSUME EvidenceInv PROVE EvidenceHolds
  OBVIOUS
<1>1. accepted \in Evidence /\ leaf \in Evidence /\ reader.seen \in Evidence /\ EvidenceTypeOK
  BY DEF EvidenceInv, EvidenceTypeOK
<1>2. AcceptedStays
  BY <1>1, PrefixIs DEF AcceptedStays, EvidenceInv, FileInv
<1>. DEFINE s == reader.seen
<1>3. ASSUME reader.valid
      PROVE  /\ Last(s).kind = reader.ending /\ Len(s) \in DOMAIN s /\ Len(s) <= Len(Story)
             /\ Len(s) \in Nat /\ DOMAIN s = 1 .. Len(s)
             /\ \A i \in DOMAIN s : i \in DOMAIN Story /\ Story[i] = s[i]
  <2>1. /\ s # <<>> /\ Last(s).kind = reader.ending
        /\ \A i \in DOMAIN s : s[i].seq = i /\ s[i].kind # "torn" /\ Told(s[i])
    BY <1>3 DEF EvidenceInv, SeenInv
  <2>2. Len(s) \in DOMAIN s /\ DOMAIN s = 1 .. Len(s) /\ Len(s) \in Nat
    BY <1>1, <2>1, EvidenceShape
  <2>3. \A i \in DOMAIN s : i \in DOMAIN Story /\ Story[i] = s[i]
    BY <2>1 DEF Told
  <2>4. DOMAIN Story = 1 .. Len(Story) /\ Len(Story) \in Nat
    BY <1>1, StoryIs
  <2>. QED
    BY <2>1, <2>2, <2>3, <2>4
<1>4. /\ Story \in Evidence /\ DOMAIN Story = 1 .. Len(Story) /\ Len(Story) \in Nat
      /\ Len(accepted) \in Nat /\ DOMAIN accepted = 1 .. Len(accepted) /\ Len(accepted) <= Len(Story)
      /\ \A i \in DOMAIN accepted : Story[i] = accepted[i]
  BY <1>1, StoryIs
<1>. HIDE DEF s
<1>5. ASSUME reader.valid, reader.ending = "job-closed"
      PROVE  \/ s = accepted
             \/ Len(s) = Len(accepted) + 1 /\ IsPrefix(accepted, s)
  <2>1. Last(s).kind = "job-closed" /\ Len(s) \in DOMAIN Story /\ Story[Len(s)] = Last(s)
    BY <1>3, <1>5 DEF Last
  <2>2. Len(s) = Len(Story)
    BY <2>1 DEF EvidenceInv, StoryInv
  <2>3. s = Story
    BY <1>1, <1>3, <1>4, <1>5, <2>2, SeqEqual DEF Evidence, s
  <2>4. CASE ~Outstanding
    BY <1>1, <2>3, <2>4, StoryIs
  <2>5. CASE Outstanding
    <3>1. /\ Len(Story) = Len(accepted) + Len(batch) /\ Len(batch) \in DOMAIN batch
          /\ Story[Len(accepted) + Len(batch)] = batch[Len(batch)]
      <4>1. /\ Len(Story) = Len(accepted) + Len(batch) /\ Len(batch) \in Nat /\ batch # <<>>
            /\ DOMAIN batch = 1 .. Len(batch)
            /\ \A k \in DOMAIN batch : Story[Len(accepted) + k] = batch[k]
        BY <1>1, <2>5, StoryIs
      <4>2. Len(batch) \in DOMAIN batch
        BY <4>1, EvidenceShape DEF EvidenceInv, EvidenceTypeOK
      <4>. QED
        BY <4>1, <4>2
    <3>2. Last(batch).kind = "job-closed"
      BY <2>1, <2>2, <3>1 DEF Last
    <3>3. Len(batch) = 1
      BY <2>5, <3>2 DEF EvidenceInv, StoryInv
    <3>4. IsPrefix(accepted, Story)
      BY <1>1, <1>4, PrefixIs
    <3>. QED
      BY <2>3, <3>1, <3>3, <3>4
  <2>. QED
    BY <2>4, <2>5
<1>6. ASSUME reader.valid PROVE IsPrefix(s, accepted) \/ IsPrefix(accepted, s)
  <2>1. s \in Evidence
    BY <1>1 DEF s
  <2>2. CASE Len(s) <= Len(accepted)
    <3>1. \A i \in DOMAIN s : accepted[i] = s[i]
      BY <1>3, <1>4, <1>6, <2>2
    <3>. QED
      BY <1>1, <2>1, <2>2, <3>1, PrefixIs
  <2>3. CASE ~(Len(s) <= Len(accepted))
    <3>1. Len(accepted) <= Len(s) /\ \A i \in DOMAIN accepted : s[i] = accepted[i]
      BY <1>3, <1>4, <1>6, <2>3
    <3>. QED
      BY <1>1, <2>1, <3>1, PrefixIs
  <2>. QED
    BY <2>2, <2>3
<1>7. VerdictsHold
  BY <1>5, <1>6 DEF VerdictsHold, s
<1>. QED
  BY <1>2, <1>7 DEF EvidenceHolds

(* Every event that was acknowledged stays at its place in the file,       *)
(* through torn batches, failing syncs, the end of the process and a power *)
(* loss; a manifest found valid and closed tells all of them, in order,    *)
(* and nothing of a batch that was refused but the close itself.           *)
THEOREM EvidenceAlwaysHolds == EvidenceSpec => []EvidenceHolds
<1>1. EvidenceInit => EvidenceInv
  BY EvidenceStarts
<1>2. EvidenceInv /\ [EvidenceNext]_evidenceVars => EvidenceInv'
  BY EvidenceStep
<1>3. EvidenceInv => EvidenceHolds
  BY EvidenceIsThere
<1>. QED
  BY <1>1, <1>2, <1>3, PTL DEF EvidenceSpec

-----------------------------------------------------------------------------
HistoryLine  == [job : HistoryJobs, kind : {"created"} \cup Kinds, seq : Nat]
Histories    == Seq(HistoryLine)
Machine      == [status : Statuses \cup {"unknown"}, last : Nat]
HistoryCalls == [at : {"none", "write", "sync", "check", "reconcile", "left"}, record : HistoryLine]
UnderWay     == {"write", "sync", "check", "reconcile"}

HistoryTypeOK ==
  /\ records \in Histories /\ safe \in 0 .. Len(records)
  /\ remnant \in {"none", "torn", "whole"}
  /\ storeAt \in {"down", "recovering", "ready"}
  /\ entries \in [HistoryJobs -> Machine]
  /\ append \in HistoryCalls \cup {NoAppend}
  /\ strain \in [trouble : Nat, look : Nat]

RecordsInv ==
  /\ Replays(records)
  /\ \A i \in DOMAIN records : records[i].job \in issued
  /\ \A r \in recorded : \E i \in 1 .. safe : records[i] = r

Unwritten == entries = JobsOf(records) /\ ~Refuses(entries, append.record)
Written   == Present /\ JobsOf(records) = Applied(entries, append.record)

CallInv ==
  /\ append.at \in UnderWay => storeAt # "down" /\ ~poisoned /\ append.record.job \in issued
  /\ remnant = "whole" => /\ append.at = "left"
                          /\ append.record.job \in issued /\ ~Refuses(JobsOf(records), append.record)
  /\ append.at = "left" => storeAt = "down" /\ remnant = "whole"
  /\ storeAt = "recovering" => ~poisoned

MemoryInv ==
  /\ storeAt # "down" /\ ~poisoned =>
       /\ append.at = "none" => entries = JobsOf(records)
       /\ append.at = "write" => Unwritten
       /\ append.at \in {"sync", "check"} => Written
       /\ append.at = "reconcile" => IF Present THEN Written ELSE Unwritten
       /\ append.at = "check" => safe = Len(records)
  /\ storeAt = "ready" => \A j \in HistoryJobs : entries[j].status \in Active => j \in mine

(* The replay as a walk along the lines: it exists, and two of them agree  *)
(* as far as the lines do.                                                 *)
At(w, s, n)     == IF n = 0 THEN Nobody ELSE Applied(w[n - 1], s[n])
Along(w, s, n)  == w = [i \in 0 .. n |-> At(w, s, i)]

LEMMA WalkAlong == ASSUME NEW s, NEW n \in Nat PROVE \E w : Along(w, s, n)
<1>. DEFINE P == {m \in Nat : \E w : Along(w, s, m)}
<1>1. 0 \in P
  <2>. DEFINE w == [i \in 0 .. 0 |-> Nobody]
  <2>1. w = [i \in 0 .. 0 |-> At(w, s, i)]
    BY DEF At
  <2>. QED
    BY <2>1 DEF Along
<1>2. ASSUME NEW m \in P PROVE m + 1 \in P
  <2>1. PICK w : Along(w, s, m)
    OBVIOUS
  <2>. DEFINE v == [i \in 0 .. m + 1 |-> IF i = m + 1 THEN Applied(w[m], s[m + 1]) ELSE w[i]]
  <2>2. m \in Nat /\ m + 1 - 1 = m
    OBVIOUS
  <2>3. ASSUME NEW i \in 0 .. m + 1 PROVE v[i] = At(v, s, i)
    <3>1. CASE i = m + 1
      <4>1. i # 0 /\ i - 1 = m /\ m \in 0 .. m + 1 /\ m # m + 1
        BY <2>2, <3>1
      <4>. QED
        BY <3>1, <4>1 DEF At
    <3>2. CASE i \in 0 .. m
      <4>1. v[i] = w[i] /\ w[i] = At(w, s, i)
        BY <2>1, <2>2, <3>2 DEF Along
      <4>2. i # 0 => v[i - 1] = w[i - 1]
        BY <2>2, <3>2
      <4>. QED
        BY <4>1, <4>2 DEF At
    <3>. QED
      BY <2>2, <3>1, <3>2
  <2>4. v = [i \in 0 .. m + 1 |-> At(v, s, i)]
    <3>1. v = [i \in 0 .. m + 1 |-> v[i]]
      OBVIOUS
    <3>. HIDE DEF v
    <3>. QED
      BY <2>3, <3>1
  <2>. HIDE DEF v
  <2>. QED
    BY <2>2, <2>4 DEF Along
<1>3. P = Nat
  <2>1. P \in SUBSET Nat
    OBVIOUS
  <2>. HIDE DEF P
  <2>. QED
    BY <1>1, <1>2, <2>1, EveryNumber
<1>. QED
  BY <1>3

LEMMA StepAlong ==
  ASSUME NEW s, NEW n \in Nat, NEW w, Along(w, s, n), NEW i \in 0 .. n
  PROVE  w[i] = At(w, s, i)
  BY DEF Along

LEMMA AlongAgree ==
  ASSUME NEW s, NEW t, NEW n \in Nat, NEW m \in Nat, n <= m, NEW w, NEW v,
         Along(w, s, n), Along(v, t, m), \A i \in 1 .. n : s[i] = t[i]
  PROVE  w[n] = v[n]
<1>. DEFINE P == {k \in Nat : k <= n => w[k] = v[k]}
<1>1. 0 \in P
  <2>1. w[0] = Nobody /\ v[0] = Nobody
    <3>1. 0 \in 0 .. n /\ 0 \in 0 .. m
      OBVIOUS
    <3>2. w[0] = At(w, s, 0) /\ v[0] = At(v, t, 0)
      BY <3>1, StepAlong
    <3>. QED
      BY <3>2 DEF At
  <2>. QED
    BY <2>1
<1>2. ASSUME NEW k \in P PROVE k + 1 \in P
  <2>1. SUFFICES ASSUME k + 1 <= n PROVE w[k + 1] = v[k + 1]
    OBVIOUS
  <2>2. k \in Nat /\ k + 1 \in 0 .. n /\ k + 1 \in 0 .. m /\ k + 1 \in 1 .. n /\ k + 1 # 0
        /\ k + 1 - 1 = k
    BY <2>1
  <2>3. w[k] = v[k] /\ s[k + 1] = t[k + 1]
    BY <2>1, <2>2
  <2>4. w[k + 1] = Applied(w[k], s[k + 1]) /\ v[k + 1] = Applied(v[k], t[k + 1])
    BY <2>2, StepAlong DEF At
  <2>. QED
    BY <2>3, <2>4
<1>3. P = Nat
  <2>1. P \in SUBSET Nat
    OBVIOUS
  <2>. HIDE DEF P
  <2>. QED
    BY <1>1, <1>2, <2>1, EveryNumber
<1>. QED
  BY <1>3

LEMMA JobsOfIs ==
  ASSUME NEW s, Len(s) \in Nat
  PROVE  \E w : Along(w, s, Len(s)) /\ JobsOf(s) = w[Len(s)]
<1>. DEFINE w == CHOOSE w : w = [n \in 0 .. Len(s) |-> IF n = 0 THEN Nobody ELSE Applied(w[n - 1], s[n])]
<1>1. JobsOf(s) = w[Len(s)]
  BY DEF JobsOf
<1>2. \E v : v = [n \in 0 .. Len(s) |-> IF n = 0 THEN Nobody ELSE Applied(v[n - 1], s[n])]
  BY WalkAlong DEF Along, At
<1>3. w = [n \in 0 .. Len(s) |-> IF n = 0 THEN Nobody ELSE Applied(w[n - 1], s[n])]
  BY <1>2
<1>. QED
  BY <1>1, <1>3 DEF Along, At

-----------------------------------------------------------------------------

LEMMA HistoryShape ==
  ASSUME NEW s \in Histories
  PROVE  /\ Len(s) \in Nat /\ DOMAIN s = 1 .. Len(s) /\ (s = <<>> <=> Len(s) = 0)
         /\ \A i \in DOMAIN s : s[i] \in HistoryLine
  BY LenProperties, ElementOfSeq, EmptySeq DEF Histories

LEMMA OneMore ==
  ASSUME NEW s \in Histories, NEW r \in HistoryLine
  PROVE  /\ Append(s, r) \in Histories /\ Len(Append(s, r)) = Len(s) + 1 /\ Append(s, r) # <<>>
         /\ DOMAIN Append(s, r) = 1 .. Len(s) + 1
         /\ Append(s, r)[Len(s) + 1] = r /\ Last(Append(s, r)) = r
         /\ \A i \in 1 .. Len(s) : Append(s, r)[i] = s[i]
<1>. DEFINE t == Append(s, r)
<1>1. t \in Histories /\ Len(t) = Len(s) + 1 /\ t[Len(s) + 1] = r /\ \A i \in 1 .. Len(s) : t[i] = s[i]
  BY AppendProperties DEF Histories
<1>. HIDE DEF t
<1>2. Last(t) = r
  BY <1>1 DEF Last
<1>3. Len(s) \in Nat
  BY HistoryShape
<1>4. DOMAIN t = 1 .. Len(s) + 1 /\ t # <<>>
  BY <1>1, <1>3, HistoryShape
<1>. QED
  BY <1>1, <1>2, <1>4 DEF t

LEMMA SomeLines ==
  ASSUME NEW s \in Histories, NEW n \in 0 .. Len(s)
  PROVE  /\ SubSeq(s, 1, n) \in Histories /\ Len(SubSeq(s, 1, n)) = n /\ n \in Nat
         /\ \A i \in 1 .. n : SubSeq(s, 1, n)[i] = s[i] /\ i \in DOMAIN s
<1>1. /\ Len(s) \in Nat /\ n \in Nat /\ DOMAIN s = 1 .. Len(s)
      /\ \A i \in 1 .. n : s[i] \in HistoryLine /\ i \in DOMAIN s
  BY HistoryShape
<1>2. /\ SubSeq(s, 1, n) \in Histories
      /\ Len(SubSeq(s, 1, n)) = IF 1 <= n THEN n - 1 + 1 ELSE 0
      /\ \A i \in 1 .. n - 1 + 1 : SubSeq(s, 1, n)[i] = s[1 + i - 1]
  BY <1>1, SubSeqProperties DEF Histories
<1>3. Len(SubSeq(s, 1, n)) = n
  BY <1>1, <1>2
<1>4. \A i \in 1 .. n : 1 + i - 1 = i /\ i \in 1 .. n - 1 + 1
  BY <1>1
<1>. QED
  BY <1>1, <1>2, <1>3, <1>4

(* Two beginnings of the same length agree when the lines do.              *)
LEMMA SameLines ==
  ASSUME NEW s \in Histories, NEW t \in Histories, NEW n \in 0 .. Len(s), n \in 0 .. Len(t),
         \A i \in 1 .. n : s[i] = t[i]
  PROVE  SubSeq(s, 1, n) = SubSeq(t, 1, n)
<1>. DEFINE p == SubSeq(s, 1, n)
            q == SubSeq(t, 1, n)
<1>1. /\ p \in Histories /\ Len(p) = n /\ \A i \in 1 .. n : p[i] = s[i]
      /\ q \in Histories /\ Len(q) = n /\ \A i \in 1 .. n : q[i] = t[i]
  BY SomeLines
<1>. HIDE DEF p, q
<1>2. p = q
  BY <1>1, SeqEqual DEF Histories
<1>. QED
  BY <1>2 DEF p, q

LEMMA ReplayStarts == JobsOf(<<>>) = Nobody
<1>1. Len(<<>>) = 0 /\ 0 \in Nat
  OBVIOUS
<1>2. PICK w : Along(w, <<>>, 0) /\ JobsOf(<<>>) = w[0]
  BY <1>1, JobsOfIs
<1>. QED
  BY <1>1, <1>2, StepAlong DEF At

LEMMA ReplayGoesOn ==
  ASSUME NEW s \in Histories, NEW r \in HistoryLine
  PROVE  JobsOf(Append(s, r)) = Applied(JobsOf(s), r)
<1>. DEFINE t == Append(s, r)
            k == Len(s)
<1>1. /\ k \in Nat /\ Len(t) = k + 1 /\ t[k + 1] = r /\ \A i \in 1 .. k : t[i] = s[i]
  BY HistoryShape, OneMore
<1>2. PICK w : Along(w, s, k) /\ JobsOf(s) = w[k]
  BY <1>1, JobsOfIs
<1>3. PICK v : Along(v, t, k + 1) /\ JobsOf(t) = v[k + 1]
  <2>1. Len(t) \in Nat
    BY <1>1
  <2>. QED
    BY <1>1, <2>1, JobsOfIs
<1>. HIDE DEF t, k
<1>4. w[k] = v[k]
  <2>1. k <= k + 1 /\ k + 1 \in Nat
    BY <1>1
  <2>. QED
    BY <1>1, <1>2, <1>3, <2>1, AlongAgree
<1>5. v[k + 1] = Applied(v[k], t[k + 1])
  <2>1. k + 1 \in 0 .. k + 1 /\ k + 1 # 0 /\ k + 1 - 1 = k /\ k + 1 \in Nat
    BY <1>1
  <2>2. v[k + 1] = At(v, t, k + 1)
    BY <1>3, <2>1, StepAlong
  <2>. QED
    BY <1>1, <2>1, <2>2 DEF At
<1>. QED
  BY <1>1, <1>2, <1>3, <1>4, <1>5 DEF t

LEMMA AppliedIs ==
  ASSUME NEW ms \in [HistoryJobs -> Machine], NEW r \in HistoryLine
  PROVE  /\ Applied(ms, r) \in [HistoryJobs -> Machine]
         /\ r.job \in HistoryJobs
         /\ \A j \in HistoryJobs \ {r.job} : Applied(ms, r)[j] = ms[j]
         /\ Applied(ms, r)[r.job] = IF r.kind = "created" THEN Seeded
                                    ELSE After(ms[r.job], r.kind, r.seq)
<1>1. r.job \in HistoryJobs /\ r.kind \in {"created"} \cup Kinds /\ r.seq \in Nat
  BY DEF HistoryLine
<1>2. Seeded \in Machine
  BY DEF Seeded, Machine, Statuses, Transitions
<1>3. ASSUME r.kind # "created" PROVE After(ms[r.job], r.kind, r.seq) \in Machine
  <2>1. ms[r.job].status \in Statuses \cup {"unknown"}
    BY <1>1 DEF Machine
  <2>2. r.kind \notin ProgressKinds => r.kind \in Statuses
    BY <1>1, <1>3 DEF Kinds
  <2>. QED
    BY <1>1, <2>1, <2>2 DEF After, Machine
<1>. QED
  BY <1>1, <1>2, <1>3 DEF Applied

(* The replay knows jobs that the lines name, and no others.               *)
LEMMA ReplayIs ==
  ASSUME NEW s \in Histories
  PROVE  /\ JobsOf(s) \in [HistoryJobs -> Machine]
         /\ \A j \in HistoryJobs : JobsOf(s)[j] # Unknown => \E i \in DOMAIN s : s[i].job = j
<1>1. Len(s) \in Nat /\ DOMAIN s = 1 .. Len(s) /\ \A i \in DOMAIN s : s[i] \in HistoryLine
  BY HistoryShape
<1>2. PICK w : Along(w, s, Len(s)) /\ JobsOf(s) = w[Len(s)]
  BY <1>1, JobsOfIs
<1>. DEFINE Right(k) == /\ w[k] \in [HistoryJobs -> Machine]
                        /\ \A j \in HistoryJobs : w[k][j] # Unknown => \E i \in DOMAIN s : s[i].job = j
            P == {k \in Nat : k <= Len(s) => Right(k)}
<1>3. 0 \in P
  <2>1. w[0] = Nobody
    BY <1>1, <1>2, StepAlong DEF At
  <2>2. Nobody \in [HistoryJobs -> Machine] /\ \A j \in HistoryJobs : Nobody[j] = Unknown
    BY DEF Nobody, Unknown, Machine
  <2>. QED
    BY <2>1, <2>2
<1>4. ASSUME NEW k \in P PROVE k + 1 \in P
  <2>1. SUFFICES ASSUME k + 1 <= Len(s) PROVE Right(k + 1)
    OBVIOUS
  <2>2. k \in Nat /\ k + 1 \in 0 .. Len(s) /\ k + 1 \in DOMAIN s /\ k + 1 # 0 /\ k + 1 - 1 = k /\ k <= Len(s)
    BY <1>1, <2>1
  <2>3. Right(k)
    BY <2>2
  <2>4. w[k + 1] = Applied(w[k], s[k + 1])
    BY <1>1, <1>2, <2>2, StepAlong DEF At
  <2>5. s[k + 1] \in HistoryLine
    BY <1>1, <2>2
  <2>6. w[k + 1] \in [HistoryJobs -> Machine]
    BY <2>3, <2>4, <2>5, AppliedIs
  <2>7. ASSUME NEW j \in HistoryJobs, w[k + 1][j] # Unknown PROVE \E i \in DOMAIN s : s[i].job = j
    <3>1. CASE j = s[k + 1].job
      BY <2>2, <3>1
    <3>2. CASE j # s[k + 1].job
      <4>1. w[k + 1][j] = w[k][j]
        BY <2>3, <2>4, <2>5, <3>2, AppliedIs
      <4>. QED
        BY <2>3, <2>7, <4>1
    <3>. QED
      BY <3>1, <3>2
  <2>. QED
    BY <2>6, <2>7
<1>5. P = Nat
  <2>1. P \in SUBSET Nat
    OBVIOUS
  <2>. HIDE DEF P
  <2>. QED
    BY <1>3, <1>4, <2>1, EveryNumber
<1>6. Right(Len(s))
  <2>1. Len(s) \in P /\ Len(s) <= Len(s)
    BY <1>1, <1>5
  <2>. QED
    BY <2>1
<1>. QED
  BY <1>2, <1>6

(* One line more: it is refused or the replay goes through it.             *)
LEMMA ReplaysOneMore ==
  ASSUME NEW s \in Histories, NEW r \in HistoryLine, Replays(s), ~Refuses(JobsOf(s), r)
  PROVE  Replays(Append(s, r))
<1>. DEFINE t == Append(s, r)
<1>1. /\ t \in Histories /\ Len(t) = Len(s) + 1 /\ t[Len(s) + 1] = r /\ Len(s) \in Nat
      /\ \A i \in 1 .. Len(s) : t[i] = s[i]
  BY HistoryShape, OneMore
<1>. HIDE DEF t
<1>2. ASSUME NEW n \in 1 .. Len(t) PROVE ~Refuses(JobsOf(SubSeq(t, 1, n - 1)), t[n])
  <2>1. n - 1 \in 0 .. Len(s) /\ n - 1 \in 0 .. Len(t) /\ \A i \in 1 .. n - 1 : i \in 1 .. Len(s)
    BY <1>1
  <2>2. SubSeq(t, 1, n - 1) = SubSeq(s, 1, n - 1)
    BY <1>1, <2>1, SameLines
  <2>3. CASE n = Len(s) + 1
    <3>1. n - 1 = Len(s) /\ SubSeq(s, 1, Len(s)) = s
      BY <1>1, <2>3, SubSeqFull DEF Histories
    <3>. QED
      BY <1>1, <2>2, <2>3, <3>1
  <2>4. CASE n \in 1 .. Len(s)
    BY <1>1, <2>2, <2>4 DEF Replays
  <2>. QED
    BY <1>1, <2>3, <2>4
<1>3. Replays(t)
  BY <1>2 DEF Replays
<1>. QED
  BY <1>3 DEF t

(* What a power loss leaves of a history that replays, replays.            *)
LEMMA ReplaysSome ==
  ASSUME NEW s \in Histories, Replays(s), NEW n \in 0 .. Len(s)
  PROVE  Replays(SubSeq(s, 1, n))
<1>. DEFINE t == SubSeq(s, 1, n)
<1>1. t \in Histories /\ Len(t) = n /\ n \in Nat /\ Len(s) \in Nat /\ \A i \in 1 .. n : t[i] = s[i]
  BY HistoryShape, SomeLines
<1>. HIDE DEF t
<1>2. ASSUME NEW k \in 1 .. Len(t) PROVE ~Refuses(JobsOf(SubSeq(t, 1, k - 1)), t[k])
  <2>1. /\ k - 1 \in 0 .. Len(s) /\ k - 1 \in 0 .. Len(t) /\ k \in 1 .. Len(s)
        /\ \A i \in 1 .. k - 1 : i \in 1 .. n
    BY <1>1
  <2>2. SubSeq(t, 1, k - 1) = SubSeq(s, 1, k - 1)
    BY <1>1, <2>1, SameLines
  <2>. QED
    BY <1>1, <2>1, <2>2 DEF Replays
<1>3. Replays(t)
  BY <1>2 DEF Replays
<1>. QED
  BY <1>3 DEF t

(* A line is refused once it has been applied.                             *)
LEMMA NeverTwice ==
  ASSUME NEW ms \in [HistoryJobs -> Machine], NEW r \in HistoryLine
  PROVE  Refuses(Applied(ms, r), r)
<1>. DEFINE m == Applied(ms, r)[r.job]
<1>1. m = IF r.kind = "created" THEN Seeded ELSE After(ms[r.job], r.kind, r.seq)
  BY AppliedIs
<1>2. CASE r.kind = "created"
  <2>1. m # Unknown
    BY <1>1, <1>2 DEF Seeded, Unknown
  <2>. QED
    BY <1>2, <2>1 DEF Refuses
<1>3. CASE r.kind # "created"
  <2>1. m.last = r.seq /\ r.seq \in Nat
    BY <1>1, <1>3 DEF After, HistoryLine
  <2>2. ~Accepts(m, r.kind, r.seq)
    BY <2>1 DEF Accepts
  <2>. QED
    BY <1>3, <2>2 DEF Refuses
<1>. QED
  BY <1>2, <1>3

HistoryInv == HistoryTypeOK /\ RecordsInv /\ CallInv /\ MemoryInv

LEMMA NoCallIs == NoAppend.at = "none" /\ NoAppend \in HistoryCalls \cup {NoAppend}
  BY DEF NoAppend

(* A call that is under way, or left behind, has a record; it moves on.    *)
LEMMA CallMoves ==
  ASSUME HistoryTypeOK, append.at # "none",
         NEW a \in {"none", "write", "sync", "check", "reconcile", "left"}
  PROVE  /\ append.record \in HistoryLine
         /\ [append EXCEPT !.at = a] \in HistoryCalls \cup {NoAppend}
         /\ [append EXCEPT !.at = a].at = a /\ [append EXCEPT !.at = a].record = append.record
<1>1. append \in HistoryCalls
  BY NoCallIs DEF HistoryTypeOK
<1>. QED
  BY <1>1 DEF HistoryCalls

LEMMA NewCall ==
  ASSUME NEW r \in HistoryLine
  PROVE  /\ [at |-> "write", record |-> r] \in HistoryCalls \cup {NoAppend}
         /\ [at |-> "write", record |-> r].at = "write" /\ [at |-> "write", record |-> r].record = r
  BY DEF HistoryCalls

LEMMA TroubleIs ==
  ASSUME HistoryTypeOK, HistoryTrouble PROVE strain' \in [trouble : Nat, look : Nat]
  BY DEF HistoryTypeOK, HistoryTrouble

(* The file keeps what it has when nothing touches it.                     *)
LEMMA FileRests ==
  ASSUME RecordsInv, UNCHANGED <<records, safe, recorded, issued>> PROVE RecordsInv'
  BY DEF RecordsInv

(* A call that fails poisons the store, with the file as it happens to be. *)
LEMMA PoisonKeepsHistory ==
  ASSUME HistoryInv, append.at \in UnderWay, Fails(TRUE), UNCHANGED <<entries, mine>>,
         records' \in Histories, safe' \in 0 .. Len(records'), remnant' \in {"none", "torn"},
         strain' \in [trouble : Nat, look : Nat], RecordsInv'
  PROVE  HistoryInv'
<1>1. /\ poisoned' = TRUE /\ append' = NoAppend /\ append'.at = "none"
      /\ storeAt' \in {"down", "ready"} /\ (storeAt' = "ready" => storeAt = "ready")
  BY NoCallIs DEF Fails, HistoryInv, HistoryTypeOK
<1>2. HistoryTypeOK'
  BY <1>1, NoCallIs DEF HistoryInv, HistoryTypeOK
<1>3. CallInv'
  BY <1>1 DEF CallInv, UnderWay
<1>4. MemoryInv'
  BY <1>1 DEF HistoryInv, MemoryInv
<1>. QED
  BY <1>2, <1>3, <1>4 DEF HistoryInv

LEMMA LoadKeepsHistory == ASSUME HistoryInv, Load PROVE HistoryInv'
<1>. DEFINE whole == IF remnant \in {"none", "torn"} THEN records ELSE Append(records, append.record)
<1>1. /\ storeAt = "down" /\ remnant' = "none" /\ append' = NoAppend /\ records' = whole
      /\ safe' = (IF remnant = "none" THEN safe ELSE Len(whole))
      /\ mine' = {} /\ poisoned' = FALSE
      /\ IF Replays(whole) THEN storeAt' = "recovering" /\ entries' = JobsOf(whole)
                           ELSE storeAt' = "corrupt" /\ UNCHANGED entries
      /\ UNCHANGED <<recorded, strain, issued>>
  BY DEF Load
<1>2. records \in Histories /\ Len(records) \in Nat /\ DOMAIN records = 1 .. Len(records)
      /\ safe \in 0 .. Len(records)
  BY HistoryShape DEF HistoryInv, HistoryTypeOK
<1>3. /\ whole \in Histories /\ Replays(whole) /\ Len(records) <= Len(whole)
      /\ DOMAIN whole = 1 .. Len(whole) /\ Len(whole) \in Nat
      /\ \A i \in DOMAIN records : whole[i] = records[i]
      /\ \A i \in DOMAIN whole : whole[i].job \in issued
  <2>1. CASE remnant \in {"none", "torn"}
    <3>1. whole = records /\ Len(records) <= Len(records)
      BY <1>2, <2>1
    <3>. QED
      BY <1>2, <3>1 DEF HistoryInv, RecordsInv
  <2>2. CASE remnant = "whole"
    <3>1. /\ append.at # "none" /\ ~Refuses(JobsOf(records), append.record)
          /\ append.record.job \in issued
      BY <2>2 DEF HistoryInv, CallInv
    <3>2. append.record \in HistoryLine
      BY <3>1, CallMoves DEF HistoryInv
    <3>3. whole = Append(records, append.record)
      BY <2>2
    <3>. DEFINE r == append.record
                t == Append(records, r)
    <3>4. Replays(t)
      BY <1>2, <3>1, <3>2, ReplaysOneMore DEF HistoryInv, RecordsInv
    <3>5. /\ t \in Histories /\ Len(t) = Len(records) + 1 /\ DOMAIN t = 1 .. Len(records) + 1
          /\ t[Len(records) + 1] = r /\ \A i \in 1 .. Len(records) : t[i] = records[i]
      BY <1>2, <3>2, OneMore
    <3>6. \A i \in DOMAIN records : records[i].job \in issued
      BY DEF HistoryInv, RecordsInv
    <3>. HIDE DEF t
    <3>7. \A i \in DOMAIN t : t[i].job \in issued
      <4>. TAKE i \in DOMAIN t
      <4>1. i = Len(records) + 1 \/ i \in DOMAIN records
        BY <1>2, <3>5
      <4>. QED
        BY <1>2, <3>1, <3>5, <3>6, <4>1
    <3>8. Len(records) <= Len(t) /\ DOMAIN t = 1 .. Len(t) /\ Len(t) \in Nat
      BY <1>2, <3>5
    <3>9. whole = t
      BY <3>3 DEF t
    <3>. HIDE DEF whole, r
    <3>. QED
      BY <1>2, <3>4, <3>5, <3>7, <3>8, <3>9
  <2>. QED
    BY <2>1, <2>2 DEF HistoryInv, HistoryTypeOK
<1>. HIDE DEF whole
<1>4. storeAt' = "recovering" /\ entries' = JobsOf(whole) /\ entries' \in [HistoryJobs -> Machine]
  BY <1>1, <1>3, ReplayIs
<1>5. safe' \in 0 .. Len(whole) /\ \A i \in 1 .. safe : i \in 1 .. safe' /\ i \in DOMAIN records
  BY <1>1, <1>2, <1>3
<1>6. HistoryTypeOK'
  BY <1>1, <1>3, <1>4, <1>5, NoCallIs DEF HistoryInv, HistoryTypeOK
<1>7. RecordsInv'
  <2>1. \A r \in recorded : \E i \in 1 .. safe : records[i] = r
    BY DEF HistoryInv, RecordsInv
  <2>. QED
    BY <1>1, <1>3, <1>5, <2>1 DEF RecordsInv
<1>8. CallInv'
  BY <1>1, <1>4, NoCallIs DEF CallInv, UnderWay
<1>9. MemoryInv'
  BY <1>1, <1>4, NoCallIs DEF MemoryInv
<1>. QED
  BY <1>6, <1>7, <1>8, <1>9 DEF HistoryInv

LEMMA RestsKeepHistory ==
  ASSUME HistoryInv, LoadFails \/ UNCHANGED historyVars PROVE HistoryInv'
<1>1. /\ UNCHANGED <<records, remnant, safe, storeAt, entries, poisoned, append, recorded, issued, mine>>
      /\ strain' \in [trouble : Nat, look : Nat]
  BY TroubleIs DEF LoadFails, historyVars, historyFile, memory, HistoryInv, HistoryTypeOK
<1>2. HistoryTypeOK'
  BY <1>1 DEF HistoryInv, HistoryTypeOK
<1>3. CallInv'
  BY <1>1 DEF HistoryInv, CallInv
<1>4. MemoryInv'
  BY <1>1 DEF HistoryInv, MemoryInv, Unwritten, Written, Present
<1>. QED
  BY <1>1, <1>2, <1>3, <1>4, FileRests DEF HistoryInv

LEMMA RecoveredKeepsHistory == ASSUME HistoryInv, Recovered PROVE HistoryInv'
<1>1. /\ UNCHANGED <<records, remnant, safe, entries, poisoned, append, recorded, issued, mine, strain>>
      /\ storeAt = "recovering" /\ append.at = "none" /\ storeAt' = "ready"
      /\ \A j \in HistoryJobs : entries[j].status \notin Active
  BY DEF Recovered, historyFile, Interrupted
<1>2. HistoryTypeOK'
  BY <1>1 DEF HistoryInv, HistoryTypeOK
<1>3. CallInv'
  BY <1>1 DEF HistoryInv, CallInv, UnderWay
<1>4. MemoryInv'
  BY <1>1 DEF HistoryInv, MemoryInv
<1>. QED
  BY <1>1, <1>2, <1>3, <1>4, FileRests DEF HistoryInv

LEMMA CloseHistoryKeeps == ASSUME HistoryInv, CloseHistory PROVE HistoryInv'
<1>1. /\ UNCHANGED <<records, remnant, safe, poisoned, append, recorded, issued, mine, strain>>
      /\ storeAt = "ready" /\ append.at = "none" /\ storeAt' = "down" /\ entries' = Nobody
  BY DEF CloseHistory, historyFile
<1>2. entries' \in [HistoryJobs -> Machine]
  BY <1>1 DEF Nobody, Unknown, Machine
<1>3. HistoryTypeOK'
  BY <1>1, <1>2 DEF HistoryInv, HistoryTypeOK
<1>4. CallInv'
  BY <1>1 DEF HistoryInv, CallInv, UnderWay
<1>5. MemoryInv'
  BY <1>1 DEF MemoryInv
<1>. QED
  BY <1>1, <1>3, <1>4, <1>5, FileRests DEF HistoryInv

-----------------------------------------------------------------------------
(* A call begins with a record that the replay of the file accepts.        *)
LEMMA CallBegins ==
  ASSUME HistoryInv, storeAt \in {"recovering", "ready"}, append.at = "none", ~poisoned,
         NEW r \in HistoryLine, append' = [at |-> "write", record |-> r], ~Refuses(entries, r),
         UNCHANGED <<records, remnant, safe, storeAt, entries, poisoned, recorded, mine, strain>>,
         issued \subseteq issued', r.job \in issued'
  PROVE  HistoryInv'
<1>1. append' \in HistoryCalls \cup {NoAppend} /\ append'.at = "write" /\ append'.record = r
  BY NewCall
<1>2. HistoryTypeOK'
  BY <1>1 DEF HistoryInv, HistoryTypeOK
<1>3. RecordsInv'
  BY DEF HistoryInv, RecordsInv
<1>4. CallInv'
  BY <1>1 DEF HistoryInv, CallInv, UnderWay
<1>5. MemoryInv'
  BY <1>1 DEF HistoryInv, MemoryInv, Unwritten
<1>. QED
  BY <1>2, <1>3, <1>4, <1>5 DEF HistoryInv

LEMMA MayFail ==
  ASSUME NEW m \in Machine, m.status \in Active
  PROVE  Accepts(m, "failed", m.last + 1) /\ m # Unknown /\ m.last + 1 \in Nat
<1>1. m.last \in Nat /\ m.last + 1 > m.last /\ m.last + 1 \in Nat
  BY DEF Machine
<1>2. m.status \in {"previewing", "queued", "processing", "cancelling"}
  BY DEF Active
<1>3. m.status \notin TerminalStatuses /\ "failed" \notin ProgressKinds
  BY <1>2 DEF TerminalStatuses, ProgressKinds, ProgressStatus
<1>4. "failed" \in Transitions[m.status]
  BY <1>2 DEF Transitions, TerminalStatuses
<1>5. m # Unknown
  BY <1>2 DEF Unknown
<1>. QED
  BY <1>1, <1>3, <1>4, <1>5 DEF Accepts

(* A job that the store knows was issued.                                  *)
LEMMA KnownWasIssued ==
  ASSUME HistoryInv, entries = JobsOf(records), NEW j \in HistoryJobs, entries[j] # Unknown
  PROVE  j \in issued
<1>1. records \in Histories
  BY DEF HistoryInv, HistoryTypeOK
<1>2. PICK i \in DOMAIN records : records[i].job = j
  BY <1>1, ReplayIs
<1>. QED
  BY <1>2 DEF HistoryInv, RecordsInv

LEMMA InterruptedKeepsHistory ==
  ASSUME HistoryInv, NEW j \in HistoryJobs, CloseInterrupted(j) PROVE HistoryInv'
<1>. DEFINE r == [job |-> j, kind |-> "failed", seq |-> entries[j].last + 1]
<1>1. /\ storeAt = "recovering" /\ append.at = "none" /\ entries[j].status \in Active
      /\ append' = [at |-> "write", record |-> r]
      /\ UNCHANGED <<records, remnant, safe, storeAt, entries, poisoned, recorded, mine, strain, issued>>
  BY DEF CloseInterrupted, Interrupted, historyFile, memory
<1>2. ~poisoned /\ entries = JobsOf(records) /\ entries[j] \in Machine
  BY <1>1 DEF HistoryInv, CallInv, MemoryInv, HistoryTypeOK
<1>3. Accepts(entries[j], "failed", entries[j].last + 1) /\ entries[j] # Unknown
      /\ entries[j].last + 1 \in Nat
  BY <1>1, <1>2, MayFail
<1>4. r \in HistoryLine /\ r.job = j /\ r.kind = "failed" /\ r.seq = entries[j].last + 1
  BY <1>3 DEF HistoryLine, Kinds, Statuses, Transitions
<1>. HIDE DEF r
<1>5. ~Refuses(entries, r)
  BY <1>3, <1>4 DEF Refuses
<1>6. r.job \in issued'
  BY <1>1, <1>2, <1>3, <1>4, KnownWasIssued
<1>. QED
  BY <1>1, <1>2, <1>4, <1>5, <1>6, CallBegins

LEMMA CreateKeepsHistory ==
  ASSUME HistoryInv, NEW j \in HistoryJobs, CreateJob(j) PROVE HistoryInv'
<1>. DEFINE r == Created(j)
<1>1. /\ storeAt = "ready" /\ append.at = "none" /\ ~poisoned /\ j \notin issued
      /\ append' = [at |-> "write", record |-> r] /\ issued' = issued \cup {j}
      /\ UNCHANGED <<records, remnant, safe, storeAt, entries, poisoned, recorded, mine, strain>>
  BY DEF CreateJob, Ready, historyFile, memory
<1>2. entries = JobsOf(records)
  BY <1>1 DEF HistoryInv, MemoryInv
<1>3. r \in HistoryLine /\ r.job = j /\ r.kind = "created"
  BY DEF HistoryLine, Created
<1>. HIDE DEF r
<1>4. ~Refuses(entries, r)
  BY <1>1, <1>2, <1>3, KnownWasIssued DEF Refuses
<1>. QED
  BY <1>1, <1>3, <1>4, CallBegins

LEMMA EventKeepsHistory ==
  ASSUME HistoryInv, NEW j \in HistoryJobs, NEW kind \in EventKinds,
         NEW seq \in 3 .. MaxHistorySequence, AppendEvent(j, kind, seq)
  PROVE  HistoryInv'
<1>. DEFINE r == [job |-> j, kind |-> kind, seq |-> seq]
<1>1. /\ storeAt = "ready" /\ append.at = "none" /\ ~poisoned
      /\ entries[j] # Unknown /\ Accepts(entries[j], kind, seq)
      /\ append' = [at |-> "write", record |-> r]
      /\ UNCHANGED <<records, remnant, safe, storeAt, entries, poisoned, recorded, mine, strain, issued>>
  BY DEF AppendEvent, Ready, historyFile, memory
<1>2. entries = JobsOf(records)
  BY <1>1 DEF HistoryInv, MemoryInv
<1>3. kind \in Kinds /\ kind # "created" /\ seq \in Nat
  BY HistoryAssumption DEF EventKinds, Kinds, Statuses, Transitions, ProgressKinds, ProgressStatus
<1>4. r \in HistoryLine /\ r.job = j /\ r.kind = kind /\ r.seq = seq
  BY <1>3 DEF HistoryLine
<1>. HIDE DEF r
<1>5. ~Refuses(entries, r)
  BY <1>1, <1>3, <1>4 DEF Refuses
<1>6. r.job \in issued'
  BY <1>1, <1>2, <1>4, KnownWasIssued
<1>. QED
  BY <1>1, <1>4, <1>5, <1>6, CallBegins

-----------------------------------------------------------------------------
(* A record that the replay accepts, and that comes to the end of the file.*)
LEMMA RecordIsWritten ==
  ASSUME HistoryInv, append.at # "none", Unwritten, append.record.job \in issued
  PROVE  LET t == Append(records, append.record) IN
         /\ t \in Histories /\ Replays(t) /\ t # <<>> /\ Last(t) = append.record
         /\ Len(records) \in Nat /\ Len(t) = Len(records) + 1 /\ safe \in 0 .. Len(t)
         /\ JobsOf(t) = Applied(entries, append.record)
         /\ \A i \in DOMAIN t : t[i].job \in issued
         /\ \A x \in recorded : \E i \in 1 .. safe : t[i] = x
         /\ \A i \in DOMAIN records : t[i] = records[i]
<1>. DEFINE r == append.record
            t == Append(records, r)
<1>1. /\ records \in Histories /\ Len(records) \in Nat /\ DOMAIN records = 1 .. Len(records)
      /\ safe \in 0 .. Len(records) /\ r \in HistoryLine
      /\ entries = JobsOf(records) /\ ~Refuses(JobsOf(records), r) /\ r.job \in issued
  BY HistoryShape, CallMoves DEF HistoryInv, HistoryTypeOK, Unwritten
<1>2. /\ Replays(records) /\ \A i \in DOMAIN records : records[i].job \in issued
      /\ \A x \in recorded : \E i \in 1 .. safe : records[i] = x
  BY DEF HistoryInv, RecordsInv
<1>. HIDE DEF r
<1>3. Replays(t) /\ JobsOf(t) = Applied(entries, r)
  BY <1>1, <1>2, ReplaysOneMore, ReplayGoesOn
<1>4. /\ t \in Histories /\ Len(t) = Len(records) + 1 /\ DOMAIN t = 1 .. Len(records) + 1 /\ t # <<>>
      /\ Last(t) = r /\ t[Len(records) + 1] = r /\ \A i \in 1 .. Len(records) : t[i] = records[i]
  BY <1>1, OneMore
<1>. HIDE DEF t
<1>5. ASSUME NEW i \in DOMAIN t PROVE t[i].job \in issued
  <2>1. i = Len(records) + 1 \/ i \in DOMAIN records
    BY <1>1, <1>4
  <2>. QED
    BY <1>1, <1>2, <1>4, <2>1
<1>6. \A x \in recorded : \E i \in 1 .. safe : t[i] = x
  <2>1. \A i \in 1 .. safe : t[i] = records[i]
    BY <1>1, <1>4
  <2>. QED
    BY <1>2, <2>1
<1>7. safe \in 0 .. Len(t)
  BY <1>1, <1>4
<1>. QED
  BY <1>1, <1>3, <1>4, <1>5, <1>6, <1>7 DEF t, r

(* What has been applied is not at the end of a file that accepts it.      *)
LEMMA UnwrittenIsAbsent ==
  ASSUME HistoryInv, append.at # "none", Unwritten PROVE ~Present
<1>. DEFINE r == append.record
<1>1. /\ records \in Histories /\ Len(records) \in Nat /\ DOMAIN records = 1 .. Len(records)
      /\ r \in HistoryLine /\ ~Refuses(JobsOf(records), r)
  BY HistoryShape, CallMoves DEF HistoryInv, HistoryTypeOK, Unwritten
<1>2. SUFFICES ASSUME records # <<>>, Last(records) = r PROVE FALSE
  BY DEF Present
<1>. HIDE DEF r
<1>. DEFINE n == Len(records) - 1
            p == SubSeq(records, 1, n)
<1>3. n \in 0 .. Len(records) /\ Len(records) = n + 1 /\ n \in Nat /\ records[n + 1] = r
  BY <1>1, <1>2, HistoryShape DEF Last
<1>. HIDE DEF n
<1>4. p \in Histories /\ Len(p) = n /\ \A i \in 1 .. n : p[i] = records[i]
  BY <1>1, <1>3, SomeLines
<1>. HIDE DEF p
<1>5. records = Append(p, r)
  <2>1. /\ Append(p, r) \in Histories /\ Len(Append(p, r)) = n + 1 /\ Append(p, r)[n + 1] = r
        /\ \A i \in 1 .. n : Append(p, r)[i] = p[i]
    BY <1>1, <1>4, OneMore
  <2>2. \A i \in 1 .. n + 1 : Append(p, r)[i] = records[i]
    <3>1. \A i \in 1 .. n + 1 : i = n + 1 \/ i \in 1 .. n
      BY <1>3
    <3>. QED
      BY <1>3, <1>4, <2>1, <3>1
  <2>. QED
    BY <1>1, <1>3, <2>1, <2>2, SeqEqual DEF Histories
<1>6. JobsOf(records) = Applied(JobsOf(p), r)
  BY <1>1, <1>4, <1>5, ReplayGoesOn
<1>7. Refuses(JobsOf(records), r)
  BY <1>1, <1>4, <1>6, ReplayIs, NeverTwice
<1>. QED
  BY <1>1, <1>7

(* What a call that is under way knows.                                    *)
LEMMA InCall ==
  ASSUME HistoryInv, append.at \in UnderWay
  PROVE  /\ append.at # "none" /\ append.record \in HistoryLine /\ append.record.job \in issued
         /\ storeAt \in {"recovering", "ready"} /\ ~poisoned /\ remnant \in {"none", "torn"}
         /\ records \in Histories /\ safe \in 0 .. Len(records) /\ Len(records) \in Nat
         /\ strain \in [trouble : Nat, look : Nat]
<1>1. append.at # "none"
  BY DEF UnderWay
<1>2. append.record \in HistoryLine
  BY <1>1, CallMoves DEF HistoryInv
<1>3. append.at # "left"
  BY DEF UnderWay
<1>. QED
  BY <1>1, <1>2, <1>3, HistoryShape DEF HistoryInv, HistoryTypeOK, CallInv

LEMMA WriteKeepsHistory == ASSUME HistoryInv, WriteRecord PROVE HistoryInv'
<1>1. append.at = "write" /\ append.at \in UnderWay
      /\ UNCHANGED <<safe, storeAt, entries, poisoned, recorded, mine, issued>>
  BY DEF WriteRecord, UnderWay, memory
<1>2. Unwritten
  BY <1>1, InCall DEF HistoryInv, MemoryInv
<1>3. CASE /\ records' = Append(records, append.record) /\ append' = [append EXCEPT !.at = "sync"]
           /\ UNCHANGED <<remnant, strain>>
  <2>1. append' \in HistoryCalls \cup {NoAppend} /\ append'.at = "sync" /\ append'.record = append.record
    BY <1>1, <1>3, InCall, CallMoves DEF HistoryInv
  <2>2. /\ records' \in Histories /\ Replays(records') /\ records' # <<>> /\ Last(records') = append.record
        /\ safe \in 0 .. Len(records') /\ JobsOf(records') = Applied(entries, append.record)
        /\ \A i \in DOMAIN records' : records'[i].job \in issued
        /\ \A x \in recorded : \E i \in 1 .. safe : records'[i] = x
    BY <1>1, <1>2, <1>3, InCall, RecordIsWritten
  <2>3. HistoryTypeOK'
    BY <1>1, <1>3, <2>1, <2>2 DEF HistoryInv, HistoryTypeOK
  <2>4. RecordsInv'
    BY <1>1, <2>2 DEF RecordsInv
  <2>5. CallInv'
    BY <1>1, <1>3, <2>1 DEF HistoryInv, CallInv, UnderWay
  <2>6. MemoryInv'
    BY <1>1, <2>1, <2>2 DEF HistoryInv, MemoryInv, Written, Present
  <2>. QED
    BY <2>3, <2>4, <2>5, <2>6 DEF HistoryInv
<1>4. CASE /\ HistoryTrouble /\ remnant' \in {"none", "torn"} /\ UNCHANGED records
           /\ append' = [append EXCEPT !.at = "reconcile"]
  <2>1. append' \in HistoryCalls \cup {NoAppend} /\ append'.at = "reconcile" /\ append'.record = append.record
    BY <1>1, <1>4, InCall, CallMoves DEF HistoryInv
  <2>2. strain' \in [trouble : Nat, look : Nat]
    BY <1>4, TroubleIs DEF HistoryInv
  <2>3. HistoryTypeOK'
    BY <1>1, <1>4, <2>1, <2>2 DEF HistoryInv, HistoryTypeOK
  <2>4. RecordsInv'
    BY <1>1, <1>4, FileRests DEF HistoryInv
  <2>5. CallInv'
    BY <1>1, <1>4, <2>1 DEF HistoryInv, CallInv, UnderWay
  <2>6. ~Present /\ Unwritten
    BY <1>1, <1>2, InCall, UnwrittenIsAbsent
  <2>7. MemoryInv'
    BY <1>1, <1>4, <2>1, <2>6 DEF HistoryInv, MemoryInv, Unwritten, Present
  <2>. QED
    BY <2>3, <2>4, <2>5, <2>7 DEF HistoryInv
<1>. QED
  BY <1>3, <1>4 DEF WriteRecord

LEMMA SyncKeepsHistory == ASSUME HistoryInv, SyncRecord PROVE HistoryInv'
<1>1. append.at = "sync" /\ append.at \in UnderWay
      /\ UNCHANGED <<records, remnant, storeAt, entries, poisoned, recorded, mine, issued>>
  BY DEF SyncRecord, UnderWay, memory
<1>2. Written
  BY <1>1, InCall DEF HistoryInv, MemoryInv
<1>3. /\ safe' \in 0 .. Len(records) /\ \A i \in 1 .. safe : i \in 1 .. safe'
      /\ strain' \in [trouble : Nat, look : Nat]
      /\ append' \in HistoryCalls \cup {NoAppend} /\ append'.record = append.record
      /\ append'.at = "reconcile" \/ (append'.at = "check" /\ safe' = Len(records))
  <2>1. CASE safe' = Len(records) /\ append' = [append EXCEPT !.at = "check"] /\ UNCHANGED strain
    <3>1. /\ append' \in HistoryCalls \cup {NoAppend} /\ append'.at = "check" /\ append'.record = append.record
      BY <1>1, <2>1, InCall, CallMoves DEF HistoryInv
    <3>2. safe' \in 0 .. Len(records) /\ \A i \in 1 .. safe : i \in 1 .. safe'
      BY <1>1, <2>1, InCall
    <3>. QED
      BY <1>1, <2>1, <3>1, <3>2, InCall
  <2>2. CASE HistoryTrouble /\ append' = [append EXCEPT !.at = "reconcile"] /\ UNCHANGED safe
    <3>1. /\ append' \in HistoryCalls \cup {NoAppend} /\ append'.at = "reconcile"
          /\ append'.record = append.record
      BY <1>1, <2>2, InCall, CallMoves DEF HistoryInv
    <3>. QED
      BY <1>1, <2>2, <3>1, InCall, TroubleIs DEF HistoryInv
  <2>. QED
    BY <2>1, <2>2 DEF SyncRecord
<1>4. HistoryTypeOK'
  BY <1>1, <1>3 DEF HistoryInv, HistoryTypeOK
<1>5. RecordsInv'
  BY <1>1, <1>3 DEF HistoryInv, RecordsInv
<1>6. CallInv'
  BY <1>1, <1>3 DEF HistoryInv, CallInv, UnderWay
<1>7. MemoryInv'
  BY <1>1, <1>2, <1>3 DEF HistoryInv, MemoryInv, Written, Present
<1>. QED
  BY <1>4, <1>5, <1>6, <1>7 DEF HistoryInv

LEMMA ReconcileKeepsHistory == ASSUME HistoryInv, Reconcile PROVE HistoryInv'
<1>1. append.at = "reconcile" /\ append.at \in UnderWay /\ UNCHANGED <<recorded, mine, issued>>
  BY DEF Reconcile, UnderWay
<1>2. IF Present THEN Written ELSE Unwritten
  BY <1>1, InCall DEF HistoryInv, MemoryInv
<1>3. /\ Replays(records) /\ \A i \in DOMAIN records : records[i].job \in issued
      /\ \A x \in recorded : \E i \in 1 .. safe : records[i] = x
  BY DEF HistoryInv, RecordsInv
<1>4. CASE /\ records' = (IF Present THEN records ELSE Append(records, append.record))
           /\ remnant' = "none" /\ safe' = Len(records') /\ append' = [append EXCEPT !.at = "check"]
           /\ UNCHANGED <<memory, strain>>
  <2>1. append' \in HistoryCalls \cup {NoAppend} /\ append'.at = "check" /\ append'.record = append.record
        /\ UNCHANGED <<storeAt, entries, poisoned>>
    BY <1>1, <1>4, InCall, CallMoves DEF HistoryInv, memory
  <2>2. /\ records' \in Histories /\ Replays(records') /\ records' # <<>> /\ Last(records') = append.record
        /\ safe \in 0 .. Len(records') /\ JobsOf(records') = Applied(entries, append.record)
        /\ Len(records') \in Nat
        /\ \A i \in DOMAIN records' : records'[i].job \in issued
        /\ \A x \in recorded : \E i \in 1 .. safe : records'[i] = x
    <3>1. CASE Present
      <4>1. records' = records
        BY <1>4, <3>1
      <4>. QED
        BY <1>1, <1>2, <1>3, <3>1, <4>1, InCall DEF Written, Present
    <3>2. CASE ~Present
      <4>1. records' = Append(records, append.record) /\ Unwritten
        BY <1>2, <1>4, <3>2
      <4>2. append.at # "none" /\ append.record.job \in issued
        BY <1>1, InCall
      <4>3. Len(Append(records, append.record)) \in Nat
        BY <4>1, <4>2, RecordIsWritten
      <4>. QED
        BY <4>1, <4>2, <4>3, RecordIsWritten
    <3>. QED
      BY <3>1, <3>2
  <2>3. safe' \in 0 .. Len(records') /\ \A i \in 1 .. safe : i \in 1 .. safe'
    BY <1>4, <2>2
  <2>4. HistoryTypeOK'
    BY <1>1, <1>4, <2>1, <2>2, <2>3 DEF HistoryInv, HistoryTypeOK
  <2>5. RecordsInv'
    BY <1>1, <2>2, <2>3 DEF RecordsInv
  <2>6. CallInv'
    BY <1>1, <1>4, <2>1 DEF HistoryInv, CallInv, UnderWay
  <2>7. MemoryInv'
    BY <1>1, <1>4, <2>1, <2>2 DEF HistoryInv, MemoryInv, Written, Present
  <2>. QED
    BY <2>4, <2>5, <2>6, <2>7 DEF HistoryInv
<1>5. CASE /\ HistoryTrouble /\ Fails(TRUE) /\ UNCHANGED entries
           /\ \/ remnant' \in {remnant, "none", "torn"} /\ UNCHANGED <<records, safe>>
              \/ ~Present /\ remnant' = "none" /\ records' = Append(records, append.record)
                 /\ UNCHANGED safe
  <2>1. strain' \in [trouble : Nat, look : Nat]
    BY <1>5, TroubleIs DEF HistoryInv
  <2>2. CASE remnant' \in {remnant, "none", "torn"} /\ UNCHANGED <<records, safe>>
    <3>1. RecordsInv'
      BY <1>1, <2>2, FileRests DEF HistoryInv
    <3>2. remnant' \in {"none", "torn"} /\ records' \in Histories /\ safe' \in 0 .. Len(records')
      BY <1>1, <2>2, InCall
    <3>. QED
      BY <1>1, <1>5, <2>1, <3>1, <3>2, PoisonKeepsHistory
  <2>3. CASE ~Present /\ remnant' = "none" /\ records' = Append(records, append.record)
             /\ UNCHANGED safe
    <3>1. append.at # "none" /\ append.record.job \in issued /\ Unwritten
      BY <1>1, <1>2, <2>3, InCall
    <3>2. /\ records' \in Histories /\ Replays(records') /\ safe' \in 0 .. Len(records')
          /\ \A i \in DOMAIN records' : records'[i].job \in issued
          /\ \A x \in recorded : \E i \in 1 .. safe : records'[i] = x
      BY <2>3, <3>1, RecordIsWritten
    <3>3. RecordsInv'
      BY <1>1, <2>3, <3>2 DEF RecordsInv
    <3>. QED
      BY <1>1, <1>5, <2>1, <2>3, <3>2, <3>3, PoisonKeepsHistory
  <2>. QED
    BY <1>5, <2>2, <2>3
<1>. QED
  BY <1>4, <1>5 DEF Reconcile

(* Looks do not fail here: one that does leaves a record in the file that  *)
(* the memory does not have.                                               *)
LEMMA CheckKeepsHistory ==
  ASSUME MaxLookFailures = 0, HistoryInv, CheckRecord PROVE HistoryInv'
<1>1. append.at = "check" /\ append.at \in UnderWay /\ UNCHANGED <<records, remnant, safe, issued>>
  BY DEF CheckRecord, UnderWay, historyFile
<1>2. Written /\ safe = Len(records)
  BY <1>1, InCall DEF HistoryInv, MemoryInv
<1>3. CASE /\ entries' = Applied(entries, append.record) /\ append' = NoAppend
           /\ recorded' = recorded \cup {append.record}
           /\ mine' = IF storeAt = "ready" THEN mine \cup {append.record.job} ELSE mine
           /\ UNCHANGED <<storeAt, poisoned, strain>>
  <2>1. append' \in HistoryCalls \cup {NoAppend} /\ append'.at = "none"
    BY <1>3, NoCallIs
  <2>2. /\ entries' \in [HistoryJobs -> Machine] /\ append.record.job \in HistoryJobs
        /\ \A j \in HistoryJobs \ {append.record.job} : entries'[j] = entries[j]
    <3>1. append.record \in HistoryLine /\ entries \in [HistoryJobs -> Machine]
      BY <1>1, InCall DEF HistoryInv, HistoryTypeOK
    <3>. QED
      BY <1>3, <3>1, AppliedIs
  <2>3. entries' = JobsOf(records)
    BY <1>2, <1>3 DEF Written
  <2>4. HistoryTypeOK'
    BY <1>1, <1>3, <2>1, <2>2 DEF HistoryInv, HistoryTypeOK
  <2>5. RecordsInv'
    <3>1. Len(records) \in 1 .. safe /\ records[Len(records)] = append.record
      BY <1>1, <1>2, InCall, HistoryShape DEF Written, Present, Last
    <3>2. \A x \in recorded' : \E i \in 1 .. safe : records[i] = x
      BY <1>3, <3>1 DEF HistoryInv, RecordsInv
    <3>. QED
      BY <1>1, <3>2 DEF HistoryInv, RecordsInv
  <2>6. CallInv'
    BY <1>1, <1>3, <2>1, InCall DEF CallInv, UnderWay
  <2>7. storeAt' = "ready" => \A j \in HistoryJobs : entries'[j].status \in Active => j \in mine'
    BY <1>3, <2>2 DEF HistoryInv, MemoryInv
  <2>8. MemoryInv'
    BY <1>1, <2>1, <2>3, <2>7 DEF MemoryInv
  <2>. QED
    BY <2>4, <2>5, <2>6, <2>8 DEF HistoryInv
<1>4. CASE HistoryTrouble /\ Fails(TRUE) /\ UNCHANGED <<entries, recorded, mine>>
  <2>1. strain' \in [trouble : Nat, look : Nat]
    BY <1>4, TroubleIs DEF HistoryInv
  <2>2. RecordsInv'
    BY <1>1, <1>4, FileRests DEF HistoryInv
  <2>3. remnant' \in {"none", "torn"} /\ records' \in Histories /\ safe' \in 0 .. Len(records')
    BY <1>1, InCall
  <2>. QED
    BY <1>1, <1>4, <2>1, <2>2, <2>3, PoisonKeepsHistory
<1>5. ~(strain.look < MaxLookFailures)
  <2>1. strain.look \in Nat
    BY <1>1, InCall
  <2>. QED
    BY <2>1
<1>. QED
  BY <1>3, <1>4, <1>5 DEF CheckRecord

-----------------------------------------------------------------------------
(* The memory is gone, the file is what it is.                             *)
LEMMA GoneKeepsHistory ==
  ASSUME HistoryInv, storeAt' = "down", entries' = Nobody, HistoryTrouble,
         records' \in Histories, safe' \in 0 .. Len(records'), remnant' \in {"none", "torn", "whole"},
         append' \in HistoryCalls \cup {NoAppend}, append'.at \in {"none", "left"}, RecordsInv',
         append'.at = "left" <=> remnant' = "whole",
         remnant' = "whole" => append'.record.job \in issued' /\ ~Refuses(JobsOf(records'), append'.record)
  PROVE  HistoryInv'
<1>1. entries' \in [HistoryJobs -> Machine] /\ strain' \in [trouble : Nat, look : Nat]
  BY TroubleIs DEF Nobody, Unknown, Machine, HistoryInv
<1>2. HistoryTypeOK'
  BY <1>1 DEF HistoryTypeOK
<1>3. CallInv'
  BY DEF CallInv, UnderWay
<1>4. MemoryInv'
  BY DEF MemoryInv
<1>. QED
  BY <1>2, <1>3, <1>4 DEF HistoryInv

LEMMA ProcessEndKeepsHistory == ASSUME HistoryInv, HistoryProcessEnds PROVE HistoryInv'
<1>1. /\ storeAt \in {"recovering", "ready"} /\ HistoryTrouble /\ storeAt' = "down"
      /\ entries' = Nobody /\ UNCHANGED <<records, safe, recorded, issued>>
      /\ append' = [append EXCEPT !.at = IF remnant' = "whole" THEN "left" ELSE "none"]
  BY DEF HistoryProcessEnds
<1>2. remnant \in {"none", "torn"} /\ records \in Histories /\ safe \in 0 .. Len(records)
  BY <1>1 DEF HistoryInv, HistoryTypeOK, CallInv
<1>3. RecordsInv'
  BY <1>1, FileRests DEF HistoryInv
<1>4. CASE append.at = "none"
  <2>1. remnant' = remnant
    BY <1>1, <1>4 DEF HistoryProcessEnds
  <2>2. append' = [append EXCEPT !.at = "none"]
    BY <1>1, <1>2, <2>1
  <2>3. append' \in HistoryCalls \cup {NoAppend} /\ append'.at = "none"
    <3>1. CASE append \in HistoryCalls
      BY <2>2, <3>1 DEF HistoryCalls
    <3>2. CASE append = NoAppend
      BY <2>2, <3>2 DEF NoAppend
    <3>. QED
      BY <3>1, <3>2 DEF HistoryInv, HistoryTypeOK
  <2>. QED
    BY <1>1, <1>2, <1>3, <2>1, <2>3, GoneKeepsHistory
<1>5. CASE append.at # "none"
  <2>1. CASE remnant' = "whole"
    <3>1. append' = [append EXCEPT !.at = "left"]
      BY <1>1, <2>1
    <3>2. append' \in HistoryCalls \cup {NoAppend} /\ append'.at = "left" /\ append'.record = append.record
      BY <1>5, <3>1, CallMoves DEF HistoryInv
    <3>3. append.at \in {"write", "reconcile"} /\ ~Present
      BY <1>2, <2>1 DEF HistoryProcessEnds
    <3>4. Unwritten /\ append.record.job \in issued
      BY <3>3, InCall DEF HistoryInv, MemoryInv, UnderWay
    <3>5. ~Refuses(JobsOf(records'), append'.record)
      BY <1>1, <3>2, <3>4 DEF Unwritten
    <3>. QED
      BY <1>1, <1>2, <1>3, <2>1, <3>2, <3>4, <3>5, GoneKeepsHistory
  <2>2. CASE remnant' # "whole"
    <3>1. append' = [append EXCEPT !.at = "none"]
      BY <1>1, <2>2
    <3>2. append' \in HistoryCalls \cup {NoAppend} /\ append'.at = "none"
      BY <1>5, <3>1, CallMoves DEF HistoryInv
    <3>3. remnant' \in {"none", "torn"}
      BY <1>2, <2>2 DEF HistoryProcessEnds
    <3>. QED
      BY <1>1, <1>2, <1>3, <3>2, <3>3, GoneKeepsHistory
  <2>. QED
    BY <2>1, <2>2
<1>. QED
  BY <1>4, <1>5

LEMMA PowerKeepsHistory == ASSUME HistoryInv, HistoryPowerFails PROVE HistoryInv'
<1>1. /\ HistoryTrouble /\ storeAt' = "down" /\ entries' = Nobody /\ append' = NoAppend
      /\ UNCHANGED <<safe, recorded, issued>> /\ remnant' \in {"none", "torn"}
      /\ \E n \in safe .. Len(records) : records' = SubSeq(records, 1, n)
  BY DEF HistoryPowerFails
<1>2. PICK n \in safe .. Len(records) : records' = SubSeq(records, 1, n)
  BY <1>1
<1>3. records \in Histories /\ Len(records) \in Nat /\ safe \in Nat /\ n \in 0 .. Len(records) /\ safe <= n
  BY <1>2, HistoryShape DEF HistoryInv, HistoryTypeOK
<1>4. /\ records' \in Histories /\ Len(records') = n /\ n \in Nat /\ DOMAIN records' = 1 .. n
      /\ \A i \in 1 .. n : records'[i] = records[i] /\ i \in DOMAIN records
  BY <1>2, <1>3, SomeLines, HistoryShape
<1>5. Replays(records')
  BY <1>2, <1>3, ReplaysSome DEF HistoryInv, RecordsInv
<1>6. RecordsInv'
  <2>1. \A i \in DOMAIN records' : records'[i].job \in issued
    BY <1>4 DEF HistoryInv, RecordsInv
  <2>2. \A i \in 1 .. safe : i \in 1 .. n
    BY <1>3
  <2>3. \A x \in recorded : \E i \in 1 .. safe : records'[i] = x
    BY <1>4, <2>2 DEF HistoryInv, RecordsInv
  <2>. QED
    BY <1>1, <1>5, <2>1, <2>3 DEF RecordsInv
<1>7. safe' \in 0 .. Len(records')
  BY <1>1, <1>3, <1>4
<1>. QED
  BY <1>1, <1>4, <1>6, <1>7, NoCallIs, GoneKeepsHistory

-----------------------------------------------------------------------------
LEMMA HistoryStarts == HistoryInit => HistoryInv
<1>. SUFFICES ASSUME HistoryInit PROVE HistoryInv
  OBVIOUS
<1>1. <<>> \in Histories /\ Len(<<>>) = 0 /\ DOMAIN <<>> = {}
  BY DEF Histories
<1>2. Nobody \in [HistoryJobs -> Machine]
  BY DEF Nobody, Unknown, Machine
<1>3. HistoryTypeOK
  BY <1>1, <1>2, NoCallIs DEF HistoryInit, HistoryTypeOK
<1>4. RecordsInv
  BY <1>1 DEF HistoryInit, RecordsInv, Replays
<1>5. CallInv
  BY NoCallIs DEF HistoryInit, CallInv, UnderWay
<1>6. MemoryInv
  BY DEF HistoryInit, MemoryInv
<1>. QED
  BY <1>3, <1>4, <1>5, <1>6 DEF HistoryInv

LEMMA HistoryStep ==
  ASSUME MaxLookFailures = 0, HistoryInv, [HistoryNext]_historyVars PROVE HistoryInv'
<1>1. CASE Load \/ Recovered \/ CloseHistory
  BY <1>1, LoadKeepsHistory, RecoveredKeepsHistory, CloseHistoryKeeps
<1>2. CASE LoadFails \/ UNCHANGED historyVars
  BY <1>2, RestsKeepHistory
<1>3. CASE WriteRecord \/ SyncRecord \/ Reconcile \/ CheckRecord
  BY <1>3, WriteKeepsHistory, SyncKeepsHistory, ReconcileKeepsHistory, CheckKeepsHistory
<1>4. ASSUME NEW j \in HistoryJobs, CreateJob(j) \/ CloseInterrupted(j) PROVE HistoryInv'
  BY <1>4, CreateKeepsHistory, InterruptedKeepsHistory
<1>5. ASSUME NEW j \in HistoryJobs, NEW kind \in EventKinds, NEW seq \in 3 .. MaxHistorySequence,
             AppendEvent(j, kind, seq)
      PROVE  HistoryInv'
  BY <1>5, EventKeepsHistory
<1>6. CASE HistoryProcessEnds \/ HistoryPowerFails
  BY <1>6, ProcessEndKeepsHistory, PowerKeepsHistory
<1>. QED
  BY <1>1, <1>2, <1>3, <1>4, <1>5, <1>6 DEF HistoryNext

LEMMA HistoryKept ==
  ASSUME MaxLookFailures = 0 PROVE HistorySpec => []HistoryInv
<1>1. HistoryInv /\ [HistoryNext]_historyVars => HistoryInv'
  BY HistoryStep
<1>. QED
  BY <1>1, HistoryStarts, PTL DEF HistorySpec

(* Whatever became of the process, the machine and the calls that failed,  *)
(* the next process can load the history, as long as no look at the lock   *)
(* fails after a record was written: run history_look shows what does then.*)
THEOREM HistoryAlwaysReplays ==
  ASSUME MaxLookFailures = 0 PROVE HistorySpec => []HistoryReplays
<1>1. ASSUME HistoryInv PROVE HistoryReplays
  <2>1. records \in Histories /\ storeAt # "corrupt" /\ Replays(records)
    BY <1>1 DEF HistoryInv, HistoryTypeOK, RecordsInv
  <2>2. ASSUME remnant = "whole" PROVE Replays(Append(records, append.record))
    <3>1. append.at # "none" /\ ~Refuses(JobsOf(records), append.record)
      BY <1>1, <2>2 DEF HistoryInv, CallInv
    <3>2. append.record \in HistoryLine
      BY <1>1, <3>1, CallMoves DEF HistoryInv
    <3>. QED
      BY <2>1, <3>1, <3>2, ReplaysOneMore
  <2>. QED
    BY <2>1, <2>2 DEF HistoryReplays
<1>2. HistoryInv => HistoryReplays
  BY <1>1
<1>. QED
  BY <1>2, HistoryKept, PTL

(* What was acknowledged is in the history, the store tells what the file  *)
(* says, and a job left active by a former process is told as failed.      *)
THEOREM HistoryIsAlwaysTold ==
  ASSUME MaxLookFailures = 0 PROVE HistorySpec => []HistoryIsTold
<1>1. ASSUME HistoryInv PROVE HistoryIsTold
  <2>1. recorded \subseteq ToSet(records)
    <3>1. records \in Histories /\ safe \in 0 .. Len(records)
      BY <1>1 DEF HistoryInv, HistoryTypeOK
    <3>2. DOMAIN records = 1 .. Len(records) /\ Len(records) \in Nat
      BY <3>1, HistoryShape
    <3>3. \A i \in 1 .. safe : i \in DOMAIN records
      BY <3>1, <3>2
    <3>4. \A x \in recorded : \E i \in 1 .. safe : records[i] = x
      BY <1>1 DEF HistoryInv, RecordsInv
    <3>. QED
      BY <3>3, <3>4 DEF ToSet
  <2>. QED
    BY <1>1, <2>1 DEF HistoryInv, MemoryInv, HistoryIsTold
<1>2. HistoryInv => HistoryIsTold
  BY <1>1
<1>. QED
  BY <1>2, HistoryKept, PTL
=============================================================================
