--------------------------- MODULE ApplicationProofs ---------------------------
(***************************************************************************)
(* Proofs about three of the components that MCApplication explores, and   *)
(* about the pools as parts of the running application: the work pool, the *)
(* pool of ExifTool children, and the life of the application.             *)
(***************************************************************************)
EXTENDS MCApplication, SumLemmas, SequenceTheorems

-----------------------------------------------------------------------------
(* AdaptiveWorkPool.                                                       *)
Posts == {"capacity", "sampling", "high", "low", "rejected", "refused", "admitted",
          "parked", "woken", "granted", "task", "reporting", "over"}

WorkTypeOK ==
  /\ gated \in BOOLEAN
  /\ nextIndex \in 1 .. ItemCount + 1
  /\ post \in [Laborers -> Posts] /\ index \in [Laborers -> 0 .. ItemCount]
  /\ finished \subseteq Items
  /\ probe \in {"none", "waiting", "settled"} /\ timers \in Nat
  /\ weight \in Nat
  /\ failed \in BOOLEAN /\ stopped \in BOOLEAN
  /\ settledAs \in {"none", "resolved", "rejected"}

(* What the weight counts, and that only one probe waits.                  *)
CountInv ==
  /\ weight = MapThenSumSet(LAMBDA w : WeightOf(index[w]), Weighed)
  /\ weight <= MaxWeight
  /\ timers = IF probe = "waiting" THEN 1 ELSE 0

(* While nothing has stopped the call every value that was taken is        *)
(* reported or with a worker, and who takes no more has found none left.   *)
TakenInv ==
  /\ \A w \in Laborers : post[w] # "over" => index[w] \in Items
  /\ \A w \in Laborers : post[w] = "granted" => gated
  /\ failed => stopped
  /\ ~stopped =>
       /\ \A i \in 1 .. nextIndex - 1 :
            i \in finished \/ \E w \in Laborers : post[w] # "over" /\ index[w] = i
       /\ \A w \in Laborers : post[w] = "over" => nextIndex = ItemCount + 1
  /\ settledAs # "none" => \A w \in Laborers : post[w] = "over"
  /\ settledAs = "resolved" => finished = Items

WorkInv == WorkTypeOK /\ CountInv /\ TakenInv

-----------------------------------------------------------------------------
Load(ix, R) == MapThenSumSet(LAMBDA w : WeightOf(ix[w]), R)
Share(ix, R) == [w \in R |-> WeightOf(ix[w])]

LEMMA WeightIsNumber == \A i \in Items : WeightOf(i) \in Nat
  BY WeightsAssumption DEF WeightOf

LEMMA LoadIsTotal ==
  ASSUME NEW ix, NEW R
  PROVE  Load(ix, R) = Total(Share(ix, R), R)
  BY DEF Load, Share, Total, Walk, Turn, First, Rest, MapThenSumSet, MapThenFoldSet

LEMMA SmallerOfTwo ==
  LET m == Min({LaborerCount, ItemCount}) IN
  m \in Nat \ {0} /\ m <= LaborerCount /\ m <= ItemCount
<1>. DEFINE P(x) == x \in {LaborerCount, ItemCount} /\ \A y \in {LaborerCount, ItemCount} : x <= y
<1>1. \E x : P(x)
  BY WeightsAssumption
<1>2. P(Min({LaborerCount, ItemCount}))
  BY <1>1 DEF Min
<1>. QED
  BY <1>2, WeightsAssumption

LEMMA LaborersFinite ==
  /\ IsFiniteSet(Laborers) /\ Laborers # {} /\ Laborers \subseteq Items
  /\ Cardinality(Laborers) \in 1 .. ItemCount
  /\ Laborers = 1 .. Cardinality(Laborers)
<1>. DEFINE m == Min({LaborerCount, ItemCount})
<1>1. m \in Nat \ {0} /\ m <= ItemCount
  BY SmallerOfTwo
<1>2. Laborers = 1 .. m
  BY DEF Laborers
<1>. HIDE DEF m
<1>3. IsFiniteSet(1 .. m) /\ Cardinality(1 .. m) = m
  BY <1>1, FS_Interval
<1>. QED
  BY <1>1, <1>2, <1>3, WeightsAssumption DEF Items

(* The load of some workers depends on their own values only, and is a     *)
(* number that one worker less makes smaller by its own weight.            *)
LEMMA LoadKept ==
  ASSUME NEW R, NEW ix, NEW jx, \A w \in R : ix[w] = jx[w]
  PROVE  Load(ix, R) = Load(jx, R)
<1>1. Share(ix, R) = Share(jx, R)
  BY DEF Share
<1>. QED
  BY <1>1, LoadIsTotal

LEMMA LoadIsNumber ==
  ASSUME NEW R \in SUBSET Laborers, NEW ix, \A w \in R : ix[w] \in Items
  PROVE  Load(ix, R) \in Nat /\ (R = {} => Load(ix, R) = 0)
<1>1. Share(ix, R) \in [R -> Nat] /\ IsFiniteSet(R)
  BY WeightIsNumber, LaborersFinite, FS_Subset DEF Share
<1>. QED
  BY <1>1, LoadIsTotal, TotalIsNumber

LEMMA LoadOfOneMore ==
  ASSUME NEW R \in SUBSET Laborers, NEW ix, \A w \in R : ix[w] \in Items, NEW w \in R
  PROVE  Load(ix, R) = WeightOf(ix[w]) + Load(ix, R \ {w})
<1>. DEFINE H == Share(ix, R) F == Share(ix, R \ {w})
<1>1. H \in [R -> Nat] /\ IsFiniteSet(R) /\ F \in [R \ {w} -> Nat]
  BY WeightIsNumber, LaborersFinite, FS_Subset DEF Share
<1>2. H[w] = WeightOf(ix[w]) /\ \A v \in R \ {w} : F[v] = H[v]
  BY DEF Share
<1>3. Load(ix, R) = Total(H, R) /\ Load(ix, R \ {w}) = Total(F, R \ {w})
  BY LoadIsTotal
<1>. HIDE DEF H, F
<1>. QED
  BY <1>1, <1>2, <1>3, TotalOfOneMore

LEMMA CountIs == CountInv <=>
  /\ weight = Load(index, Weighed) /\ weight <= MaxWeight
  /\ timers = IF probe = "waiting" THEN 1 ELSE 0
  BY DEF CountInv, Load

LEMMA CountWillBe ==
  ASSUME gated' = gated
  PROVE  CountInv' <=>
           /\ weight' = Load(index', Weighed') /\ weight' <= MaxWeight
           /\ timers' = IF probe' = "waiting" THEN 1 ELSE 0
  BY DEF CountInv, Load, WeightOf, MapThenSumSet, MapThenFoldSet

LEMMA CountKept ==
  ASSUME CountInv, gated' = gated, Weighed' = Weighed, \A w \in Weighed : index'[w] = index[w],
         UNCHANGED weight, timers' = IF probe' = "waiting" THEN 1 ELSE 0
  PROVE  CountInv'
<1>1. Load(index', Weighed) = Load(index, Weighed)
  BY LoadKept
<1>. QED
  BY <1>1, CountIs, CountWillBe

-----------------------------------------------------------------------------
LEMMA WorkStarts == WorkInit => WorkInv
<1>. SUFFICES ASSUME WorkInit PROVE WorkInv
  OBVIOUS
<1>1. WorkTypeOK
  <2>1. nextIndex \in 1 .. ItemCount + 1
    BY LaborersFinite, WeightsAssumption DEF WorkInit
  <2>2. index \in [Laborers -> 0 .. ItemCount]
    BY LaborersFinite DEF WorkInit, Items
  <2>. QED
    BY <2>1, <2>2 DEF WorkInit, WorkTypeOK, Posts
<1>2. Weighed = {}
  BY DEF WorkInit, Weighed
<1>3. CountInv
  BY <1>2, CountIs, LoadIsNumber, WeightsAssumption DEF WorkInit
<1>4. TakenInv
  BY LaborersFinite DEF WorkInit, TakenInv, Items
<1>. QED
  BY <1>1, <1>3, <1>4 DEF WorkInv

(* A worker whose value fails, and an abort: nobody who runs is stopped.   *)
LEMMA ThrowKeeps ==
  ASSUME WorkInv, NEW w \in Laborers, Throw(w), post[w] \notin {"granted", "task", "over"}
  PROVE  /\ post' \in [Laborers -> Posts] /\ Weighed' = Weighed
         /\ stopped' = TRUE /\ failed' = TRUE
         /\ \A v \in Laborers : post[v] = "over" => post'[v] = "over"
         /\ \A v \in Laborers : post'[v] # "over" => post[v] # "over"
         /\ \A v \in Laborers : post'[v] = "granted" => post[v] = "granted"
  BY DEF WorkInv, WorkTypeOK, Throw, Weighed, Parked, Posts

LEMMA AbortStep ==
  ASSUME WorkInv, ExternalAbort
  PROVE  WorkInv'
<1>. USE DEF WorkInv
<1>1. WorkTypeOK' /\ Weighed' = Weighed
  BY DEF ExternalAbort, WorkTypeOK, Weighed, Parked, Posts
<1>2. CountInv'
  BY <1>1, CountKept DEF ExternalAbort, CountInv
<1>3. TakenInv'
  BY <1>1 DEF ExternalAbort, TakenInv, WorkTypeOK, Parked
<1>. QED
  BY <1>1, <1>2, <1>3

LEMMA SampleStep ==
  ASSUME WorkInv, NEW w \in Laborers, Sample(w)
  PROVE  WorkInv'
<1>. USE DEF WorkInv
<1>1. CASE stopped
  <2>1. WorkTypeOK' /\ Weighed' = Weighed
    BY <1>1, ThrowKeeps DEF Sample, WorkTypeOK
  <2>2. CountInv'
    BY <1>1, <2>1, CountKept DEF Sample, CountInv
  <2>3. TakenInv'
    BY <1>1, ThrowKeeps DEF Sample, TakenInv
  <2>. QED
    BY <2>1, <2>2, <2>3
<1>2. CASE ~stopped
  <2>0. \/ probe = "none" /\ probe' = "waiting" /\ timers' = timers + 1
        \/ probe # "none" /\ UNCHANGED <<probe, timers>>
    <3>1. CASE probe = "none"
      BY <1>2, <3>1 DEF Sample
    <3>2. CASE probe = "waiting"
      BY <1>2, <3>2 DEF Sample
    <3>3. CASE probe = "settled"
      BY <1>2, <3>3 DEF Sample
    <3>. QED
      BY <3>1, <3>2, <3>3 DEF WorkTypeOK
  <2>1. PICK p \in {"sampling", "high", "low", "rejected"} : Go(w, p)
    BY <1>2 DEF Sample, WorkTypeOK
  <2>2. WorkTypeOK' /\ Weighed' = Weighed
    BY <1>2, <2>1, <2>0 DEF Sample, WorkTypeOK, Weighed, Go, Posts
  <2>3. timers' = IF probe' = "waiting" THEN 1 ELSE 0
    BY <2>0, CountIs
  <2>4. CountInv'
    BY <1>2, <2>2, <2>3, CountKept DEF Sample
  <2>5. TakenInv'
    BY <1>2, <2>1 DEF Sample, TakenInv, Go, WorkTypeOK
  <2>. QED
    BY <2>2, <2>4, <2>5
<1>. QED
  BY <1>1, <1>2

LEMMA ProbeStep ==
  ASSUME WorkInv, ProbeSettles
  PROVE  WorkInv'
<1>. USE DEF WorkInv
<1>1. timers = 1
  BY CountIs DEF ProbeSettles
<1>2. WorkTypeOK' /\ Weighed' = Weighed
  BY <1>1 DEF ProbeSettles, WorkTypeOK, Weighed, Posts
<1>3. CountInv'
  BY <1>1, <1>2, CountKept DEF ProbeSettles
<1>4. TakenInv'
  BY DEF ProbeSettles, TakenInv, WorkTypeOK
<1>. QED
  BY <1>2, <1>3, <1>4

LEMMA SampledStep ==
  ASSUME WorkInv, NEW w \in Laborers, Sampled(w) \/ Rejected(w)
  PROVE  WorkInv'
<1>. USE DEF WorkInv
<1>1. timers' = IF probe' = "waiting" THEN 1 ELSE 0
  BY CountIs DEF Sampled, Rejected, Forget
<1>2. CASE Sampled(w)
  <2>1. WorkTypeOK' /\ Weighed' = Weighed
    BY <1>2 DEF Sampled, Go, Forget, WorkTypeOK, Weighed, Posts
  <2>2. CountInv'
    BY <1>1, <1>2, <2>1, CountKept DEF Sampled
  <2>3. TakenInv'
    BY <1>2 DEF Sampled, Go, TakenInv, WorkTypeOK
  <2>. QED
    BY <2>1, <2>2, <2>3
<1>3. CASE Rejected(w)
  <2>1. WorkTypeOK' /\ Weighed' = Weighed
    BY <1>3, ThrowKeeps DEF Rejected, Forget, WorkTypeOK
  <2>2. CountInv'
    BY <1>1, <1>3, <2>1, CountKept DEF Rejected
  <2>3. TakenInv'
    BY <1>3, ThrowKeeps DEF Rejected, TakenInv
  <2>. QED
    BY <2>1, <2>2, <2>3
<1>. QED
  BY <1>2, <1>3

(* A worker joins those that weigh, or leaves them, with its weight.       *)
LEMMA AcquireStep ==
  ASSUME WorkInv, NEW w \in Laborers, Acquire(w)
  PROVE  WorkInv'
<1>. USE DEF WorkInv
<1>0. UNCHANGED <<gated, nextIndex, index, finished, probe, timers, settledAs>>
      /\ post[w] \in {"admitted", "woken"}
  BY DEF Acquire
<1>1. CASE Throw(w) /\ UNCHANGED weight
  <2>1. WorkTypeOK' /\ Weighed' = Weighed
    BY <1>0, <1>1, ThrowKeeps DEF WorkTypeOK
  <2>2. CountInv'
    BY <1>0, <1>1, <2>1, CountKept DEF CountInv
  <2>3. TakenInv'
    BY <1>0, <1>1, ThrowKeeps DEF TakenInv
  <2>. QED
    BY <2>1, <2>2, <2>3
<1>2. CASE /\ ~stopped /\ HasRoomFor(w)
           /\ Go(w, Admit(w)) /\ weight' = weight + WeightOf(index[w])
           /\ UNCHANGED <<failed, stopped>>
  <2>1. index[w] \in Items /\ WeightOf(index[w]) \in Nat /\ \A v \in Weighed : index[v] \in Items
    BY <1>0, WeightIsNumber DEF TakenInv, Weighed
  <2>2. Weighed' = Weighed \cup {w} /\ w \notin Weighed /\ Weighed \subseteq Laborers
    BY <1>0, <1>2 DEF Go, Admit, Weighed, WorkTypeOK
  <2>3. Load(index, Weighed \cup {w}) = WeightOf(index[w]) + Load(index, Weighed)
    <3>1. (Weighed \cup {w}) \ {w} = Weighed /\ Weighed \cup {w} \in SUBSET Laborers
      BY <2>2
    <3>2. \A v \in Weighed \cup {w} : index[v] \in Items
      BY <2>1
    <3>. QED
      BY <3>1, <3>2, LoadOfOneMore
  <2>4. weight = Load(index, Weighed) /\ weight \in Nat
    BY CountIs DEF WorkTypeOK
  <2>5. weight' = Load(index', Weighed') /\ weight' <= MaxWeight /\ weight' \in Nat
    BY <1>0, <1>2, <2>1, <2>2, <2>3, <2>4 DEF HasRoomFor
  <2>6. CountInv'
    BY <1>0, <2>5, CountIs, CountWillBe
  <2>7. WorkTypeOK'
    BY <1>0, <1>2, <2>5 DEF Go, Admit, WorkTypeOK, Posts
  <2>8. TakenInv'
    BY <1>0, <1>2 DEF Go, Admit, TakenInv, WorkTypeOK
  <2>. QED
    BY <2>6, <2>7, <2>8
<1>3. CASE Go(w, "parked") /\ UNCHANGED <<weight, failed, stopped>>
  <2>1. WorkTypeOK' /\ Weighed' = Weighed
    BY <1>0, <1>3 DEF Go, WorkTypeOK, Weighed, Posts
  <2>2. CountInv'
    BY <1>0, <1>3, <2>1, CountKept DEF CountInv
  <2>3. TakenInv'
    BY <1>0, <1>3 DEF Go, TakenInv, WorkTypeOK
  <2>. QED
    BY <2>1, <2>2, <2>3
<1>. QED
  BY <1>1, <1>2, <1>3 DEF Acquire

LEMMA StartStep ==
  ASSUME WorkInv, NEW w \in Laborers, StartTask(w)
  PROVE  WorkInv'
<1>. USE DEF WorkInv
<1>1. WorkTypeOK' /\ Weighed' = Weighed
  BY DEF StartTask, Go, WorkTypeOK, Weighed, Posts
<1>2. CountInv'
  BY <1>1, CountKept DEF StartTask, CountInv
<1>3. TakenInv'
  BY DEF StartTask, Go, TakenInv, WorkTypeOK
<1>. QED
  BY <1>1, <1>2, <1>3

LEMMA TaskEndsStep ==
  ASSUME WorkInv, NEW w \in Laborers, TaskEnds(w)
  PROVE  WorkInv'
<1>. USE DEF WorkInv
<1>1. index[w] \in Items /\ WeightOf(index[w]) \in Nat /\ \A v \in Weighed : index[v] \in Items
  BY WeightIsNumber DEF TaskEnds, TakenInv, Weighed
<1>2. w \in Weighed /\ Weighed \in SUBSET Laborers /\ Weighed' = Weighed \ {w}
  BY DEF TaskEnds, Weighed, WorkTypeOK, Parked
<1>3. Load(index, Weighed) = WeightOf(index[w]) + Load(index, Weighed \ {w})
  BY <1>1, <1>2, LoadOfOneMore
<1>4. Load(index, Weighed \ {w}) \in Nat
  BY <1>1, <1>2, LoadIsNumber
<1>5. weight = Load(index, Weighed) /\ weight \in Nat /\ weight <= MaxWeight
  BY CountIs DEF WorkTypeOK
<1>6. weight' = Load(index, Weighed') /\ weight' <= MaxWeight /\ weight' \in Nat
  BY <1>1, <1>2, <1>3, <1>4, <1>5, WeightsAssumption DEF TaskEnds
<1>7. CountInv'
  BY <1>6, CountIs, CountWillBe DEF TaskEnds
<1>8. WorkTypeOK'
  BY <1>6 DEF TaskEnds, WorkTypeOK, Posts
<1>9. TakenInv'
  BY DEF TaskEnds, TakenInv, WorkTypeOK, Parked
<1>. QED
  BY <1>7, <1>8, <1>9

LEMMA ReportStep ==
  ASSUME WorkInv, NEW w \in Laborers, ReportItem(w)
  PROVE  WorkInv'
<1>. USE DEF WorkInv
<1>1. CASE Throw(w) /\ UNCHANGED <<nextIndex, index, finished>>
  <2>1. WorkTypeOK' /\ Weighed' = Weighed
    BY <1>1, ThrowKeeps DEF ReportItem, WorkTypeOK
  <2>2. CountInv'
    BY <1>1, <2>1, CountKept DEF ReportItem, CountInv
  <2>3. TakenInv'
    BY <1>1, ThrowKeeps DEF ReportItem, TakenInv
  <2>. QED
    BY <2>1, <2>2, <2>3
<1>2. CASE ~(Throw(w) /\ UNCHANGED <<nextIndex, index, finished>>)
  <2>. DEFINE more == ~stopped /\ nextIndex <= ItemCount
  <2>1. /\ finished' = finished \cup {index[w]} /\ index[w] \in Items
        /\ index' = [index EXCEPT ![w] = IF more THEN nextIndex ELSE 0]
        /\ nextIndex' = IF more THEN nextIndex + 1 ELSE nextIndex
        /\ post' = [post EXCEPT ![w] = IF more THEN "capacity" ELSE "over"]
        /\ UNCHANGED <<gated, failed, stopped, probe, timers, weight, settledAs>>
        /\ post[w] = "reporting"
    BY <1>2 DEF ReportItem, Go, TakenInv
  <2>2. WorkTypeOK' /\ Weighed' = Weighed
    <3>1. nextIndex' \in 1 .. ItemCount + 1
      BY <2>1, WeightsAssumption DEF WorkTypeOK
    <3>2. (IF more THEN nextIndex ELSE 0) \in 0 .. ItemCount
      BY WeightsAssumption DEF WorkTypeOK
    <3>3. index' \in [Laborers -> 0 .. ItemCount]
      BY <2>1, <3>2 DEF WorkTypeOK
    <3>4. post' \in [Laborers -> Posts] /\ Weighed' = Weighed
      BY <2>1 DEF WorkTypeOK, Weighed, Posts
    <3>. QED
      BY <2>1, <3>1, <3>3, <3>4 DEF WorkTypeOK
  <2>3. \A v \in Weighed : index'[v] = index[v]
    BY <2>1 DEF WorkTypeOK, Weighed
  <2>4. CountInv'
    BY <2>1, <2>2, <2>3, CountKept DEF CountInv
  <2>5. TakenInv'
    <3>1. ASSUME ~stopped, NEW i \in 1 .. nextIndex' - 1
          PROVE  i \in finished' \/ \E v \in Laborers : post'[v] # "over" /\ index'[v] = i
      <4>1. CASE i = nextIndex
        BY <2>1, <3>1, <4>1 DEF WorkTypeOK
      <4>2. CASE i # nextIndex
        <5>1. i \in 1 .. nextIndex - 1
          BY <2>1, <3>1, <4>2 DEF WorkTypeOK
        <5>. QED
          BY <2>1, <3>1, <5>1 DEF TakenInv, WorkTypeOK
      <4>. QED
        BY <4>1, <4>2
    <3>2. \A v \in Laborers : post'[v] # "over" => index'[v] \in Items
      BY <2>1, WeightsAssumption DEF TakenInv, WorkTypeOK, Items
    <3>3. ~stopped => \A v \in Laborers : post'[v] = "over" => nextIndex' = ItemCount + 1
      BY <2>1, WeightsAssumption DEF TakenInv, WorkTypeOK
    <3>. QED
      BY <2>1, <3>1, <3>2, <3>3 DEF TakenInv, WorkTypeOK
  <2>. QED
    BY <2>2, <2>4, <2>5
<1>. QED
  BY <1>1, <1>2

LEMMA SettleStep ==
  ASSUME WorkInv, SettleMap
  PROVE  WorkInv'
<1>. USE DEF WorkInv
<1>1. WorkTypeOK' /\ Weighed' = Weighed
  BY DEF SettleMap, WorkTypeOK, Weighed
<1>2. CountInv'
  BY <1>1, CountKept DEF SettleMap, CountInv
<1>3. settledAs' = "resolved" => finished = Items
  <2>1. SUFFICES ASSUME ~stopped PROVE Items \subseteq finished
    BY DEF SettleMap, WorkTypeOK
  <2>2. nextIndex = ItemCount + 1
    BY <2>1, LaborersFinite DEF SettleMap, TakenInv
  <2>. QED
    BY <2>1, <2>2, WeightsAssumption DEF SettleMap, TakenInv, Items
<1>4. TakenInv'
  BY <1>3 DEF SettleMap, TakenInv
<1>. QED
  BY <1>1, <1>2, <1>4

LEMMA WorkSteps ==
  ASSUME WorkInv, [WorkNext]_workVars
  PROVE  WorkInv'
<1>1. CASE UNCHANGED workVars
  <2>1. WorkTypeOK' /\ TakenInv' /\ Weighed' = Weighed
    BY <1>1 DEF workVars, WorkInv, WorkTypeOK, TakenInv, Weighed
  <2>2. CountInv'
    BY <1>1, <2>1, CountKept DEF workVars, WorkInv, CountInv
  <2>. QED
    BY <2>1, <2>2 DEF WorkInv
<1>. QED
  BY <1>1, AbortStep, SampleStep, ProbeStep, SampledStep, AcquireStep, StartStep, TaskEndsStep, ReportStep, SettleStep
     DEF WorkNext, Work

LEMMA WorkIsBoundedHolds == WorkInv => WorkIsBounded
  BY DEF WorkInv, WorkTypeOK, CountInv, TakenInv, WorkIsBounded

LEMMA NothingStartsHolds ==
  ASSUME WorkInv, [WorkNext]_workVars, stopped, NEW w \in Laborers
  PROVE  /\ post'[w] = "granted" => post[w] = "granted"
         /\ post'[w] = "task"    => post[w] = "task" \/ (gated /\ post[w] = "granted")
<1>1. CASE \E v \in Laborers : StartTask(v)
  BY <1>1 DEF WorkInv, WorkTypeOK, TakenInv, StartTask, Go
<1>2. CASE \E v \in Laborers : Sample(v) \/ Sampled(v) \/ Rejected(v) \/ Acquire(v)
  BY <1>2 DEF WorkInv, WorkTypeOK, Sample, Sampled, Rejected, Acquire, Throw, Go, Parked
<1>3. CASE \E v \in Laborers : TaskEnds(v) \/ ReportItem(v)
  BY <1>3 DEF WorkInv, WorkTypeOK, TaskEnds, ReportItem, Throw, Go, Parked
<1>4. CASE ExternalAbort \/ ProbeSettles \/ SettleMap \/ UNCHANGED workVars
  BY <1>4 DEF WorkInv, WorkTypeOK, ExternalAbort, ProbeSettles, SettleMap, workVars, Parked
<1>. QED
  BY <1>1, <1>2, <1>3, <1>4 DEF WorkNext, Work

Phases == {"new", "queued", "opening", "sent", "stopping"} \cup Ended
Held   == {"opening", "sent", "stopping"}
OutLine == [of : Reads, file : Reads \cup {NoRead}]
ErrLine == [of : Reads, ok : BOOLEAN]

PipesOK ==
  /\ commands \in [Kids -> Seq([of : Reads, fd : Fds])]
  /\ outs \in [Kids -> Seq(OutLine)] /\ errs \in [Kids -> Seq(ErrLine)]
  /\ answer \in [Reads -> Seq(Reads \cup {NoRead})]

PoolTypeOK ==
  /\ phase \in [Reads -> Phases] /\ serving \in [Reads -> Kids \cup {NoKid}]
  /\ withdrawn \subseteq Reads /\ line \in Seq(Reads)
  /\ heard \in [Reads -> [out : Seq(OutLine), err : Seq(ErrLine)]]
  /\ pool \subseteq Kids /\ worn \subseteq Kids
  /\ kid \in [Kids -> {"unborn", "live", "dying", "exited", "closed"}]
  /\ stopping \in [Kids -> {"none", "waiting", "over"}]
  /\ fds \in [Fds -> Reads \cup {NoRead}] /\ number \in [Reads -> Fds \cup {0}]
  /\ PipesOK
  /\ draining \in BOOLEAN /\ shut \in BOOLEAN

(* The queue holds queued reads, each once.                                *)
Queued(ph, ln) ==
  /\ \A i \in DOMAIN ln : ph[ln[i]] = "queued"
  /\ \A i, j \in DOMAIN ln : ln[i] = ln[j] => i = j
QueueInv == Queued(phase, line)

(* Who holds a worker, holds it alone; a worker that is given up for a     *)
(* read that failed has left the pool, and was born.                       *)
HolderInv(r) ==
  /\ phase[r] \in Held => /\ serving[r] \in Kids /\ kid[serving[r]] # "unborn"
                          /\ \A q \in Reads \ {r} : phase[q] \in Held => serving[q] # serving[r]
  /\ phase[r] = "stopping" => serving[r] \notin pool
  /\ phase[r] \notin {"sent", "stopping"} => heard[r] = Nothing
  /\ phase[r] = "answered" => answer[r] = <<r>>

(* A worker nobody holds, one whose read still opens its file and a child  *)
(* that is not there yet have nothing in their pipes.                      *)
Silent(k) == commands[k] = <<>> /\ outs[k] = <<>> /\ errs[k] = <<>>
WorkerInv(k) ==
  /\ k \in pool => kid[k] # "unborn"
  /\ kid[k] = "unborn" \/ (k \in pool /\ ~Busy(k))
       \/ (\E r \in Reads : serving[r] = k /\ phase[r] = "opening") => Silent(k)

(* The exchange of a read that was sent: the command waits, or the child   *)
(* has taken it and nothing but its own answer is in the pipes or heard.   *)
OwnOut(r) == [of |-> r, file |-> r]
Saying(r) == {<<[of |-> r, ok |-> ok]>> : ok \in BOOLEAN}
ExchangeInv(r) ==
  phase[r] = "sent" =>
    LET k == serving[r] h == heard[r] IN
    /\ number[r] \in Fds /\ fds[number[r]] = r
    /\ \/ commands[k] = <<[of |-> r, fd |-> number[r]]>> /\ outs[k] = <<>> /\ errs[k] = <<>>
          /\ h = Nothing
       \/ /\ commands[k] = <<>>
          /\ \/ outs[k] = <<>> /\ h.out \in {<<>>, <<OwnOut(r)>>}
             \/ outs[k] = <<OwnOut(r)>> /\ h.out = <<>>
          /\ \/ errs[k] = <<>> /\ h.err \in {<<>>} \cup Saying(r)
             \/ errs[k] \in Saying(r) /\ h.err = <<>>

FileInv == \A n \in Fds : fds[n] # NoRead => phase[fds[n]] \in {"sent", "stopping"}

PoolInv ==
  /\ PoolTypeOK /\ QueueInv /\ FileInv
  /\ \A r \in Reads : HolderInv(r) /\ ExchangeInv(r)
  /\ \A k \in Kids : WorkerInv(k)

-----------------------------------------------------------------------------
LEMMA ShortSeqs ==
  ASSUME NEW x
  PROVE  /\ Head(<<x>>) = x /\ Tail(<<x>>) = <<>> /\ Append(<<>>, x) = <<x>>
         /\ Len(<<x>>) = 1 /\ <<x>>[1] = x /\ <<x>> # <<>>
         /\ \A S : x \in S => <<x>> \in Seq(S)
  OBVIOUS

(* What is done to the queue keeps it a queue of queued reads.             *)
LEMMA QueueKept ==
  ASSUME NEW ln \in Seq(Reads), NEW ph, NEW qh, Queued(ph, ln),
         \A r \in Reads : ph[r] = "queued" => qh[r] = "queued"
  PROVE  Queued(qh, ln)
  BY LenProperties DEF Queued

LEMMA QueueGrows ==
  ASSUME NEW ln \in Seq(Reads), NEW ph \in [Reads -> Phases], NEW r \in Reads, Queued(ph, ln), ph[r] = "new"
  PROVE  /\ Append(ln, r) \in Seq(Reads)
         /\ Queued([ph EXCEPT ![r] = "queued"], Append(ln, r))
<1>1. /\ Append(ln, r) \in Seq(Reads) /\ DOMAIN ln = 1 .. Len(ln) /\ Len(ln) \in Nat
      /\ DOMAIN Append(ln, r) = 1 .. Len(ln) + 1 /\ Append(ln, r)[Len(ln) + 1] = r
      /\ \A i \in 1 .. Len(ln) : Append(ln, r)[i] = ln[i] /\ ln[i] \in Reads
  BY AppendProperties, LenProperties
<1>2. \A i \in DOMAIN ln : ln[i] # r
  BY DEF Queued
<1>. DEFINE s == Append(ln, r)
<1>. HIDE DEF s
<1>3. Len(ln) \in Nat /\ DOMAIN ln = 1 .. Len(ln) /\ s[Len(ln) + 1] = r
      /\ (\A i \in 1 .. Len(ln) : s[i] = ln[i] /\ ln[i] \in Reads) /\ DOMAIN s = 1 .. Len(ln) + 1
  BY <1>1 DEF s
<1>4. ASSUME NEW i \in DOMAIN s
      PROVE  \/ i # Len(ln) + 1 /\ i \in DOMAIN ln /\ s[i] = ln[i] /\ ln[i] \in Reads
             \/ i = Len(ln) + 1 /\ s[i] = r
  <2>1. CASE i = Len(ln) + 1
    BY <1>3, <2>1
  <2>2. CASE i # Len(ln) + 1
    <3>1. i \in 1 .. Len(ln)
      BY <1>3, <2>2
    <3>. QED
      BY <1>3, <2>2, <3>1
  <2>. QED
    BY <2>1, <2>2
<1>5. Queued([ph EXCEPT ![r] = "queued"], s)
  <2>1. \A i \in DOMAIN s : [ph EXCEPT ![r] = "queued"][s[i]] = "queued"
    BY <1>4 DEF Queued
  <2>2. \A i, j \in DOMAIN s : s[i] = s[j] => i = j
    BY <1>2, <1>4 DEF Queued
  <2>. QED
    BY <2>1, <2>2 DEF Queued
<1>. QED
  BY <1>1, <1>5 DEF s

LEMMA QueueShrinks ==
  ASSUME NEW ln \in Seq(Reads), NEW ph \in [Reads -> Phases], NEW p, Queued(ph, ln), ln # <<>>
  PROVE  /\ Head(ln) \in Reads /\ ph[Head(ln)] = "queued" /\ Tail(ln) \in Seq(Reads)
         /\ Queued([ph EXCEPT ![Head(ln)] = p], Tail(ln))
<1>1. /\ Tail(ln) \in Seq(Reads) /\ DOMAIN ln = 1 .. Len(ln) /\ Len(ln) \in Nat \ {0}
      /\ DOMAIN Tail(ln) = 1 .. Len(ln) - 1 /\ Head(ln) = ln[1] /\ ln[1] \in Reads
      /\ \A i \in 1 .. Len(ln) - 1 : Tail(ln)[i] = ln[i + 1]
  BY HeadTailProperties, LenProperties, EmptySeq
<1>. DEFINE s == Tail(ln)
<1>2. \A i \in 1 .. Len(ln) - 1 : i + 1 \in DOMAIN ln /\ s[i] = ln[i + 1] /\ i + 1 # 1
  BY <1>1
<1>3. \A i \in DOMAIN s : s[i] \in Reads /\ s[i] # ln[1] /\ ph[s[i]] = "queued"
  BY <1>1, <1>2, LenProperties DEF Queued
<1>4. \A i, j \in DOMAIN s : s[i] = s[j] => i = j
  BY <1>1, <1>2 DEF Queued
<1>. HIDE DEF s
<1>5. Queued([ph EXCEPT ![ln[1]] = p], s)
  BY <1>1, <1>3, <1>4 DEF Queued
<1>6. ph[ln[1]] = "queued"
  BY <1>1 DEF Queued
<1>. QED
  BY <1>1, <1>5, <1>6 DEF s

LEMMA QueueWithout ==
  ASSUME NEW ln \in Seq(Reads), NEW ph \in [Reads -> Phases], NEW p, Queued(ph, ln), NEW i \in DOMAIN ln
  PROVE  LET s == SubSeq(ln, 1, i - 1) \o SubSeq(ln, i + 1, Len(ln)) IN
         s \in Seq(Reads) /\ Queued([ph EXCEPT ![ln[i]] = p], s)
<1>. DEFINE a == SubSeq(ln, 1, i - 1)
            b == SubSeq(ln, i + 1, Len(ln))
            s == a \o b
<1>1. DOMAIN ln = 1 .. Len(ln) /\ Len(ln) \in Nat /\ i \in 1 .. Len(ln) /\ \A j \in 1 .. Len(ln) : ln[j] \in Reads
  BY LenProperties
<1>2. a \in Seq(Reads) /\ Len(a) = i - 1 /\ \A j \in 1 .. i - 1 : a[j] = ln[j]
  <2>1. \A j \in 1 .. i - 1 : ln[j] \in Reads
    BY <1>1
  <2>. QED
    BY <1>1, <2>1, SubSeqProperties
<1>3. b \in Seq(Reads) /\ Len(b) = Len(ln) - i /\ \A j \in 1 .. Len(ln) - i : b[j] = ln[i + j]
  <2>1. \A j \in i + 1 .. Len(ln) : ln[j] \in Reads
    BY <1>1
  <2>. QED
    BY <1>1, <2>1, SubSeqProperties
<1>. HIDE DEF a, b
<1>4. /\ s \in Seq(Reads) /\ DOMAIN s = 1 .. Len(ln) - 1
      /\ \A j \in 1 .. i - 1 : s[j] = ln[j]
      /\ \A j \in i .. Len(ln) - 1 : s[j] = ln[j + 1]
  <2>1. /\ s \in Seq(Reads) /\ Len(s) = (i - 1) + (Len(ln) - i)
        /\ \A j \in 1 .. (i - 1) + (Len(ln) - i) : s[j] = IF j <= i - 1 THEN a[j] ELSE b[j - (i - 1)]
    BY <1>2, <1>3, ConcatProperties
  <2>. HIDE DEF s
  <2>2. DOMAIN s = 1 .. Len(ln) - 1
    BY <1>1, <2>1, LenProperties
  <2>3. ASSUME NEW j \in 1 .. i - 1 PROVE s[j] = ln[j]
    BY <1>1, <1>2, <2>1
  <2>4. ASSUME NEW j \in i .. Len(ln) - 1 PROVE s[j] = ln[j + 1]
    <3>1. s[j] = b[j - (i - 1)] /\ j - (i - 1) \in 1 .. Len(ln) - i /\ i + (j - (i - 1)) = j + 1
      BY <1>1, <2>1
    <3>. QED
      BY <1>3, <3>1
  <2>. QED
    BY <2>1, <2>2, <2>3, <2>4
<1>. HIDE DEF s
<1>5. \A j \in DOMAIN s : s[j] = IF j < i THEN ln[j] ELSE ln[j + 1]
  BY <1>1, <1>4
<1>6. \A j \in DOMAIN s : s[j] \in Reads /\ s[j] # ln[i] /\ ph[s[j]] = "queued"
  BY <1>1, <1>4, <1>5 DEF Queued
<1>7. \A j, k \in DOMAIN s : s[j] = s[k] => j = k
  <2>1. SUFFICES ASSUME NEW j \in DOMAIN s, NEW k \in DOMAIN s, s[j] = s[k] PROVE j = k
    OBVIOUS
  <2>2. PICK m \in DOMAIN ln : s[j] = ln[m] /\ m = IF j < i THEN j ELSE j + 1
    BY <1>1, <1>4, <1>5
  <2>3. PICK n \in DOMAIN ln : s[k] = ln[n] /\ n = IF k < i THEN k ELSE k + 1
    BY <1>1, <1>4, <1>5
  <2>4. m = n
    BY <2>1, <2>2, <2>3 DEF Queued
  <2>. QED
    BY <1>1, <1>4, <2>2, <2>3, <2>4
<1>8. Queued([ph EXCEPT ![ln[i]] = p], s)
  BY <1>1, <1>6, <1>7 DEF Queued
<1>. QED
  BY <1>4, <1>8 DEF s, a, b

LEMMA PoolStarts == PoolInit => PoolInv
<1>. SUFFICES ASSUME PoolInit PROVE PoolInv
  OBVIOUS
<1>1. PoolTypeOK
  <2>1. \A S : <<>> \in Seq(S)
    BY EmptySeq
  <2>2. Nothing \in [out : Seq(OutLine), err : Seq(ErrLine)]
    BY <2>1 DEF Nothing
  <2>. QED
    BY <2>1, <2>2 DEF PoolInit, PoolTypeOK, PipesOK, Phases, Ended
<1>2. QueueInv
  BY DEF PoolInit, QueueInv, Queued
<1>. QED
  BY <1>1, <1>2 DEF PoolInit, PoolInv, FileInv, HolderInv, ExchangeInv, WorkerInv, Silent, Held, Busy

LEMMA StartReadStep ==
  ASSUME PoolInv, NEW r \in Reads, StartRead(r)
  PROVE  PoolInv'
<1>. USE DEF PoolInv
<1>1. /\ phase \in [Reads -> Phases] /\ line \in Seq(Reads) /\ phase[r] = "new"
      /\ \/ phase' = [phase EXCEPT ![r] = "rejected"] /\ line' = line /\ draining' = draining
         \/ phase' = [phase EXCEPT ![r] = "queued"] /\ line' = Append(line, r) /\ draining' = TRUE
      /\ UNCHANGED <<serving, withdrawn, heard, answer, workers, pipes, files, shut>>
  BY DEF StartRead, PoolTypeOK
<1>2. line' \in Seq(Reads) /\ QueueInv'
  <2>1. CASE phase' = [phase EXCEPT ![r] = "rejected"] /\ line' = line
    BY <1>1, <2>1, QueueKept DEF QueueInv
  <2>2. CASE phase' = [phase EXCEPT ![r] = "queued"] /\ line' = Append(line, r)
    BY <1>1, <2>2, QueueGrows DEF QueueInv
  <2>. QED
    BY <1>1, <2>1, <2>2
<1>3. PoolTypeOK'
  BY <1>1, <1>2 DEF PoolTypeOK, PipesOK, Phases, Ended, workers, pipes, files
<1>4. /\ phase'[r] \in {"queued", "rejected"}
      /\ \A q \in Reads \ {r} : phase'[q] = phase[q]
  BY <1>1
<1>5. \A q \in Reads : HolderInv(q)'
  BY <1>1, <1>4 DEF HolderInv, Held, workers
<1>6. \A q \in Reads : ExchangeInv(q)'
  BY <1>1, <1>4 DEF ExchangeInv, pipes, files
<1>7. \A k \in Kids : WorkerInv(k)'
  BY <1>1, <1>4 DEF WorkerInv, Silent, Busy, workers, pipes
<1>8. FileInv'
  BY <1>1, <1>4 DEF FileInv, PoolTypeOK, files
<1>. QED
  BY <1>2, <1>3, <1>5, <1>6, <1>7, <1>8

LEMMA DrainOntoStep ==
  ASSUME PoolInv, DrainOnto
  PROVE  PoolInv'
<1>. USE DEF PoolInv
<1>. DEFINE r == Head(line)
<1>1. PICK k \in Kids : /\ IdleWorker(k) /\ phase' = [phase EXCEPT ![r] = "opening"]
                        /\ serving' = [serving EXCEPT ![r] = k] /\ line' = Tail(line)
  BY DEF DrainOnto, Assign
<1>2. /\ r \in Reads /\ phase[r] = "queued" /\ line' \in Seq(Reads) /\ QueueInv'
      /\ phase \in [Reads -> Phases] /\ serving \in [Reads -> Kids \cup {NoKid}]
  BY <1>1, QueueShrinks DEF DrainOnto, QueueInv, PoolTypeOK
<1>3. UNCHANGED <<withdrawn, heard, answer, workers, pipes, files, draining, shut>>
  BY DEF DrainOnto
<1>. HIDE DEF r
<1>4. k \in pool /\ kid[k] # "unborn" /\ Silent(k)
      /\ \A q \in Reads : phase[q] \in Held => serving[q] # k
  BY <1>1 DEF IdleWorker, WorkerInv, Busy, Held
<1>5. PoolTypeOK'
  BY <1>1, <1>2, <1>3 DEF PoolTypeOK, PipesOK, Phases, workers, pipes, files
<1>6. \A q \in Reads \ {r} : phase'[q] = phase[q] /\ serving'[q] = serving[q]
  BY <1>1, <1>2
<1>7. phase'[r] = "opening" /\ serving'[r] = k
  BY <1>1, <1>2
<1>8. \A q \in Reads : HolderInv(q)'
  BY <1>2, <1>3, <1>4, <1>6, <1>7 DEF HolderInv, Held, workers
<1>9. \A q \in Reads : ExchangeInv(q)'
  BY <1>3, <1>6, <1>7 DEF ExchangeInv, pipes, files
<1>10. ASSUME NEW j \in Kids PROVE WorkerInv(j)'
  <2>1. (Silent(j)' <=> Silent(j)) /\ UNCHANGED <<kid, pool>>
    BY <1>3 DEF Silent, pipes, workers
  <2>2. CASE j = k
    BY <1>4, <2>1, <2>2 DEF WorkerInv
  <2>3. CASE j # k
    <3>1. Busy(j) => Busy(j)'
      BY <1>2, <1>6 DEF Busy
    <3>. QED
      BY <1>2, <1>6, <1>7, <2>1, <2>3, <3>1 DEF WorkerInv
  <2>. QED
    BY <2>2, <2>3
<1>11. FileInv'
  BY <1>2, <1>3, <1>6, <1>7 DEF FileInv, PoolTypeOK, files
<1>. QED
  BY <1>2, <1>5, <1>8, <1>9, <1>10, <1>11

LEMMA DrainSpawnStep ==
  ASSUME PoolInv, DrainSpawn
  PROVE  PoolInv'
<1>. USE DEF PoolInv
<1>. DEFINE r == Head(line)
<1>1. /\ UNCHANGED <<withdrawn, heard, answer, worn, stopping, pipes, files, draining, shut>>
      /\ line' = Tail(line) /\ line # <<>>
      /\ phase \in [Reads -> Phases] /\ serving \in [Reads -> Kids \cup {NoKid}]
      /\ kid \in [Kids -> {"unborn", "live", "dying", "exited", "closed"}]
  BY DEF DrainSpawn, PoolTypeOK, Assign
<1>2. CASE phase' = [phase EXCEPT ![r] = "rejected"] /\ UNCHANGED <<kid, pool, serving>>
  <2>1. r \in Reads /\ phase[r] = "queued" /\ line' \in Seq(Reads) /\ QueueInv'
    BY <1>1, <1>2, QueueShrinks DEF QueueInv, PoolTypeOK
  <2>. HIDE DEF r
  <2>2. PoolTypeOK'
    BY <1>1, <1>2, <2>1 DEF PoolTypeOK, PipesOK, Phases, Ended, pipes, files
  <2>3. phase'[r] = "rejected" /\ \A q \in Reads \ {r} : phase'[q] = phase[q]
    BY <1>1, <1>2, <2>1
  <2>4. \A q \in Reads : HolderInv(q)'
    BY <1>1, <1>2, <2>1, <2>3 DEF HolderInv, Held
  <2>5. \A q \in Reads : ExchangeInv(q)'
    BY <1>1, <1>2, <2>1, <2>3 DEF ExchangeInv, pipes, files
  <2>6. \A j \in Kids : WorkerInv(j)'
    BY <1>1, <1>2, <2>1, <2>3 DEF WorkerInv, Silent, Busy, pipes
  <2>7. FileInv'
    BY <1>1, <2>1, <2>3 DEF FileInv, PoolTypeOK, files
  <2>. QED
    BY <2>1, <2>2, <2>4, <2>5, <2>6, <2>7
<1>3. CASE \E k \in Kids : /\ kid[k] = "unborn" /\ kid' = [kid EXCEPT ![k] = "live"]
                           /\ pool' = pool \cup {k} /\ Assign(k)
  <2>1. PICK k \in Kids : /\ kid[k] = "unborn" /\ kid' = [kid EXCEPT ![k] = "live"]
                          /\ pool' = pool \cup {k}
                          /\ phase' = [phase EXCEPT ![r] = "opening"]
                          /\ serving' = [serving EXCEPT ![r] = k]
    BY <1>3 DEF Assign
  <2>2. r \in Reads /\ phase[r] = "queued" /\ line' \in Seq(Reads) /\ QueueInv'
    BY <1>1, <2>1, QueueShrinks DEF QueueInv, PoolTypeOK
  <2>. HIDE DEF r
  <2>3. Silent(k) /\ k \notin pool /\ \A q \in Reads : phase[q] \in Held => serving[q] # k
    BY <2>1 DEF WorkerInv, HolderInv
  <2>4. PoolTypeOK'
    BY <1>1, <2>1, <2>2 DEF PoolTypeOK, PipesOK, Phases, pipes, files
  <2>5. /\ phase'[r] = "opening" /\ serving'[r] = k /\ kid'[k] = "live"
        /\ \A q \in Reads \ {r} : phase'[q] = phase[q] /\ serving'[q] = serving[q]
        /\ \A j \in Kids \ {k} : kid'[j] = kid[j]
    BY <1>1, <2>1, <2>2
  <2>6. \A q \in Reads : HolderInv(q)'
    BY <1>1, <2>1, <2>2, <2>3, <2>5 DEF HolderInv, Held
  <2>7. \A q \in Reads : ExchangeInv(q)'
    BY <1>1, <2>5 DEF ExchangeInv, pipes, files
  <2>8. \A j \in Kids : WorkerInv(j)'
    BY <1>1, <2>1, <2>2, <2>3, <2>5 DEF WorkerInv, Silent, Busy, pipes
  <2>9. FileInv'
    BY <1>1, <2>2, <2>5 DEF FileInv, PoolTypeOK, files
  <2>. QED
    BY <2>2, <2>4, <2>6, <2>7, <2>8, <2>9
<1>. QED
  BY <1>2, <1>3 DEF DrainSpawn

LEMMA DrainEndsStep ==
  ASSUME PoolInv, DrainEnds
  PROVE  PoolInv'
<1>. USE DEF PoolInv
<1>1. UNCHANGED <<calling, workers, pipes, files>> /\ PoolTypeOK'
  BY DEF DrainEnds, PoolTypeOK, PipesOK, calling, workers, pipes, files
<1>. QED
  BY <1>1 DEF QueueInv, FileInv, HolderInv, ExchangeInv, WorkerInv, Silent, Busy, calling, workers, pipes, files

(* The end of an exchange: the read holds nothing any more.  Its worker is *)
(* silent, or out of the pool for good.                                    *)
LEMMA Settles ==
  ASSUME PoolInv, NEW r \in Reads, NEW how \in Ended, phase[r] \in Held, SettleRead(r, how),
         UNCHANGED <<line, workers, shut>>, PipesOK',
         NEW c, c = serving[r], c \in pool => Silent(c)',
         \A k \in Kids \ {c} : commands'[k] = commands[k] /\ outs'[k] = outs[k] /\ errs'[k] = errs[k],
         \A q \in Reads \ {r} : answer'[q] = answer[q],
         how = "answered" => answer'[r] = <<r>>
  PROVE  PoolInv'
<1>. USE DEF PoolInv
<1>1. Nothing \in [out : Seq(OutLine), err : Seq(ErrLine)]
  BY EmptySeq DEF Nothing
<1>2. PoolTypeOK'
  BY <1>1 DEF PoolTypeOK, SettleRead, Phases, workers
<1>3. /\ phase'[r] = how /\ serving'[r] = NoKid /\ heard'[r] = Nothing
      /\ \A q \in Reads \ {r} : /\ phase'[q] = phase[q] /\ serving'[q] = serving[q]
                                /\ heard'[q] = heard[q] /\ number'[q] = number[q]
      /\ \A n \in Fds : fds'[n] = IF fds[n] = r THEN NoRead ELSE fds[n]
  BY DEF SettleRead, PoolTypeOK
<1>4. \A q \in Reads \ {r} : phase[q] \in Held => serving[q] # c /\ serving[q] \in Kids
  BY DEF HolderInv
<1>5. /\ phase'[r] \notin Held /\ phase'[r] # "sent" /\ phase'[r] # "stopping" /\ phase'[r] # "opening"
      /\ phase[r] # "queued"
  BY <1>3 DEF Ended, Held
<1>6. QueueInv'
  <2>1. \A q \in Reads : phase[q] = "queued" => phase'[q] = "queued"
    BY <1>3, <1>5
  <2>2. line \in Seq(Reads) /\ line' = line
    BY DEF PoolTypeOK
  <2>. QED
    BY <2>1, <2>2, QueueKept DEF QueueInv
<1>7. \A q \in Reads : HolderInv(q)'
  <2>1. HolderInv(r)'
    BY <1>3, <1>5 DEF HolderInv
  <2>2. ASSUME NEW q \in Reads \ {r} PROVE HolderInv(q)'
    <3>1. HolderInv(q) /\ pool' = pool /\ kid' = kid
      BY DEF workers
    <3>2. phase'[q] = phase[q] /\ serving'[q] = serving[q] /\ heard'[q] = heard[q] /\ answer'[q] = answer[q]
      BY <1>3
    <3>3. \A p \in Reads \ {q} : phase'[p] \in Held => phase[p] \in Held /\ serving'[p] = serving[p]
      BY <1>3, <1>5
    <3>. QED
      BY <3>1, <3>2, <3>3 DEF HolderInv
  <2>. QED
    BY <2>1, <2>2
<1>8. \A q \in Reads : ExchangeInv(q)'
  <2>1. ExchangeInv(r)'
    BY <1>5 DEF ExchangeInv
  <2>2. ASSUME NEW q \in Reads \ {r}, phase'[q] = "sent" PROVE ExchangeInv(q)'
    <3>1. phase[q] = "sent" /\ serving'[q] = serving[q] /\ heard'[q] = heard[q] /\ number'[q] = number[q]
      BY <1>3, <2>2
    <3>2. ExchangeInv(q) /\ serving[q] \in Kids \ {c}
      BY <1>4, <3>1 DEF Held
    <3>3. /\ commands'[serving[q]] = commands[serving[q]]
          /\ outs'[serving[q]] = outs[serving[q]] /\ errs'[serving[q]] = errs[serving[q]]
      BY <3>2
    <3>4. number[q] \in Fds /\ fds[number[q]] = q /\ fds'[number[q]] = q
      BY <1>3, <3>1, <3>2 DEF ExchangeInv
    <3>. QED
      BY <3>1, <3>2, <3>3, <3>4 DEF ExchangeInv
  <2>3. ASSUME NEW q \in Reads \ {r}, phase'[q] # "sent" PROVE ExchangeInv(q)'
    BY <2>3 DEF ExchangeInv
  <2>. QED
    BY <2>1, <2>2, <2>3
<1>9. \A k \in Kids : WorkerInv(k)'
  <2>0. UNCHANGED <<pool, kid, worn>>
    BY DEF workers
  <2>1. ASSUME NEW k \in Kids \ {c} PROVE WorkerInv(k)'
    <3>0. commands'[k] = commands[k] /\ outs'[k] = outs[k] /\ errs'[k] = errs[k]
      OBVIOUS
    <3>1. Silent(k)' <=> Silent(k)
      BY <3>0 DEF Silent
    <3>2. Busy(k)' <=> Busy(k)
      BY <1>3, <1>5 DEF Busy, Held
    <3>3. (\E q \in Reads : serving'[q] = k /\ phase'[q] = "opening") =>
          \E q \in Reads : serving[q] = k /\ phase[q] = "opening"
      BY <1>3, <1>5
    <3>4. WorkerInv(k)
      OBVIOUS
    <3>. QED
      BY <2>0, <3>1, <3>2, <3>3, <3>4 DEF WorkerInv
  <2>2. WorkerInv(c)'
    <3>0. c \in pool' => Silent(c)'
      BY <2>0
    <3>1. ~(\E q \in Reads : serving'[q] = c /\ phase'[q] = "opening")
      BY <1>3, <1>4, <1>5 DEF Held
    <3>2. c \in Kids /\ WorkerInv(c)
      BY DEF HolderInv
    <3>3. kid[c] # "unborn"
      BY DEF HolderInv
    <3>. QED
      BY <2>0, <3>0, <3>1, <3>2, <3>3 DEF WorkerInv
  <2>. QED
    BY <2>1, <2>2
<1>10. FileInv'
  BY <1>3, PoolAssumption DEF FileInv, PoolTypeOK
<1>. QED
  BY <1>2, <1>6, <1>7, <1>8, <1>9, <1>10

LEMMA OpenFailsStep ==
  ASSUME PoolInv, NEW r \in Reads, OpenFails(r)
  PROVE  PoolInv'
<1>. USE DEF PoolInv
<1>0. PICK c : c = serving[r]
  OBVIOUS
<1>1. /\ phase[r] = "opening" /\ SettleRead(r, "rejected")
      /\ UNCHANGED <<line, answer, workers, pipes, shut>>
  BY DEF OpenFails
<1>2. c \in Kids
  BY <1>0, <1>1 DEF HolderInv, Held
<1>3. Silent(c)
  BY <1>0, <1>1, <1>2 DEF WorkerInv
<1>4. PipesOK'
  BY <1>1 DEF PoolTypeOK, PipesOK, pipes
<1>5. Silent(c)'
  BY <1>1, <1>3 DEF Silent, pipes
<1>6. "rejected" \in Ended /\ phase[r] \in Held /\ UNCHANGED <<commands, outs, errs>>
  BY <1>1 DEF Ended, Held, pipes
<1>. QED
  BY <1>0, <1>1, <1>4, <1>5, <1>6, Settles

LEMMA StoppedStep ==
  ASSUME PoolInv, NEW r \in Reads, Stopped(r)
  PROVE  PoolInv'
<1>. USE DEF PoolInv
<1>. DEFINE c == serving[r]
<1>1. /\ phase[r] = "stopping" /\ SettleRead(r, "rejected")
      /\ UNCHANGED <<line, answer, workers, pipes, shut>>
  BY DEF Stopped
<1>2. c \notin pool
  BY <1>1 DEF HolderInv
<1>3. PipesOK'
  BY <1>1 DEF PoolTypeOK, PipesOK, pipes
<1>4. "rejected" \in Ended /\ phase[r] \in Held /\ UNCHANGED <<commands, outs, errs>>
  BY <1>1 DEF Ended, Held, pipes
<1>. QED
  BY <1>1, <1>2, <1>3, <1>4, Settles

(* Children that are stopped leave the pool; nothing else about the reads  *)
(* changes but that some give up.                                          *)
LEMMA GivesUp ==
  ASSUME PoolInv, NEW ks \in SUBSET Kids, StopAll(ks),
         UNCHANGED <<serving, heard, answer, outs, errs, fds, number>>,
         commands' = commands, withdrawn' \subseteq Reads, line' \in Seq(Reads), QueueInv',
         draining' \in BOOLEAN, shut' \in BOOLEAN,
         phase' \in [Reads -> Phases],
         \A q \in Reads : \/ phase'[q] = phase[q]
                          \/ phase[q] = "queued" /\ phase'[q] = "rejected"
                          \/ phase[q] = "sent" /\ phase'[q] = "stopping" /\ serving[q] \in ks
  PROVE  PoolInv'
<1>. USE DEF PoolInv
<1>1. PoolTypeOK'
  BY DEF PoolTypeOK, PipesOK, StopAll
<1>2. /\ pool' = pool \ ks
      /\ \A k \in Kids : kid'[k] = "unborn" <=> kid[k] = "unborn"
  BY DEF StopAll, PoolTypeOK, Alive
<1>3. FileInv'
  BY DEF FileInv, PoolTypeOK
<1>4. \A q \in Reads : HolderInv(q)'
  <2>1. ASSUME NEW q \in Reads PROVE HolderInv(q)'
    <3>1. \A p \in Reads : phase'[p] \in Held => phase[p] \in Held
      BY DEF Held
    <3>2. phase'[q] = "stopping" => serving[q] \notin pool'
      BY <1>2 DEF HolderInv
    <3>3. phase'[q] \notin {"sent", "stopping"} => heard[q] = Nothing
      BY DEF HolderInv
    <3>4. phase'[q] = "answered" => answer[q] = <<q>>
      BY DEF HolderInv
    <3>. QED
      BY <1>2, <3>1, <3>2, <3>3, <3>4 DEF HolderInv
  <2>. QED
    BY <2>1
<1>5. \A q \in Reads : ExchangeInv(q)'
  BY DEF ExchangeInv
<1>6. \A k \in Kids : WorkerInv(k)'
  <2>1. ASSUME NEW k \in Kids PROVE WorkerInv(k)'
    <3>1. Busy(k) => Busy(k)' \/ k \notin pool'
      BY <1>2 DEF Busy
    <3>2. \A q \in Reads : phase'[q] = "opening" => phase[q] = "opening"
      OBVIOUS
    <3>3. Silent(k)' <=> Silent(k)
      BY DEF Silent
    <3>. QED
      BY <1>2, <3>1, <3>2, <3>3 DEF WorkerInv
  <2>. QED
    BY <2>1
<1>. QED
  BY <1>1, <1>3, <1>4, <1>5, <1>6

LEMMA FailExchangeStep ==
  ASSUME PoolInv, NEW r \in Reads, FailExchange(r)
  PROVE  PoolInv'
<1>. USE DEF PoolInv
<1>1. /\ phase[r] = "sent" /\ phase' = [phase EXCEPT ![r] = "stopping"] /\ StopAll({serving[r]})
      /\ UNCHANGED <<serving, withdrawn, line, heard, answer, pipes, files, draining, shut>>
  BY DEF FailExchange, FailRead
<1>2. serving[r] \in Kids /\ phase \in [Reads -> Phases] /\ line \in Seq(Reads)
      /\ withdrawn \subseteq Reads /\ draining \in BOOLEAN /\ shut \in BOOLEAN
  BY <1>1 DEF HolderInv, Held, PoolTypeOK
<1>3. phase' \in [Reads -> Phases] /\ phase'[r] = "stopping" /\ \A q \in Reads \ {r} : phase'[q] = phase[q]
  BY <1>1, <1>2 DEF Phases
<1>4. QueueInv'
  <2>1. \A q \in Reads : phase[q] = "queued" => phase'[q] = "queued"
    BY <1>1, <1>3
  <2>. QED
    BY <1>1, <1>2, <2>1, QueueKept DEF QueueInv
<1>. QED
  BY <1>1, <1>2, <1>3, <1>4, GivesUp DEF pipes, files

LEMMA AbortReadStep ==
  ASSUME PoolInv, NEW r \in Reads, AbortRead(r)
  PROVE  PoolInv'
<1>. USE DEF PoolInv
<1>. DEFINE ks == IF phase[r] = "sent" THEN {serving[r]} ELSE {}
<1>1. /\ phase \in [Reads -> Phases] /\ line \in Seq(Reads)
      /\ withdrawn \subseteq Reads /\ draining \in BOOLEAN /\ shut \in BOOLEAN
  BY DEF PoolTypeOK
<1>2. /\ phase[r] \in {"queued", "opening", "sent"} /\ StopAll(ks)
      /\ UNCHANGED <<serving, heard, answer, pipes, files, draining, shut>>
      /\ withdrawn' \subseteq Reads
  BY <1>1 DEF AbortRead
<1>3. ks \in SUBSET Kids
  BY DEF HolderInv, Held
<1>. HIDE DEF ks
<1>4. phase[r] = "sent" => serving[r] \in ks
  BY DEF ks
<1>5. CASE phase[r] = "queued"
  <2>1. PICK i \in DOMAIN line :
          line[i] = r /\ line' = SubSeq(line, 1, i - 1) \o SubSeq(line, i + 1, Len(line))
    BY <1>5 DEF AbortRead
  <2>2. phase' = [phase EXCEPT ![line[i]] = "rejected"]
    BY <1>1, <1>5, <2>1 DEF AbortRead
  <2>3. line' \in Seq(Reads) /\ QueueInv'
    BY <1>1, <2>1, <2>2, QueueWithout DEF QueueInv
  <2>4. phase' \in [Reads -> Phases]
    BY <1>1, <2>2 DEF Phases, Ended
  <2>5. ASSUME NEW q \in Reads
        PROVE  phase'[q] = phase[q] \/ (phase[q] = "queued" /\ phase'[q] = "rejected")
    BY <1>1, <1>5, <2>1, <2>2
  <2>. QED
    BY <1>1, <1>2, <1>3, <2>3, <2>4, <2>5, GivesUp DEF pipes, files
<1>6. CASE phase[r] # "queued"
  <2>1. line' = line
    BY <1>6 DEF AbortRead
  <2>2. phase' = [phase EXCEPT ![r] = IF @ = "sent" THEN "stopping" ELSE @]
    BY <1>6 DEF AbortRead
  <2>3. phase' \in [Reads -> Phases]
    BY <1>1, <2>2 DEF Phases
  <2>5. ASSUME NEW q \in Reads
        PROVE  phase'[q] = phase[q] \/ (q = r /\ phase[q] = "sent" /\ phase'[q] = "stopping")
    BY <1>1, <2>2
  <2>4. QueueInv'
    <3>1. \A q \in Reads : phase[q] = "queued" => phase'[q] = "queued"
      BY <2>5
    <3>. QED
      BY <1>1, <2>1, <3>1, QueueKept DEF QueueInv
  <2>. QED
    BY <1>1, <1>2, <1>3, <1>4, <2>1, <2>3, <2>4, <2>5, GivesUp DEF pipes, files
<1>. QED
  BY <1>5, <1>6

LEMMA ClosePoolStep ==
  ASSUME PoolInv, ClosePool
  PROVE  PoolInv'
<1>. USE DEF PoolInv
<1>1. /\ phase \in [Reads -> Phases] /\ pool \in SUBSET Kids
      /\ withdrawn \subseteq Reads /\ draining \in BOOLEAN /\ shut \in BOOLEAN
  BY DEF PoolTypeOK
<1>2. /\ shut' = TRUE /\ line' = <<>> /\ StopAll(pool)
      /\ phase' = [q \in Reads |-> IF phase[q] = "queued" THEN "rejected" ELSE phase[q]]
      /\ UNCHANGED <<serving, withdrawn, heard, answer, pipes, files, draining>>
  BY DEF ClosePool
<1>3. phase' \in [Reads -> Phases]
  BY <1>1, <1>2 DEF Phases, Ended
<1>5. ASSUME NEW q \in Reads
      PROVE  phase'[q] = phase[q] \/ (phase[q] = "queued" /\ phase'[q] = "rejected")
  BY <1>2
<1>4. line' \in Seq(Reads) /\ QueueInv'
  BY <1>2, EmptySeq DEF QueueInv, Queued
<1>. QED
  BY <1>1, <1>2, <1>3, <1>4, <1>5, GivesUp DEF pipes, files

LEMMA StopBoundStep ==
  ASSUME PoolInv, NEW k \in Kids, StopBound(k)
  PROVE  PoolInv'
<1>. USE DEF PoolInv
<1>1. UNCHANGED <<calling, pool, worn, kid, pipes, files, draining, shut>> /\ PoolTypeOK'
  BY DEF StopBound, PoolTypeOK, PipesOK, calling, pipes, files
<1>. QED
  BY <1>1 DEF QueueInv, FileInv, HolderInv, ExchangeInv, WorkerInv, Silent, Busy, calling, pipes, files

LEMMA KidExitsStep ==
  ASSUME PoolInv, NEW k \in Kids, KidExits(k)
  PROVE  PoolInv'
<1>. USE DEF PoolInv
<1>1. /\ kid[k] # "unborn" /\ kid' = [kid EXCEPT ![k] = "exited"]
      /\ commands' = [commands EXCEPT ![k] = <<>>]
      /\ UNCHANGED <<calling, pool, worn, stopping, outs, errs, files, draining, shut>>
      /\ kid \in [Kids -> {"unborn", "live", "dying", "exited", "closed"}]
      /\ commands \in [Kids -> Seq([of : Reads, fd : Fds])]
  BY DEF KidExits, Alive, PoolTypeOK, PipesOK
<1>2. PoolTypeOK'
  <2>1. <<>> \in Seq([of : Reads, fd : Fds])
    BY EmptySeq
  <2>. QED
    BY <1>1, <2>1 DEF PoolTypeOK, PipesOK, calling, files
<1>3. /\ \A j \in Kids : kid'[j] = "unborn" <=> kid[j] = "unborn"
      /\ \A j \in Kids : commands'[j] = commands[j] \/ commands'[j] = <<>>
  BY <1>1
<1>4. QueueInv' /\ FileInv'
  BY <1>1 DEF QueueInv, FileInv, calling, files
<1>5. \A q \in Reads : HolderInv(q)'
  BY <1>1, <1>3 DEF HolderInv, calling
<1>6. \A q \in Reads : ExchangeInv(q)'
  <2>1. ASSUME NEW q \in Reads, phase[q] = "sent" PROVE ExchangeInv(q)'
    <3>1. serving[q] \in Kids
      BY <2>1 DEF HolderInv, Held
    <3>2. commands'[serving[q]] = commands[serving[q]] \/ commands'[serving[q]] = <<>>
      BY <1>3, <3>1
    <3>3. ExchangeInv(q) /\ UNCHANGED <<phase, serving, heard, outs, errs, fds, number>>
      BY <1>1 DEF calling, files
    <3>. QED
      BY <2>1, <3>2, <3>3 DEF ExchangeInv, Nothing
  <2>2. ASSUME NEW q \in Reads, phase[q] # "sent" PROVE ExchangeInv(q)'
    BY <1>1, <2>2 DEF ExchangeInv, calling
  <2>. QED
    BY <2>1, <2>2
<1>7. \A j \in Kids : WorkerInv(j)'
  <2>1. ASSUME NEW j \in Kids PROVE WorkerInv(j)'
    <3>1. Silent(j) => Silent(j)'
      BY <1>1, <1>3 DEF Silent
    <3>2. WorkerInv(j) /\ UNCHANGED <<pool, phase, serving>>
      BY <1>1 DEF calling
    <3>. QED
      BY <1>3, <3>1, <3>2 DEF WorkerInv, Busy
  <2>. QED
    BY <2>1
<1>. QED
  BY <1>2, <1>4, <1>5, <1>6, <1>7

LEMMA KidClosesStep ==
  ASSUME PoolInv, NEW k \in Kids, KidCloses(k)
  PROVE  PoolInv'
<1>. USE DEF PoolInv
<1>1. /\ kid[k] = "exited" /\ kid' = [kid EXCEPT ![k] = "closed"] /\ pool' = pool \ {k}
      /\ phase' = [r \in Reads |-> IF serving[r] = k /\ phase[r] = "sent" THEN "stopping" ELSE phase[r]]
      /\ UNCHANGED <<serving, withdrawn, line, heard, answer, pipes, files, shut>>
      /\ worn' = worn \cup {k} /\ draining' = TRUE
      /\ kid \in [Kids -> {"unborn", "live", "dying", "exited", "closed"}]
      /\ phase \in [Reads -> Phases] /\ line \in Seq(Reads)
  BY DEF KidCloses, PoolTypeOK
<1>2. PoolTypeOK'
  <2>1. phase' \in [Reads -> Phases]
    BY <1>1 DEF Phases
  <2>2. stopping' \in [Kids -> {"none", "waiting", "over"}]
    BY DEF KidCloses, PoolTypeOK
  <2>. QED
    BY <1>1, <2>1, <2>2 DEF PoolTypeOK, PipesOK, pipes, files
<1>3. \A j \in Kids : kid'[j] = "unborn" <=> kid[j] = "unborn"
  BY <1>1
<1>4. \A q \in Reads : phase'[q] = phase[q] \/ (serving[q] = k /\ phase[q] = "sent" /\ phase'[q] = "stopping")
  BY <1>1
<1>5. QueueInv'
  <2>1. \A q \in Reads : phase[q] = "queued" => phase'[q] = "queued"
    BY <1>1
  <2>. QED
    BY <1>1, <2>1, QueueKept DEF QueueInv
<1>6. FileInv'
  BY <1>1, <1>4 DEF FileInv, PoolTypeOK, files
<1>7. \A q \in Reads : HolderInv(q)'
  <2>1. ASSUME NEW q \in Reads PROVE HolderInv(q)'
    <3>1. \A p \in Reads : phase'[p] \in Held => phase[p] \in Held
      BY <1>4 DEF Held
    <3>2. phase'[q] = "stopping" => serving[q] \notin pool'
      BY <1>1, <1>4 DEF HolderInv
    <3>3. phase'[q] \notin {"sent", "stopping"} => heard[q] = Nothing
      BY <1>4 DEF HolderInv
    <3>4. phase'[q] = "answered" => answer[q] = <<q>>
      BY <1>4 DEF HolderInv
    <3>. QED
      BY <1>1, <1>3, <3>1, <3>2, <3>3, <3>4 DEF HolderInv
  <2>. QED
    BY <2>1
<1>8. \A q \in Reads : ExchangeInv(q)'
  BY <1>1, <1>4 DEF ExchangeInv, pipes, files
<1>9. \A j \in Kids : WorkerInv(j)'
  <2>1. ASSUME NEW j \in Kids PROVE WorkerInv(j)'
    <3>1. Busy(j) => Busy(j)' \/ j \notin pool'
      BY <1>1, <1>4 DEF Busy
    <3>2. \A q \in Reads : phase'[q] = "opening" => phase[q] = "opening"
      BY <1>4
    <3>3. Silent(j)' <=> Silent(j)
      BY <1>1 DEF Silent, pipes
    <3>. QED
      BY <1>1, <1>3, <3>1, <3>2, <3>3 DEF WorkerInv
  <2>. QED
    BY <2>1
<1>. QED
  BY <1>2, <1>5, <1>6, <1>7, <1>8, <1>9

LEMMA OpenFileStep ==
  ASSUME PoolInv, NEW r \in Reads, OpenFile(r)
  PROVE  PoolInv'
<1>. USE DEF PoolInv
<1>0. PICK c : c = serving[r]
  OBVIOUS
<1>1. PICK n \in Fds :
        /\ phase[r] = "opening" /\ fds[n] = NoRead
        /\ fds' = [fds EXCEPT ![n] = r] /\ number' = [number EXCEPT ![r] = n]
        /\ \/ /\ phase' = [phase EXCEPT ![r] = "stopping"] /\ StopAll({c}) /\ UNCHANGED commands
           \/ /\ phase' = [phase EXCEPT ![r] = "sent"] /\ UNCHANGED workers
              /\ commands' = [commands EXCEPT ![c] = Append(@, [of |-> r, fd |-> n])]
        /\ UNCHANGED <<serving, withdrawn, line, heard, answer, outs, errs, draining, shut>>
  BY <1>0 DEF OpenFile, Lowest
<1>2. /\ phase \in [Reads -> Phases] /\ line \in Seq(Reads) /\ PipesOK
      /\ fds \in [Fds -> Reads \cup {NoRead}] /\ number \in [Reads -> Fds \cup {0}]
      /\ kid \in [Kids -> {"unborn", "live", "dying", "exited", "closed"}]
      /\ c \in Kids /\ kid[c] # "unborn" /\ Silent(c) /\ heard[r] = Nothing
      /\ \A q \in Reads \ {r} : phase[q] \in Held => serving[q] # c
  BY <1>0, <1>1 DEF PoolTypeOK, HolderInv, WorkerInv, Held
<1>3. /\ \A q \in Reads \ {r} : phase'[q] = phase[q] /\ number'[q] = number[q]
      /\ \A m \in Fds \ {n} : fds'[m] = fds[m]
      /\ fds'[n] = r /\ number'[r] = n /\ phase'[r] \in {"stopping", "sent"}
  BY <1>1, <1>2
<1>4. phase' \in [Reads -> Phases] /\ fds' \in [Fds -> Reads \cup {NoRead}]
      /\ number' \in [Reads -> Fds \cup {0}]
  BY <1>1, <1>2 DEF Phases
<1>5. QueueInv'
  <2>1. \A q \in Reads : phase[q] = "queued" => phase'[q] = "queued"
    BY <1>1, <1>3
  <2>. QED
    BY <1>1, <1>2, <2>1, QueueKept DEF QueueInv
<1>6. FileInv'
  <2>1. ASSUME NEW m \in Fds \ {n}, fds[m] # NoRead PROVE phase'[fds[m]] \in {"sent", "stopping"}
    <3>1. fds[m] \in Reads /\ phase[fds[m]] \in {"sent", "stopping"}
      BY <1>2, <2>1 DEF FileInv
    <3>2. fds[m] # r
      BY <1>1, <3>1
    <3>. QED
      BY <1>3, <3>1, <3>2
  <2>. QED
    BY <1>3, <2>1 DEF FileInv
<1>7. \A m \in Fds, q \in Reads : fds[m] = q => m # n
  BY <1>1, PoolAssumption
<1>8. \A p \in Reads : phase'[p] \in Held => phase[p] \in Held
  BY <1>1, <1>3 DEF Held
<1>9. CASE phase' = [phase EXCEPT ![r] = "stopping"] /\ StopAll({c}) /\ UNCHANGED commands
  <2>1. /\ pool' = pool \ {c} /\ worn' = worn \cup {c}
        /\ \A k \in Kids : kid'[k] = "unborn" <=> kid[k] = "unborn"
        /\ phase'[r] = "stopping"
    BY <1>2, <1>9 DEF StopAll, Alive
  <2>2. PoolTypeOK'
    BY <1>1, <1>2, <1>4, <1>9 DEF PoolTypeOK, PipesOK, StopAll
  <2>3. ASSUME NEW q \in Reads PROVE HolderInv(q)'
    <3>1. CASE q = r
      BY <1>0, <1>1, <1>2, <1>8, <2>1, <3>1 DEF HolderInv
    <3>2. CASE q # r
      BY <1>0, <1>1, <1>2, <1>3, <1>8, <2>1, <3>2 DEF HolderInv
    <3>. QED
      BY <3>1, <3>2
  <2>4. ASSUME NEW q \in Reads PROVE ExchangeInv(q)'
    <3>1. CASE phase'[q] # "sent"
      BY <3>1 DEF ExchangeInv
    <3>2. CASE phase'[q] = "sent"
      <4>1. q # r /\ phase[q] = "sent" /\ number'[q] = number[q]
        BY <1>3, <2>1, <3>2
      <4>2. ExchangeInv(q) /\ number[q] \in Fds /\ fds[number[q]] = q /\ fds'[number[q]] = q
        BY <1>3, <1>7, <4>1 DEF ExchangeInv
      <4>. QED
        BY <1>1, <1>9, <4>1, <4>2 DEF ExchangeInv
    <3>. QED
      BY <3>1, <3>2
  <2>5. ASSUME NEW k \in Kids PROVE WorkerInv(k)'
    <3>1. Busy(k) => Busy(k)' \/ k \notin pool'
      BY <1>1, <1>2, <1>3, <2>1 DEF Busy
    <3>2. \A q \in Reads : phase'[q] = "opening" => phase[q] = "opening"
      BY <1>3
    <3>3. Silent(k)' <=> Silent(k)
      BY <1>1, <1>9 DEF Silent
    <3>. QED
      BY <1>1, <2>1, <3>1, <3>2, <3>3 DEF WorkerInv
  <2>. QED
    BY <1>5, <1>6, <2>2, <2>3, <2>4, <2>5
<1>10. CASE /\ phase' = [phase EXCEPT ![r] = "sent"] /\ UNCHANGED workers
            /\ commands' = [commands EXCEPT ![c] = Append(@, [of |-> r, fd |-> n])]
  <2>1. commands[c] = <<>> /\ outs[c] = <<>> /\ errs[c] = <<>>
    BY <1>2 DEF Silent
  <2>2. commands'[c] = <<[of |-> r, fd |-> n]>> /\ \A k \in Kids \ {c} : commands'[k] = commands[k]
    BY <1>2, <1>10, <2>1 DEF PipesOK
  <2>3. PoolTypeOK'
    <3>1. Append(commands[c], [of |-> r, fd |-> n]) \in Seq([of : Reads, fd : Fds])
      <4>1. commands[c] \in Seq([of : Reads, fd : Fds])
        BY <1>2 DEF PipesOK
      <4>2. [of |-> r, fd |-> n] \in [of : Reads, fd : Fds]
        BY <1>2
      <4>. QED
        BY <4>1, <4>2, AppendProperties
    <3>2. PipesOK'
      BY <1>1, <1>2, <1>10, <3>1 DEF PipesOK
    <3>. QED
      BY <1>1, <1>4, <1>10, <3>2 DEF PoolTypeOK, workers
  <2>4. ASSUME NEW q \in Reads PROVE HolderInv(q)'
    <3>1. CASE q = r
      BY <1>0, <1>1, <1>2, <1>3, <1>8, <1>10, <3>1 DEF HolderInv, workers
    <3>2. CASE q # r
      BY <1>0, <1>1, <1>2, <1>3, <1>8, <1>10, <3>2 DEF HolderInv, workers
    <3>. QED
      BY <3>1, <3>2
  <2>5. ASSUME NEW q \in Reads PROVE ExchangeInv(q)'
    <3>1. CASE q = r
      BY <1>0, <1>1, <1>2, <1>3, <2>1, <2>2, <3>1 DEF ExchangeInv
    <3>2. CASE q # r
      <4>1. CASE phase'[q] # "sent"
        BY <4>1 DEF ExchangeInv
      <4>2. CASE phase'[q] = "sent"
        <5>1. phase[q] = "sent" /\ number'[q] = number[q]
          BY <1>3, <3>2, <4>2
        <5>2. serving[q] \in Kids \ {c}
          BY <1>2, <3>2, <5>1 DEF HolderInv, Held
        <5>3. ExchangeInv(q) /\ number[q] \in Fds /\ fds[number[q]] = q /\ fds'[number[q]] = q
          BY <1>3, <1>7, <5>1 DEF ExchangeInv
        <5>4. commands'[serving[q]] = commands[serving[q]]
          BY <2>2, <5>2
        <5>. QED
          BY <1>1, <5>1, <5>3, <5>4 DEF ExchangeInv
      <4>. QED
        BY <4>1, <4>2
    <3>. QED
      BY <3>1, <3>2
  <2>6. ASSUME NEW k \in Kids PROVE WorkerInv(k)'
    <3>1. CASE k = c
      <4>1. Busy(c)'
        BY <1>0, <1>1, <1>3 DEF Busy
      <4>2. ~(\E q \in Reads : serving'[q] = c /\ phase'[q] = "opening")
        BY <1>1, <1>2, <1>3 DEF Held
      <4>. QED
        BY <1>2, <1>10, <3>1, <4>1, <4>2 DEF WorkerInv, workers
    <3>2. CASE k # c
      <4>1. Silent(k)' <=> Silent(k)
        BY <1>1, <2>2, <3>2 DEF Silent
      <4>2. Busy(k) => Busy(k)'
        BY <1>0, <1>1, <1>3, <3>2 DEF Busy
      <4>3. \A q \in Reads : phase'[q] = "opening" => phase[q] = "opening"
        BY <1>3
      <4>. QED
        BY <1>1, <1>10, <4>1, <4>2, <4>3 DEF WorkerInv, workers
    <3>. QED
      BY <3>1, <3>2
  <2>. QED
    BY <1>5, <1>6, <2>3, <2>4, <2>5, <2>6
<1>. QED
  BY <1>1, <1>9, <1>10

(* A child writes: only its pipes change, and they were not silent.        *)
LEMMA PipesMove ==
  ASSUME PoolInv, NEW k \in Kids, ~Silent(k), PipesOK',
         UNCHANGED <<phase, serving, withdrawn, line, answer, workers, files, shut, draining>>,
         \A j \in Kids \ {k} : commands'[j] = commands[j] /\ outs'[j] = outs[j] /\ errs'[j] = errs[j],
         heard' \in [Reads -> [out : Seq(OutLine), err : Seq(ErrLine)]],
         \A q \in Reads : heard'[q] = heard[q] \/ (serving[q] = k /\ phase[q] = "sent"),
         \A q \in Reads : serving[q] = k /\ phase[q] = "sent" => ExchangeInv(q)'
  PROVE  PoolInv'
<1>. USE DEF PoolInv
<1>1. PoolTypeOK'
  BY DEF PoolTypeOK, workers, files
<1>2. QueueInv' /\ FileInv'
  BY DEF QueueInv, FileInv, files
<1>3. ASSUME NEW q \in Reads PROVE HolderInv(q)'
  BY DEF HolderInv, workers
<1>4. ASSUME NEW q \in Reads PROVE ExchangeInv(q)'
  <2>1. CASE phase[q] = "sent" /\ serving[q] # k
    <3>1. serving[q] \in Kids \ {k} /\ heard'[q] = heard[q]
      BY <2>1 DEF HolderInv, Held
    <3>2. /\ ExchangeInv(q) /\ commands'[serving[q]] = commands[serving[q]]
          /\ outs'[serving[q]] = outs[serving[q]] /\ errs'[serving[q]] = errs[serving[q]]
      BY <3>1
    <3>3. UNCHANGED <<phase, serving, fds, number>>
      BY DEF files
    <3>. QED
      BY <2>1, <3>1, <3>2, <3>3 DEF ExchangeInv
  <2>2. CASE phase[q] # "sent"
    BY <2>2 DEF ExchangeInv
  <2>. QED
    BY <2>1, <2>2
<1>5. ASSUME NEW j \in Kids PROVE WorkerInv(j)'
  <2>1. CASE j = k
    BY <2>1 DEF WorkerInv, Busy, workers
  <2>2. CASE j # k
    <3>1. Silent(j)' <=> Silent(j)
      BY <2>2 DEF Silent
    <3>. QED
      BY <3>1 DEF WorkerInv, Busy, workers
  <2>. QED
    BY <2>1, <2>2
<1>. QED
  BY <1>1, <1>2, <1>3, <1>4, <1>5

LEMMA ServeStep ==
  ASSUME PoolInv, NEW k \in Kids, Serve(k)
  PROVE  PoolInv'
<1>. USE DEF PoolInv
<1>. DEFINE cmd == Head(commands[k])
<1>1. PICK ok \in BOOLEAN :
        /\ commands[k] # <<>>
        /\ outs' = [outs EXCEPT ![k] = Append(@, [of |-> cmd.of, file |-> fds[cmd.fd]])]
        /\ errs' = [errs EXCEPT ![k] = Append(@, [of |-> cmd.of, ok |-> ok /\ fds[cmd.fd] # NoRead])]
        /\ commands' = [commands EXCEPT ![k] = Tail(@)]
        /\ UNCHANGED <<calling, workers, files, draining, shut>>
  BY DEF Serve
<1>2. PipesOK /\ commands[k] \in Seq([of : Reads, fd : Fds])
      /\ outs[k] \in Seq(OutLine) /\ errs[k] \in Seq(ErrLine)
      /\ fds \in [Fds -> Reads \cup {NoRead}]
  BY DEF PoolTypeOK, PipesOK
<1>3. cmd \in [of : Reads, fd : Fds] /\ Tail(commands[k]) \in Seq([of : Reads, fd : Fds])
  BY <1>1, <1>2, HeadTailProperties
<1>4. /\ [of |-> cmd.of, file |-> fds[cmd.fd]] \in OutLine
      /\ [of |-> cmd.of, ok |-> ok /\ fds[cmd.fd] # NoRead] \in ErrLine
  BY <1>2, <1>3 DEF OutLine, ErrLine
<1>5. /\ Append(outs[k], [of |-> cmd.of, file |-> fds[cmd.fd]]) \in Seq(OutLine)
      /\ Append(errs[k], [of |-> cmd.of, ok |-> ok /\ fds[cmd.fd] # NoRead]) \in Seq(ErrLine)
  BY <1>2, <1>4, AppendProperties
<1>6. PipesOK'
  BY <1>1, <1>2, <1>3, <1>5 DEF PipesOK, calling
<1>7. /\ commands'[k] = Tail(commands[k])
      /\ outs'[k] = Append(outs[k], [of |-> cmd.of, file |-> fds[cmd.fd]])
      /\ errs'[k] = Append(errs[k], [of |-> cmd.of, ok |-> ok /\ fds[cmd.fd] # NoRead])
      /\ \A j \in Kids \ {k} : commands'[j] = commands[j] /\ outs'[j] = outs[j] /\ errs'[j] = errs[j]
  BY <1>1, <1>2 DEF PipesOK
<1>8. ASSUME NEW q \in Reads, serving[q] = k, phase[q] = "sent" PROVE ExchangeInv(q)'
  <2>1. /\ commands[k] = <<[of |-> q, fd |-> number[q]]>> /\ outs[k] = <<>> /\ errs[k] = <<>>
        /\ heard[q] = Nothing /\ number[q] \in Fds /\ fds[number[q]] = q
    BY <1>1, <1>8 DEF ExchangeInv
  <2>2. cmd = [of |-> q, fd |-> number[q]]
    BY <2>1
  <2>3. cmd.of = q /\ fds[cmd.fd] = q /\ q # NoRead
    BY <2>1, <2>2, PoolAssumption
  <2>. HIDE DEF cmd
  <2>4. commands'[k] = <<>> /\ outs'[k] = <<OwnOut(q)>> /\ errs'[k] = <<[of |-> q, ok |-> ok]>>
    BY <1>7, <2>1, <2>3 DEF OwnOut
  <2>5. errs'[k] \in Saying(q)
    BY <2>4 DEF Saying
  <2>6. heard[q].out = <<>> /\ heard[q].err = <<>>
    BY <2>1 DEF Nothing
  <2>. QED
    BY <1>1, <1>8, <2>1, <2>4, <2>5, <2>6 DEF ExchangeInv, calling, files
<1>9. ~Silent(k)
  BY <1>1 DEF Silent
<1>10. heard \in [Reads -> [out : Seq(OutLine), err : Seq(ErrLine)]]
  BY DEF PoolTypeOK
<1>. HIDE DEF cmd
<1>11. UNCHANGED <<phase, serving, withdrawn, line, answer, workers, files, shut, draining, heard>>
  BY <1>1 DEF calling
<1>. QED
  BY <1>6, <1>7, <1>8, <1>9, <1>10, <1>11, PipesMove

(* The whole answer has been heard and its status is not zero: the worker  *)
(* leaves the pool as in FailExchange, and only its pipes change.          *)
LEMMA StatusFails ==
  ASSUME PoolInv, NEW r \in Reads, phase[r] = "sent", FailRead(r), PipesOK',
         UNCHANGED <<serving, withdrawn, line, heard, answer, files, draining, shut>>,
         \A j \in Kids \ {serving[r]} :
           commands'[j] = commands[j] /\ outs'[j] = outs[j] /\ errs'[j] = errs[j]
  PROVE  PoolInv'
<1>. USE DEF PoolInv
<1>. DEFINE c == serving[r]
<1>1. /\ c \in Kids /\ kid[c] # "unborn"
      /\ \A q \in Reads \ {r} : phase[q] \in Held => serving[q] # c
  BY DEF HolderInv, Held
<1>2. /\ phase' = [phase EXCEPT ![r] = "stopping"] /\ StopAll({c})
      /\ phase'[r] = "stopping" /\ \A q \in Reads \ {r} : phase'[q] = phase[q]
  BY DEF FailRead, PoolTypeOK
<1>3. phase' \in [Reads -> Phases]
  BY <1>2 DEF PoolTypeOK, Phases
<1>4. UNCHANGED <<fds, number>>
  BY DEF files
<1>5. PoolTypeOK'
  BY <1>1, <1>2, <1>3, <1>4 DEF PoolTypeOK, StopAll
<1>6. /\ pool' = pool \ {c}
      /\ \A k \in Kids : kid'[k] = "unborn" <=> kid[k] = "unborn"
  BY <1>2 DEF StopAll, PoolTypeOK, Alive
<1>7. QueueInv'
  <2>1. /\ \A q \in Reads : phase[q] = "queued" => phase'[q] = "queued"
        /\ line \in Seq(Reads) /\ line' = line
    BY <1>2 DEF PoolTypeOK
  <2>. QED
    BY <2>1, QueueKept DEF QueueInv
<1>8. FileInv'
  BY <1>2, <1>4 DEF FileInv, PoolTypeOK
<1>9. \A q \in Reads : HolderInv(q)'
  <2>1. ASSUME NEW q \in Reads PROVE HolderInv(q)'
    <3>1. \A p \in Reads : phase'[p] \in Held => phase[p] \in Held
      BY <1>2 DEF Held
    <3>2. phase'[q] = "stopping" => serving[q] \notin pool'
      BY <1>2, <1>6 DEF HolderInv
    <3>3. phase'[q] \notin {"sent", "stopping"} => heard[q] = Nothing
      BY <1>2 DEF HolderInv
    <3>4. phase'[q] = "answered" => answer[q] = <<q>>
      BY <1>2 DEF HolderInv
    <3>. QED
      BY <1>6, <3>1, <3>2, <3>3, <3>4 DEF HolderInv
  <2>. QED
    BY <2>1
<1>10. ASSUME NEW q \in Reads PROVE ExchangeInv(q)'
  <2>1. CASE phase'[q] = "sent"
    <3>1. q # r /\ phase[q] = "sent" /\ serving[q] \in Kids \ {c}
      BY <1>1, <1>2, <2>1 DEF HolderInv, Held
    <3>2. /\ ExchangeInv(q) /\ commands'[serving[q]] = commands[serving[q]]
          /\ outs'[serving[q]] = outs[serving[q]] /\ errs'[serving[q]] = errs[serving[q]]
      BY <3>1
    <3>. QED
      BY <1>4, <3>1, <3>2 DEF ExchangeInv
  <2>2. CASE phase'[q] # "sent"
    BY <2>2 DEF ExchangeInv
  <2>. QED
    BY <2>1, <2>2
<1>11. ASSUME NEW k \in Kids PROVE WorkerInv(k)'
  <2>1. CASE k = c
    <3>1. ~\E q \in Reads : serving'[q] = c /\ phase'[q] = "opening"
      BY <1>1, <1>2 DEF Held
    <3>2. c \notin pool' /\ kid'[c] # "unborn"
      BY <1>1, <1>6
    <3>. QED
      BY <2>1, <3>1, <3>2 DEF WorkerInv
  <2>2. CASE k # c
    <3>1. Silent(k)' <=> Silent(k)
      BY <2>2 DEF Silent
    <3>2. Busy(k)' <=> Busy(k)
      BY <1>2, <2>2 DEF Busy
    <3>3. \A q \in Reads : phase'[q] = "opening" => phase[q] = "opening"
      BY <1>2
    <3>4. k \in pool' <=> k \in pool
      BY <1>6, <2>2
    <3>. QED
      BY <1>6, <3>1, <3>2, <3>3, <3>4 DEF WorkerInv
  <2>. QED
    BY <2>1, <2>2
<1>. QED
  BY <1>5, <1>7, <1>8, <1>9, <1>10, <1>11

(* A chunk comes in: somebody listens and has not heard both markers yet,  *)
(* or has and settles, or nobody listens.                                  *)
LEMMA OutDataStep ==
  ASSUME PoolInv, NEW k \in Kids, OutData(k)
  PROVE  PoolInv'
<1>. USE DEF PoolInv
<1>1. PICK h : h = [r \in Reads |-> [heard[r] EXCEPT !.out = Append(@, Head(outs[k]))]]
  OBVIOUS
<1>2. /\ outs[k] # <<>> /\ outs' = [outs EXCEPT ![k] = Tail(@)] /\ Hear(k, h)
      /\ UNCHANGED <<line, commands, errs, shut>>
  BY <1>1 DEF OutData
<1>3. /\ PipesOK /\ outs[k] \in Seq(OutLine) /\ heard \in [Reads -> [out : Seq(OutLine), err : Seq(ErrLine)]]
      /\ draining \in BOOLEAN
  BY DEF PoolTypeOK, PipesOK
<1>4. Head(outs[k]) \in OutLine /\ Tail(outs[k]) \in Seq(OutLine)
  BY <1>2, <1>3, HeadTailProperties
<1>5. outs' \in [Kids -> Seq(OutLine)] /\ outs'[k] = Tail(outs[k])
      /\ \A j \in Kids \ {k} : outs'[j] = outs[j]
  BY <1>2, <1>3, <1>4 DEF PipesOK
<1>6. ~Silent(k)
  BY <1>2 DEF Silent
<1>7. ASSUME NEW q \in Reads, serving[q] = k, phase[q] = "sent"
      PROVE  /\ outs[k] = <<OwnOut(q)>> /\ commands[k] = <<>> /\ h[q].out = <<OwnOut(q)>>
             /\ h[q].err = heard[q].err /\ outs'[k] = <<>>
             /\ h[q] \in [out : Seq(OutLine), err : Seq(ErrLine)]
             /\ number[q] \in Fds /\ fds[number[q]] = q
             /\ \/ errs[k] = <<>> /\ heard[q].err \in {<<>>} \cup Saying(q)
                \/ errs[k] \in Saying(q) /\ heard[q].err = <<>>
  <2>1. /\ outs[k] = <<OwnOut(q)>> /\ heard[q].out = <<>> /\ commands[k] = <<>>
        /\ number[q] \in Fds /\ fds[number[q]] = q
        /\ \/ errs[k] = <<>> /\ heard[q].err \in {<<>>} \cup Saying(q)
           \/ errs[k] \in Saying(q) /\ heard[q].err = <<>>
    BY <1>2, <1>7 DEF ExchangeInv
  <2>2. Head(outs[k]) = OwnOut(q) /\ Tail(outs[k]) = <<>> /\ Append(<<>>, OwnOut(q)) = <<OwnOut(q)>>
    BY <2>1, ShortSeqs
  <2>3. h[q].out = Append(heard[q].out, Head(outs[k])) /\ h[q].err = heard[q].err
    BY <1>1, <1>3
  <2>4. h[q] \in [out : Seq(OutLine), err : Seq(ErrLine)]
    <3>1. Append(heard[q].out, Head(outs[k])) \in Seq(OutLine)
      BY <1>3, <1>4, AppendProperties
    <3>. QED
      BY <1>1, <1>3, <3>1
  <2>. QED
    BY <1>5, <2>1, <2>2, <2>3, <2>4
<1>8. CASE /\ \A r \in Reads : ~(serving[r] = k /\ phase[r] = "sent")
           /\ UNCHANGED <<phase, serving, withdrawn, heard, answer, workers, files, draining>>
  <2>1. PipesOK'
    BY <1>2, <1>3, <1>5, <1>8 DEF PipesOK
  <2>. QED
    BY <1>2, <1>3, <1>5, <1>6, <1>8, <2>1, PipesMove
<1>9. ASSUME NEW r \in Reads, serving[r] = k, phase[r] = "sent", ~Complete(r, h[r]),
             heard' = [heard EXCEPT ![r] = h[r]],
             UNCHANGED <<phase, serving, withdrawn, answer, workers, files, draining>>
      PROVE  PoolInv'
  <2>1. PipesOK'
    BY <1>2, <1>3, <1>5, <1>9 DEF PipesOK
  <2>2. heard' \in [Reads -> [out : Seq(OutLine), err : Seq(ErrLine)]] /\ heard'[r] = h[r]
        /\ \A q \in Reads \ {r} : heard'[q] = heard[q]
    BY <1>3, <1>7, <1>9
  <2>3. ASSUME NEW q \in Reads, serving[q] = k, phase[q] = "sent" PROVE ExchangeInv(q)'
    <3>1. q = r
      BY <1>9, <2>3 DEF HolderInv, Held
    <3>2. UNCHANGED <<phase, serving, fds, number, commands, errs>>
      BY <1>2, <1>9 DEF files
    <3>. QED
      BY <1>7, <1>9, <2>2, <3>1, <3>2 DEF ExchangeInv
  <2>. QED
    BY <1>2, <1>5, <1>6, <1>9, <2>1, <2>2, <2>3, PipesMove
<1>10. ASSUME NEW r \in Reads, serving[r] = k, phase[r] = "sent", Complete(r, h[r]),
              SettleRead(r, "answered"), UNCHANGED workers,
              answer' = [answer EXCEPT ![r] = [i \in 1..Len(h[r].out) |-> h[r].out[i].file]]
       PROVE  PoolInv'
  <2>0. answer \in [Reads -> Seq(Reads \cup {NoRead})]
    BY <1>3 DEF PipesOK
  <2>1. h[r].out = <<OwnOut(r)>>
    BY <1>7, <1>10
  <2>2. [i \in 1..Len(h[r].out) |-> h[r].out[i].file] = <<r>>
    BY <2>1 DEF OwnOut
  <2>3. <<r>> \in Seq(Reads \cup {NoRead})
    BY ShortSeqs
  <2>4. /\ answer' \in [Reads -> Seq(Reads \cup {NoRead})]
        /\ \A q \in Reads \ {r} : answer'[q] = answer[q]
        /\ answer'[r] = <<r>>
    BY <1>10, <2>0, <2>2, <2>3
  <2>5. PipesOK'
    BY <1>2, <1>3, <1>5, <2>4 DEF PipesOK
  <2>6. errs[k] = <<>>
    BY <1>7, <1>10 DEF Complete
  <2>7. Silent(k)'
    BY <1>2, <1>7, <1>10, <2>6 DEF Silent
  <2>8. phase[r] \in Held /\ k = serving[r] /\ "answered" \in Ended
    BY <1>10 DEF Held, Ended
  <2>. QED
    BY <1>2, <1>5, <1>10, <2>4, <2>5, <2>7, <2>8, Settles
<1>11. ASSUME NEW r \in Reads, serving[r] = k, phase[r] = "sent", FailRead(r),
              UNCHANGED <<serving, withdrawn, heard, answer, files, draining>>
       PROVE  PoolInv'
  <2>1. PipesOK'
    BY <1>2, <1>3, <1>5, <1>11 DEF PipesOK
  <2>. QED
    BY <1>2, <1>5, <1>11, <2>1, StatusFails
<1>. QED
  BY <1>2, <1>8, <1>9, <1>10, <1>11 DEF Hear

LEMMA ErrDataStep ==
  ASSUME PoolInv, NEW k \in Kids, ErrData(k)
  PROVE  PoolInv'
<1>. USE DEF PoolInv
<1>1. PICK h : h = [r \in Reads |-> [heard[r] EXCEPT !.err = Append(@, Head(errs[k]))]]
  OBVIOUS
<1>2. /\ errs[k] # <<>> /\ errs' = [errs EXCEPT ![k] = Tail(@)] /\ Hear(k, h)
      /\ UNCHANGED <<line, commands, outs, shut>>
  BY <1>1 DEF ErrData
<1>3. /\ PipesOK /\ errs[k] \in Seq(ErrLine) /\ heard \in [Reads -> [out : Seq(OutLine), err : Seq(ErrLine)]]
      /\ draining \in BOOLEAN
  BY DEF PoolTypeOK, PipesOK
<1>4. Head(errs[k]) \in ErrLine /\ Tail(errs[k]) \in Seq(ErrLine)
  BY <1>2, <1>3, HeadTailProperties
<1>5. errs' \in [Kids -> Seq(ErrLine)] /\ errs'[k] = Tail(errs[k])
      /\ \A j \in Kids \ {k} : errs'[j] = errs[j]
  BY <1>2, <1>3, <1>4 DEF PipesOK
<1>6. ~Silent(k)
  BY <1>2 DEF Silent
<1>7. ASSUME NEW q \in Reads, serving[q] = k, phase[q] = "sent"
      PROVE  /\ errs[k] \in Saying(q) /\ commands[k] = <<>> /\ h[q].err = errs[k]
             /\ h[q].out = heard[q].out /\ errs'[k] = <<>>
             /\ h[q] \in [out : Seq(OutLine), err : Seq(ErrLine)]
             /\ number[q] \in Fds /\ fds[number[q]] = q
             /\ \/ outs[k] = <<>> /\ heard[q].out \in {<<>>, <<OwnOut(q)>>}
                \/ outs[k] = <<OwnOut(q)>> /\ heard[q].out = <<>>
  <2>1. /\ errs[k] \in Saying(q) /\ heard[q].err = <<>> /\ commands[k] = <<>>
        /\ number[q] \in Fds /\ fds[number[q]] = q
        /\ \/ outs[k] = <<>> /\ heard[q].out \in {<<>>, <<OwnOut(q)>>}
           \/ outs[k] = <<OwnOut(q)>> /\ heard[q].out = <<>>
    BY <1>2, <1>7 DEF ExchangeInv
  <2>2. PICK e : errs[k] = <<e>>
    BY <2>1 DEF Saying
  <2>3. Head(errs[k]) = e /\ Tail(errs[k]) = <<>> /\ Append(<<>>, e) = <<e>>
    BY <2>2, ShortSeqs
  <2>4. h[q].err = Append(heard[q].err, Head(errs[k])) /\ h[q].out = heard[q].out
    BY <1>1, <1>3
  <2>5. h[q] \in [out : Seq(OutLine), err : Seq(ErrLine)]
    <3>1. Append(heard[q].err, Head(errs[k])) \in Seq(ErrLine)
      BY <1>3, <1>4, AppendProperties
    <3>. QED
      BY <1>1, <1>3, <3>1
  <2>. QED
    BY <1>5, <2>1, <2>2, <2>3, <2>4, <2>5
<1>8. CASE /\ \A r \in Reads : ~(serving[r] = k /\ phase[r] = "sent")
           /\ UNCHANGED <<phase, serving, withdrawn, heard, answer, workers, files, draining>>
  <2>1. PipesOK'
    BY <1>2, <1>3, <1>5, <1>8 DEF PipesOK
  <2>. QED
    BY <1>2, <1>3, <1>5, <1>6, <1>8, <2>1, PipesMove
<1>9. ASSUME NEW r \in Reads, serving[r] = k, phase[r] = "sent", ~Complete(r, h[r]),
             heard' = [heard EXCEPT ![r] = h[r]],
             UNCHANGED <<phase, serving, withdrawn, answer, workers, files, draining>>
      PROVE  PoolInv'
  <2>1. PipesOK'
    BY <1>2, <1>3, <1>5, <1>9 DEF PipesOK
  <2>2. heard' \in [Reads -> [out : Seq(OutLine), err : Seq(ErrLine)]] /\ heard'[r] = h[r]
        /\ \A q \in Reads \ {r} : heard'[q] = heard[q]
    BY <1>3, <1>7, <1>9
  <2>3. ASSUME NEW q \in Reads, serving[q] = k, phase[q] = "sent" PROVE ExchangeInv(q)'
    <3>1. q = r
      BY <1>9, <2>3 DEF HolderInv, Held
    <3>2. UNCHANGED <<phase, serving, fds, number, commands, outs>>
      BY <1>2, <1>9 DEF files
    <3>. QED
      BY <1>7, <1>9, <2>2, <3>1, <3>2 DEF ExchangeInv
  <2>. QED
    BY <1>2, <1>5, <1>6, <1>9, <2>1, <2>2, <2>3, PipesMove
<1>10. ASSUME NEW r \in Reads, serving[r] = k, phase[r] = "sent", Complete(r, h[r]),
              SettleRead(r, "answered"), UNCHANGED workers,
              answer' = [answer EXCEPT ![r] = [i \in 1..Len(h[r].out) |-> h[r].out[i].file]]
       PROVE  PoolInv'
  <2>1. h[r].out # <<>> /\ answer \in [Reads -> Seq(Reads \cup {NoRead})]
    BY <1>3, <1>10 DEF PipesOK, Complete
  <2>2. h[r].out = <<OwnOut(r)>> /\ outs[k] = <<>>
    BY <1>7, <1>10, <2>1
  <2>3. [i \in 1..Len(h[r].out) |-> h[r].out[i].file] = <<r>>
    BY <2>2 DEF OwnOut
  <2>4. <<r>> \in Seq(Reads \cup {NoRead})
    BY ShortSeqs
  <2>5. /\ answer' \in [Reads -> Seq(Reads \cup {NoRead})]
        /\ \A q \in Reads \ {r} : answer'[q] = answer[q]
        /\ answer'[r] = <<r>>
    BY <1>10, <2>1, <2>3, <2>4
  <2>6. PipesOK'
    BY <1>2, <1>3, <1>5, <2>5 DEF PipesOK
  <2>7. Silent(k)'
    BY <1>2, <1>7, <1>10, <2>2 DEF Silent
  <2>8. phase[r] \in Held /\ k = serving[r] /\ "answered" \in Ended
    BY <1>10 DEF Held, Ended
  <2>. QED
    BY <1>2, <1>5, <1>10, <2>5, <2>6, <2>7, <2>8, Settles
<1>11. ASSUME NEW r \in Reads, serving[r] = k, phase[r] = "sent", FailRead(r),
              UNCHANGED <<serving, withdrawn, heard, answer, files, draining>>
       PROVE  PoolInv'
  <2>1. PipesOK'
    BY <1>2, <1>3, <1>5, <1>11 DEF PipesOK
  <2>. QED
    BY <1>2, <1>5, <1>11, <2>1, StatusFails
<1>. QED
  BY <1>2, <1>8, <1>9, <1>10, <1>11 DEF Hear

LEMMA PoolSteps ==
  ASSUME PoolInv, [PoolNext]_poolVars
  PROVE  PoolInv'
<1>1. CASE UNCHANGED poolVars
  <2>. USE <1>1 DEF poolVars, calling, workers, pipes, files, PoolInv
  <2>1. PoolTypeOK'
    BY DEF PoolTypeOK, PipesOK
  <2>2. QueueInv' /\ FileInv'
    BY DEF QueueInv, FileInv
  <2>3. ASSUME NEW r \in Reads PROVE HolderInv(r)' /\ ExchangeInv(r)'
    <3>1. HolderInv(r)'
      BY DEF HolderInv
    <3>2. ExchangeInv(r)'
      BY DEF ExchangeInv
    <3>. QED
      BY <3>1, <3>2
  <2>4. \A k \in Kids : WorkerInv(k)'
    BY DEF WorkerInv, Silent, Busy
  <2>. QED
    BY <2>1, <2>2, <2>3, <2>4
<1>2. ASSUME Drain PROVE PoolInv'
  BY <1>2, DrainOntoStep, DrainSpawnStep, DrainEndsStep DEF Drain
<1>3. ASSUME NEW r \in Reads, ReadSteps(r) PROVE PoolInv'
  BY <1>3, StartReadStep, OpenFailsStep, OpenFileStep, FailExchangeStep, AbortReadStep, StoppedStep
     DEF ReadSteps
<1>4. ASSUME NEW k \in Kids, Child(k) PROVE PoolInv'
  BY <1>4, ServeStep, OutDataStep, ErrDataStep, StopBoundStep, KidExitsStep, KidClosesStep DEF Child
<1>. QED
  BY <1>1, <1>2, <1>3, <1>4, ClosePoolStep DEF PoolNext

LEMMA PoolHoldsThen == PoolInv => PoolHolds
<1>. SUFFICES ASSUME PoolInv PROVE PoolHolds
  OBVIOUS
<1>1. AnswersAreOwn
  BY DEF PoolInv, AnswersAreOwn, HolderInv
<1>2. ASSUME NEW r \in Reads, NEW q \in Reads, serving[r] = serving[q], r # q,
             phase[r] \in Held
      PROVE  phase[q] \notin Held
  BY <1>2 DEF PoolInv, HolderInv
<1>3. \A k \in pool : ~Busy(k) => Silent(k)
  BY DEF PoolInv, PoolTypeOK, WorkerInv
<1>. QED
  BY <1>1, <1>2, <1>3 DEF PoolInv, PoolHolds, WorkersAreClean, Silent, Held, FileInv

-----------------------------------------------------------------------------
(* Both pools as parts of the running application: every answer is the     *)
(* read's own file, workers are clean, and the work pool stays within its  *)
(* weight, for any number of reads, children, items and laborers.          *)
THEOREM ApplicationPoolsHold == ApplicationSpec => []PoolsHold
<1>1. ApplicationInit => PoolInv /\ WorkInv
  BY PoolStarts, WorkStarts DEF ApplicationInit
<1>2. PoolInv /\ WorkInv /\ [ApplicationNext]_applicationVars => (PoolInv /\ WorkInv)'
  <2>1. [ApplicationNext]_applicationVars => [PoolNext]_poolVars /\ [WorkNext]_workVars
    BY DEF ApplicationNext, applicationVars
  <2>. QED
    BY <2>1, PoolSteps, WorkSteps
<1>3. PoolInv /\ WorkInv => PoolsHold
  BY PoolHoldsThen, WorkIsBoundedHolds DEF PoolsHold
<1>. QED
  BY <1>1, <1>2, <1>3, PTL DEF ApplicationSpec

(* AdaptiveWorkPool, mapOrdered: once the call has failed or was aborted   *)
(* no worker is granted weight, and none starts a task but one that was    *)
(* granted its weight before; without a limit none starts at all.          *)
THEOREM ApplicationStartsNothing == ApplicationSpec => NothingStartsAfterFailure
<1>1. ApplicationInit => WorkInv
  BY WorkStarts DEF ApplicationInit
<1>2. WorkInv /\ [ApplicationNext]_applicationVars => WorkInv'
  <2>1. [ApplicationNext]_applicationVars => [WorkNext]_workVars
    BY DEF ApplicationNext, applicationVars
  <2>. QED
    BY <2>1, WorkSteps
<1>3. WorkInv /\ [ApplicationNext]_applicationVars
        => [stopped => \A w \in Laborers :
              /\ post'[w] = "granted" => post[w] = "granted"
              /\ post'[w] = "task"    => post[w] = "task" \/ (gated /\ post[w] = "granted")]_workVars
  <2>1. [ApplicationNext]_applicationVars => [WorkNext]_workVars
    BY DEF ApplicationNext, applicationVars
  <2>. QED
    BY <2>1, NothingStartsHolds
<1>. QED
  BY <1>1, <1>2, <1>3, PTL DEF ApplicationSpec, NothingStartsAfterFailure

-----------------------------------------------------------------------------
(* ApplicationLifecycle: wherever in the startup a quit, an activation or  *)
(* a failure comes, and for any number of windows.                         *)

(* The owners made so far, all of them held while the build goes on.       *)
Made == {Acquisitions[i] : i \in 1..acquired}

(* A runtime, once built, keeps every owner until the shutdown walks them; *)
(* and nothing is walked before.                                           *)
RuntimeInv ==
  /\ acquired \in 0..Len(Acquisitions)
  /\ startup \in {"boot", "building"} => cleanup = {} /\ held = Made
  /\ startup = "building" => acquiring = "pending"
  /\ startup = "boot" => acquiring = "none" /\ acquired = 0
  /\ startup \in {"building", "rollingBack"} => acquiring = "pending"
  /\ startup = "built" => acquiring = "runtime"
  /\ acquiring = "pending" => quitting \in {"no", "awaiting"}
  /\ acquiring = "runtime" /\ quitting \in {"no", "awaiting", "disposing"} =>
       cleanup = {} /\ held = Owners

(* The step of a window's birth.                                           *)
WindowStep == ~window /\ window' => held = Owners /\ ~shutdownRequested

LEMMA AcquisitionsLength == Len(Acquisitions) \in Nat
  BY DEF Acquisitions

USE AcquisitionsLength

LEMMA LifeStarts == LifeInit => RuntimeInv
  BY DEF LifeInit, RuntimeInv, Made

LEMMA LifeSteps == RuntimeInv /\ [LifeNext]_lifeVars => RuntimeInv' /\ WindowStep
<1>. SUFFICES ASSUME RuntimeInv, [LifeNext]_lifeVars PROVE RuntimeInv' /\ WindowStep
  OBVIOUS
<1>. USE DEF RuntimeInv, WindowStep, shutdownRequested, BeginQuit, CreateWindow, ShowWindow, WindowFails
<1>1. CASE Ready
  BY <1>1 DEF Ready, Made
<1>2. CASE AcquireNext
  <2>1. Made' = Made \cup {Acquisitions[acquired + 1]}
    BY <1>2 DEF AcquireNext, Made
  <2>. QED
    BY <1>2, <2>1 DEF AcquireNext
<1>3. CASE BuildFails
  BY <1>3 DEF BuildFails
<1>4. CASE RolledBack
  BY <1>4 DEF RolledBack
<1>5. CASE BuildEnds
  BY <1>5 DEF BuildEnds, Made, Owners
<1>6. CASE ShowFirst
  BY <1>6 DEF ShowFirst
<1>7. CASE CloseNext
  BY <1>7 DEF CloseNext, SettleNext
<1>8. CASE LoadSettles
  BY <1>8 DEF LoadSettles, Made
<1>9. CASE WindowClosed
  BY <1>9 DEF WindowClosed, Made
<1>10. CASE Activate
  BY <1>10 DEF Activate, Made
<1>11. CASE QuitRequested
  BY <1>11 DEF QuitRequested, Made
<1>12. CASE AwaitAcquisition
  BY <1>12 DEF AwaitAcquisition, Made
<1>13. CASE DisposeIpc
  BY <1>13 DEF DisposeIpc, Made
<1>14. CASE RuntimeClosed \/ LoggerClosed \/ ExitProcess
  BY <1>14 DEF RuntimeClosed, LoggerClosed, ExitProcess, Made
<1>15. CASE UNCHANGED lifeVars
  BY <1>15 DEF lifeVars, Made
<1>. QED
  BY <1>1, <1>2, <1>3, <1>4, <1>5, <1>6, <1>7, <1>8, <1>9, <1>10, <1>11, <1>12, <1>13, <1>14, <1>15
     DEF LifeNext, LifeMoves, LifeOver

(* A window is made for a complete runtime only, and never once a quit has *)
(* begun.                                                                  *)
THEOREM WindowsHaveTheirRuntime == LifeSpec => WindowsNeedRuntime
<1>1. LifeSpec => []RuntimeInv
  BY LifeStarts, LifeSteps, PTL DEF LifeSpec
<1>2. RuntimeInv /\ [LifeNext]_lifeVars => [WindowStep]_lifeVars
  BY LifeSteps
<1>. QED
  BY <1>1, <1>2, PTL DEF LifeSpec, WindowsNeedRuntime, WindowStep

(* No owner uses one that is acquired after it, or that is walked before   *)
(* it.                                                                     *)
LEMMA UsesAreOlder ==
  /\ \A i \in 1..Len(Acquisitions) :
       Uses[Acquisitions[i]] \subseteq {Acquisitions[j] : j \in 1..i - 1}
  /\ \A o \in Owners : CleanupOrder[o] \in Nat /\
       \A p \in Uses[o] : CleanupOrder[p] \in Nat /\ CleanupOrder[o] < CleanupOrder[p]
<1>1. /\ Acquisitions[1] = "config" /\ Acquisitions[2] = "history"
      /\ Acquisitions[3] = "evidence" /\ Acquisitions[4] = "audit"
      /\ Acquisitions[5] = "metadata" /\ Acquisitions[6] = "transaction"
      /\ Acquisitions[7] = "overrides" /\ Acquisitions[8] = "coordinator"
      /\ Acquisitions[9] = "ipc" /\ Len(Acquisitions) = 9
  BY DEF Acquisitions
<1>2. Owners = {"config", "history", "evidence", "audit", "metadata", "transaction",
                "overrides", "coordinator", "ipc"}
  BY <1>1 DEF Owners
<1>3. /\ \A o \in Owners : o \notin {"transaction", "coordinator", "ipc"} => Uses[o] = {}
      /\ Uses["transaction"] = {"audit"}
      /\ Uses["coordinator"] = {"config", "history", "evidence", "metadata", "transaction"}
      /\ Uses["ipc"] = {"config", "history", "audit", "metadata", "overrides", "coordinator"}
  BY <1>2 DEF Uses
<1>4. /\ CleanupOrder["config"] = 70 /\ CleanupOrder["history"] = 60
      /\ CleanupOrder["evidence"] = 40 /\ CleanupOrder["audit"] = 35
      /\ CleanupOrder["metadata"] = 50 /\ CleanupOrder["transaction"] = 30
      /\ CleanupOrder["overrides"] = 32 /\ CleanupOrder["coordinator"] = 20
      /\ CleanupOrder["ipc"] = 10
  BY DEF CleanupOrder
<1>5. ASSUME NEW i \in 1..9
      PROVE  Uses[Acquisitions[i]] \subseteq {Acquisitions[j] : j \in 1..i - 1}
  <2>1. CASE i \notin {6, 8, 9}
    BY <1>1, <1>2, <1>3, <2>1
  <2>2. CASE i = 6
    BY <1>1, <1>3, <2>2
  <2>3. CASE i = 8
    BY <1>1, <1>3, <2>3
  <2>4. CASE i = 9
    BY <1>1, <1>3, <2>4
  <2>. QED
    BY <2>1, <2>2, <2>3, <2>4
<1>6. \A o \in Owners : CleanupOrder[o] \in Nat /\
        \A p \in Uses[o] : CleanupOrder[p] \in Nat /\ CleanupOrder[o] < CleanupOrder[p]
  BY <1>2, <1>3, <1>4
<1>. QED
  BY <1>1, <1>5, <1>6

(* The step that is walked is used by nobody who is still to be walked.    *)
LEMMA NextStepIsFree ==
  ASSUME NEW S \in SUBSET Owners, S # {}
  PROVE  NextStep(S) \in S /\ \A o \in S : NextStep(S) \notin Uses[o]
<1>. DEFINE N == {CleanupOrder[o] : o \in S}
<1>1. N \subseteq Nat /\ N # {}
  BY UsesAreOlder
<1>2. PICK n \in N : \A m \in N : <<m, n>> \notin OpToRel(<, Nat)
  BY <1>1, WFMin, NatLessThanWellFounded
<1>3. \A m \in N : n <= m
  <2>. HIDE DEF N
  <2>1. \A m \in N : ~(m < n)
    BY <1>1, <1>2 DEF OpToRel
  <2>2. n \in Nat /\ \A m \in N : m \in Nat
    BY <1>1
  <2>. QED
    BY <2>1, <2>2
<1>4. \E o \in S : \A p \in S : CleanupOrder[o] <= CleanupOrder[p]
  BY <1>3
<1>5. NextStep(S) \in S /\ \A p \in S : CleanupOrder[NextStep(S)] <= CleanupOrder[p]
  BY <1>4 DEF NextStep
<1>. QED
  BY <1>5, UsesAreOlder

(* What a walk has left is what is held, and whoever is held can use what  *)
(* it was handed.                                                          *)
OwnersInv ==
  /\ held \subseteq Owners /\ \A o \in held : Uses[o] \subseteq held
  /\ acquiring \in {"none", "rejected"} => held = {}
  /\ acquiring = "pending" => startup \in {"building", "rollingBack"}
  /\ startup = "rollingBack" => cleanup = held
  /\ acquiring \in {"none", "rejected", "runtime"} /\ quitting \notin {"no", "awaiting", "disposing"}
       => cleanup = held
  /\ acquiring \in {"none", "rejected"} => cleanup = {}
  /\ acquiring \in {"none", "pending", "rejected", "runtime"}
  /\ quitting \in {"logging", "allowed", "exited"} => held = {}
  /\ coreIpc = "registered" => quitting \in {"no", "awaiting", "disposing"}
  /\ quitting = "exited" => ~window

LEMMA OwnersStart == LifeInit => OwnersInv
  BY DEF LifeInit, OwnersInv

LEMMA OwnersStep ==
  ASSUME RuntimeInv, OwnersInv, [LifeNext]_lifeVars PROVE OwnersInv'
<1>. USE DEF OwnersInv, shutdownRequested, BeginQuit, CreateWindow, ShowWindow, WindowFails
<1>1. CASE Ready
  BY <1>1 DEF Ready
<1>2. CASE AcquireNext
  <2>. DEFINE n == acquired + 1
  <2>1. n \in 1..Len(Acquisitions) /\ held = {Acquisitions[j] : j \in 1..n - 1}
        /\ held' = held \cup {Acquisitions[n]}
    BY <1>2 DEF AcquireNext, RuntimeInv, Made
  <2>. HIDE DEF n
  <2>2. Acquisitions[n] \in Owners /\ Uses[Acquisitions[n]] \subseteq held
    BY <2>1, UsesAreOlder DEF Owners
  <2>3. held' \subseteq Owners /\ \A o \in held' : Uses[o] \subseteq held'
    BY <2>1, <2>2
  <2>. QED
    BY <1>2, <2>3 DEF AcquireNext, RuntimeInv
<1>3. CASE BuildFails
  BY <1>3 DEF BuildFails, RuntimeInv
<1>4. CASE RolledBack
  BY <1>4 DEF RolledBack, RuntimeInv
<1>5. CASE BuildEnds
  BY <1>5 DEF BuildEnds, RuntimeInv
<1>6. CASE ShowFirst
  BY <1>6 DEF ShowFirst
<1>7. CASE CloseNext
  <2>. DEFINE o == NextStep(cleanup)
  <2>1. cleanup # {} /\ held' = held \ {o} /\ cleanup' = cleanup \ {o}
        /\ UNCHANGED <<startup, acquiring, acquired, quitting, window, loads, windows, coreIpc>>
    BY <1>7 DEF CloseNext, SettleNext
  <2>2. cleanup = held
    BY <2>1 DEF RuntimeInv
  <2>3. o \in held /\ \A u \in held : o \notin Uses[u]
    BY <2>1, <2>2, NextStepIsFree
  <2>. HIDE DEF o
  <2>. QED
    BY <2>1, <2>2, <2>3
<1>8. CASE LoadSettles
  BY <1>8 DEF LoadSettles
<1>9. CASE WindowClosed
  BY <1>9 DEF WindowClosed
<1>10. CASE Activate
  BY <1>10 DEF Activate
<1>11. CASE QuitRequested
  BY <1>11 DEF QuitRequested
<1>12. CASE AwaitAcquisition
  BY <1>12 DEF AwaitAcquisition
<1>13. CASE DisposeIpc
  BY <1>13 DEF DisposeIpc, RuntimeInv
<1>14. CASE RuntimeClosed \/ LoggerClosed \/ ExitProcess
  BY <1>14 DEF RuntimeClosed, LoggerClosed, ExitProcess, RuntimeInv
<1>15. CASE UNCHANGED lifeVars
  BY <1>15 DEF lifeVars
<1>. QED
  BY <1>1, <1>2, <1>3, <1>4, <1>5, <1>6, <1>7, <1>8, <1>9, <1>10, <1>11, <1>12, <1>13, <1>14, <1>15
     DEF LifeNext, LifeMoves, LifeOver

(* For every failure, quit and close: nobody who is still held has lost an *)
(* owner it was handed, and a process that exits leaves nothing behind.    *)
THEOREM OwnersAlwaysOutliveUsers == LifeSpec => []OwnersOutliveUsers
<1>1. RuntimeInv /\ OwnersInv /\ [LifeNext]_lifeVars => RuntimeInv' /\ OwnersInv'
  BY LifeSteps, OwnersStep
<1>2. OwnersInv => OwnersOutliveUsers
  BY DEF OwnersInv, OwnersOutliveUsers
<1>. QED
  BY <1>1, <1>2, LifeStarts, OwnersStart, PTL DEF LifeSpec
=============================================================================
