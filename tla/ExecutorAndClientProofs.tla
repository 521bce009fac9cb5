---------------------- MODULE ExecutorAndClientProofs ----------------------
(***************************************************************************)
(* The executor and the native helper's client, for any number of          *)
(* operations, names, destinations, cores, calls, crashes and faults.      *)
(*                                                                         *)
(* First the same-device move of one file (MoveArrives and NothingReplaced *)
(* of FastMove): where a file is (PlaceInv), what a call that has come so  *)
(* far may rely on (CallInv), what its record says by then (RecordInv),    *)
(* and what a record or a report promises (PromiseInv).  Then the cache of *)
(* cores the executor works with (CoresHold of ExecutorCores).             *)
(*                                                                         *)
(* Then what a caller of the native helper is told stays true: proofs      *)
(* about HelperClient.  A step of the client alone leaves the pipes and    *)
(* the helper as they are (ClientStep says what it may then do); a step    *)
(* that moves something through the pipes relies on there being one        *)
(* request on its way at most.  CloseIsLast and AnswersWin add the order   *)
(* of the queue: whoever waits is in it, close is behind everybody, and    *)
(* once close has left it nothing else is on its way.                      *)
(***************************************************************************)
EXTENDS FastMove, ExecutorCores, HelperClient, SequenceTheorems, FiniteSetTheorems, TLAPS

(* The steps of a call after its rename, and those before any record.      *)
Moved      == {"renamed", "planned", "reserved", "committed", "unmark", "completed"}
Unrecorded == {"idle", "rename", "renamed", "planned", "catch"}
RecordStates == {"none", "planned", "reserved", "committed", "completed", "cancelled", "failed"}
Records == [state : RecordStates, committed : BOOLEAN,
            dest : Names \cup {NoName}, rsv : Names \cup {NoName}]

(* Every variable keeps its type.                                          *)
MoveTypeOK ==
  /\ atPath \subseteq Ops
  /\ dst \in [Names -> Ops \cup {NoOp, Foreign}]
  /\ marker \in [Names -> Ops \cup {NoOp}]
  /\ rec \in [Ops -> Records]
  /\ up \in BOOLEAN
  /\ pc \in [Ops -> Moved \cup Unrecorded \cup {"done", "dead"}]
  /\ cand \in [Ops -> Names \cup {NoName}]
  /\ out \in [Ops -> [outcome : {"none", "committed", "cancelled", "failed"},
                     retained : BOOLEAN]]

PlaceInv ==
  \A o \in Ops :
    /\ o \in atPath => \A n \in Names : dst[n] # o
    /\ o \notin atPath => \E n \in Names : dst[n] = o
    /\ \A m, n \in Names : dst[m] = o /\ dst[n] = o => m = n

CallInv ==
  \A o \in Ops :
    /\ pc[o] = "rename" => cand[o] \in Names
    /\ pc[o] \in Moved => cand[o] \in Names /\ dst[cand[o]] = o
    /\ ~up => pc[o] \in {"idle", "dead"}

RecordInv ==
  \A o \in Ops :
    /\ pc[o] \in Unrecorded => rec[o].state = "none"
    /\ pc[o] = "reserved" => rec[o].state = "planned"
    /\ pc[o] = "committed" => rec[o].state = "reserved" /\ rec[o].dest = cand[o]
    /\ pc[o] \in {"unmark", "completed"} => rec[o].state = "committed" /\ rec[o].dest = cand[o]

PromiseInv ==
  \A o \in Ops :
    /\ rec[o].state = "completed" => rec[o].dest \in Names /\ dst[rec[o].dest] = o
    /\ out[o].outcome = "committed" => rec[o].state = "completed"

MoveInv == MoveTypeOK /\ PlaceInv /\ CallInv /\ RecordInv /\ PromiseInv

LEMMA NoNameIsNone == NoName \notin Names /\ NoOp \notin Ops /\ Foreign \notin Ops
  BY NobodyAssumption, BoundsAssumption DEF Names, NoName

USE NoNameIsNone

LEMMA MoveStarts == MoveInit => MoveInv
  BY DEF MoveInit, MoveInv, MoveTypeOK, PlaceInv, CallInv, RecordInv, PromiseInv, Moved,
         Unrecorded, RecordStates, Records, NoRecord, NoReport

(* A record that is appended has its type.                                 *)
LEMMA RecordIsTyped ==
  ASSUME NEW r \in Records, NEW s \in RecordStates, NEW b \in BOOLEAN, NEW n \in Names
  PROVE  /\ [r EXCEPT !.state = s] \in Records
         /\ [r EXCEPT !.state = s, !.committed = b] \in Records
         /\ [r EXCEPT !.state = s, !.dest = n, !.rsv = n] \in Records
  BY DEF Records

(* The invariant is enough.                                                *)
LEMMA MoveEnough == MoveInv => MoveArrives
<1>. SUFFICES ASSUME MoveInv PROVE MoveArrives
  OBVIOUS
<1>1. ASSUME NEW o \in Ops
      PROVE  Cardinality({n \in Names : dst[n] = o}) = IF o \in atPath THEN 0 ELSE 1
  <2>1. CASE o \in atPath
    <3>1. {n \in Names : dst[n] = o} = {}
      BY <2>1 DEF MoveInv, PlaceInv
    <3>. QED
      BY <2>1, <3>1, FS_EmptySet
  <2>2. CASE o \notin atPath
    <3>1. PICK n \in Names : dst[n] = o
      BY <2>2 DEF MoveInv, PlaceInv
    <3>2. {m \in Names : dst[m] = o} = {n}
      BY <3>1 DEF MoveInv, PlaceInv
    <3>. QED
      BY <2>2, <3>2, FS_Singleton
  <2>. QED
    BY <2>1, <2>2
<1>. QED
  BY <1>1 DEF MoveInv, PromiseInv, MoveArrives, ExactlyOnePlace, ArrivedWhenRecorded

(* No step breaks the invariant, replaces a file, or revises an ended      *)
(* record: one step of the proof per action.                               *)
Kept ==
  /\ \A n \in Names : dst[n] # NoOp => dst'[n] = dst[n]
  /\ \A o \in Ops : rec[o].state \in {"completed", "cancelled", "failed"} => rec'[o] = rec[o]

LEMMA MoveSteps == MoveInv /\ [MoveNext]_moveVars => MoveInv' /\ Kept
<1>. SUFFICES ASSUME MoveInv, [MoveNext]_moveVars PROVE MoveInv' /\ Kept
  OBVIOUS
<1>. USE DEF MoveInv, MoveTypeOK, Moved, Unrecorded, RecordStates, Records, disk, call, life, At, Goto, Report, Unmarked, Journal
<1>1. ASSUME NEW o \in Ops, Reserve(o) PROVE MoveInv' /\ Kept
  <2>1. MoveTypeOK'
    <3>1. (atPath \subseteq Ops)'
      BY <1>1 DEF Reserve, Free
    <3>2. (dst \in [Names -> Ops \cup {NoOp, Foreign}])'
      BY <1>1 DEF Reserve, Free
    <3>3. (marker \in [Names -> Ops \cup {NoOp}])'
      BY <1>1 DEF Reserve, Free
    <3>4. (rec \in [Ops -> Records])'
      BY <1>1 DEF Reserve, Free
    <3>5. (up \in BOOLEAN)'
      BY <1>1 DEF Reserve, Free
    <3>6. (pc \in [Ops -> Moved \cup Unrecorded \cup {"done", "dead"}])'
      BY <1>1 DEF Reserve, Free
    <3>7. (cand \in [Ops -> Names \cup {NoName}])'
      BY <1>1 DEF Reserve, Free
    <3>8. (out \in [Ops -> [outcome : {"none", "committed", "cancelled", "failed"}, retained : BOOLEAN]])'
      BY <1>1 DEF Reserve, Free
    <3>. QED
      BY <3>1, <3>2, <3>3, <3>4, <3>5, <3>6, <3>7, <3>8
  <2>2. PlaceInv'
    BY <1>1 DEF Reserve, Free, PlaceInv
  <2>3. CallInv'
    BY <1>1 DEF Reserve, Free, CallInv
  <2>4. RecordInv'
    BY <1>1 DEF Reserve, Free, RecordInv
  <2>5. PromiseInv'
    BY <1>1 DEF Reserve, Free, PromiseInv
  <2>6. Kept
    BY <1>1 DEF Reserve, Free, Kept
  <2>. QED
    BY <2>1, <2>2, <2>3, <2>4, <2>5, <2>6
<1>2. ASSUME NEW o \in Ops, CancelledAfterReserve(o) PROVE MoveInv' /\ Kept
  <2>1. MoveTypeOK'
    BY <1>2 DEF CancelledAfterReserve
  <2>2. PlaceInv'
    BY <1>2 DEF CancelledAfterReserve, PlaceInv
  <2>3. CallInv'
    BY <1>2 DEF CancelledAfterReserve, CallInv
  <2>4. RecordInv'
    BY <1>2 DEF CancelledAfterReserve, RecordInv
  <2>5. PromiseInv'
    BY <1>2 DEF CancelledAfterReserve, PromiseInv
  <2>6. Kept
    BY <1>2 DEF CancelledAfterReserve, Kept
  <2>. QED
    BY <2>1, <2>2, <2>3, <2>4, <2>5, <2>6
<1>3. ASSUME NEW o \in Ops, Rename(o) PROVE MoveInv' /\ Kept
  <2>1. MoveTypeOK'
    <3>1. (atPath \subseteq Ops)'
      BY <1>3 DEF Rename
    <3>2. (dst \in [Names -> Ops \cup {NoOp, Foreign}])'
      BY <1>3 DEF Rename
    <3>3. (marker \in [Names -> Ops \cup {NoOp}])'
      BY <1>3 DEF Rename
    <3>4. (rec \in [Ops -> Records])'
      BY <1>3 DEF Rename
    <3>5. (up \in BOOLEAN)'
      BY <1>3 DEF Rename
    <3>6. (pc \in [Ops -> Moved \cup Unrecorded \cup {"done", "dead"}])'
      BY <1>3 DEF Rename
    <3>7. (cand \in [Ops -> Names \cup {NoName}])'
      BY <1>3 DEF Rename
    <3>8. (out \in [Ops -> [outcome : {"none", "committed", "cancelled", "failed"}, retained : BOOLEAN]])'
      BY <1>3 DEF Rename
    <3>. QED
      BY <3>1, <3>2, <3>3, <3>4, <3>5, <3>6, <3>7, <3>8
  <2>2. PlaceInv'
    <3>1. CASE dst' = dst /\ atPath' = atPath
      BY <3>1 DEF PlaceInv
    <3>2. CASE /\ o \in atPath /\ cand[o] \in Names /\ dst[cand[o]] = NoOp
               /\ dst' = [dst EXCEPT ![cand[o]] = o] /\ atPath' = atPath \ {o}
      BY <3>2 DEF PlaceInv
    <3>. QED
      BY <1>3, <3>1, <3>2 DEF Rename, CallInv
  <2>3. CallInv'
    BY <1>3 DEF Rename, CallInv
  <2>4. RecordInv'
    BY <1>3 DEF Rename, RecordInv
  <2>5. PromiseInv'
    BY <1>3 DEF Rename, PromiseInv
  <2>6. Kept
    BY <1>3 DEF Rename, Kept
  <2>. QED
    BY <2>1, <2>2, <2>3, <2>4, <2>5, <2>6
<1>4. ASSUME NEW o \in Ops, LoseHelper(o) PROVE MoveInv' /\ Kept
  <2>1. MoveTypeOK'
    BY <1>4 DEF LoseHelper
  <2>2. PlaceInv'
    BY <1>4 DEF LoseHelper, PlaceInv, CallInv
  <2>3. CallInv'
    BY <1>4 DEF LoseHelper, CallInv
  <2>4. RecordInv'
    BY <1>4 DEF LoseHelper, RecordInv
  <2>5. PromiseInv'
    BY <1>4 DEF LoseHelper, PromiseInv
  <2>6. Kept
    BY <1>4 DEF LoseHelper, Kept
  <2>. QED
    BY <2>1, <2>2, <2>3, <2>4, <2>5, <2>6
<1>5. ASSUME NEW o \in Ops, Verify(o) PROVE MoveInv' /\ Kept
  <2>1. MoveTypeOK'
    BY <1>5 DEF Verify
  <2>2. PlaceInv'
    BY <1>5 DEF Verify, PlaceInv
  <2>3. CallInv'
    BY <1>5 DEF Verify, CallInv
  <2>4. RecordInv'
    BY <1>5 DEF Verify, RecordInv
  <2>5. PromiseInv'
    BY <1>5 DEF Verify, PromiseInv
  <2>6. Kept
    BY <1>5 DEF Verify, Kept
  <2>. QED
    BY <2>1, <2>2, <2>3, <2>4, <2>5, <2>6
<1>6. ASSUME NEW o \in Ops, RecordPlanned(o) PROVE MoveInv' /\ Kept
  <2>1. MoveTypeOK'
    <3>1. (atPath \subseteq Ops)'
      BY <1>6 DEF RecordPlanned
    <3>2. (dst \in [Names -> Ops \cup {NoOp, Foreign}])'
      BY <1>6 DEF RecordPlanned
    <3>3. (marker \in [Names -> Ops \cup {NoOp}])'
      BY <1>6 DEF RecordPlanned
    <3>4. (rec \in [Ops -> Records])'
      <4>1. rec[o] \in Records
        OBVIOUS
      <4>. HIDE DEF Records
      <4>2. rec' = [rec EXCEPT ![o] = [rec[o] EXCEPT !.state = "planned"]]
        BY <1>6 DEF RecordPlanned
      <4>3. [rec[o] EXCEPT !.state = "planned"] \in Records
        BY <1>6, <4>1, RecordIsTyped DEF RecordPlanned, CallInv
      <4>. QED
        BY <4>2, <4>3
    <3>5. (up \in BOOLEAN)'
      BY <1>6 DEF RecordPlanned
    <3>6. (pc \in [Ops -> Moved \cup Unrecorded \cup {"done", "dead"}])'
      BY <1>6 DEF RecordPlanned
    <3>7. (cand \in [Ops -> Names \cup {NoName}])'
      BY <1>6 DEF RecordPlanned
    <3>8. (out \in [Ops -> [outcome : {"none", "committed", "cancelled", "failed"}, retained : BOOLEAN]])'
      BY <1>6 DEF RecordPlanned
    <3>. QED
      BY <3>1, <3>2, <3>3, <3>4, <3>5, <3>6, <3>7, <3>8
  <2>2. PlaceInv'
    BY <1>6 DEF RecordPlanned, PlaceInv
  <2>3. CallInv'
    BY <1>6 DEF RecordPlanned, CallInv
  <2>4. RecordInv'
    BY <1>6 DEF RecordPlanned, RecordInv
  <2>5. PromiseInv'
    BY <1>6 DEF RecordPlanned, PromiseInv, RecordInv
  <2>6. Kept
    BY <1>6 DEF RecordPlanned, Kept, RecordInv
  <2>. QED
    BY <2>1, <2>2, <2>3, <2>4, <2>5, <2>6
<1>7. ASSUME NEW o \in Ops, RecordReserved(o) PROVE MoveInv' /\ Kept
  <2>1. MoveTypeOK'
    <3>1. (atPath \subseteq Ops)'
      BY <1>7 DEF RecordReserved
    <3>2. (dst \in [Names -> Ops \cup {NoOp, Foreign}])'
      BY <1>7 DEF RecordReserved
    <3>3. (marker \in [Names -> Ops \cup {NoOp}])'
      BY <1>7 DEF RecordReserved
    <3>4. (rec \in [Ops -> Records])'
      <4>1. rec[o] \in Records
        OBVIOUS
      <4>. HIDE DEF Records
      <4>2. rec' = [rec EXCEPT ![o] = [rec[o] EXCEPT !.state = "reserved", !.dest = cand[o], !.rsv = cand[o]]]
        BY <1>7 DEF RecordReserved
      <4>3. [rec[o] EXCEPT !.state = "reserved", !.dest = cand[o], !.rsv = cand[o]] \in Records
        BY <1>7, <4>1, RecordIsTyped DEF RecordReserved, CallInv
      <4>. QED
        BY <4>2, <4>3
    <3>5. (up \in BOOLEAN)'
      BY <1>7 DEF RecordReserved
    <3>6. (pc \in [Ops -> Moved \cup Unrecorded \cup {"done", "dead"}])'
      BY <1>7 DEF RecordReserved
    <3>7. (cand \in [Ops -> Names \cup {NoName}])'
      BY <1>7 DEF RecordReserved
    <3>8. (out \in [Ops -> [outcome : {"none", "committed", "cancelled", "failed"}, retained : BOOLEAN]])'
      BY <1>7 DEF RecordReserved
    <3>. QED
      BY <3>1, <3>2, <3>3, <3>4, <3>5, <3>6, <3>7, <3>8
  <2>2. PlaceInv'
    BY <1>7 DEF RecordReserved, PlaceInv
  <2>3. CallInv'
    BY <1>7 DEF RecordReserved, CallInv
  <2>4. RecordInv'
    BY <1>7 DEF RecordReserved, RecordInv
  <2>5. PromiseInv'
    BY <1>7 DEF RecordReserved, PromiseInv, RecordInv
  <2>6. Kept
    BY <1>7 DEF RecordReserved, Kept, RecordInv
  <2>. QED
    BY <2>1, <2>2, <2>3, <2>4, <2>5, <2>6
<1>8. ASSUME NEW o \in Ops, RecordCommitted(o) PROVE MoveInv' /\ Kept
  <2>1. MoveTypeOK'
    <3>1. (atPath \subseteq Ops)'
      BY <1>8 DEF RecordCommitted
    <3>2. (dst \in [Names -> Ops \cup {NoOp, Foreign}])'
      BY <1>8 DEF RecordCommitted
    <3>3. (marker \in [Names -> Ops \cup {NoOp}])'
      BY <1>8 DEF RecordCommitted
    <3>4. (rec \in [Ops -> Records])'
      <4>1. rec[o] \in Records
        OBVIOUS
      <4>. HIDE DEF Records
      <4>2. rec' = [rec EXCEPT ![o] = [rec[o] EXCEPT !.state = "committed", !.committed = TRUE]]
        BY <1>8 DEF RecordCommitted
      <4>3. [rec[o] EXCEPT !.state = "committed", !.committed = TRUE] \in Records
        BY <1>8, <4>1, RecordIsTyped DEF RecordCommitted, CallInv
      <4>. QED
        BY <4>2, <4>3
    <3>5. (up \in BOOLEAN)'
      BY <1>8 DEF RecordCommitted
    <3>6. (pc \in [Ops -> Moved \cup Unrecorded \cup {"done", "dead"}])'
      BY <1>8 DEF RecordCommitted
    <3>7. (cand \in [Ops -> Names \cup {NoName}])'
      BY <1>8 DEF RecordCommitted
    <3>8. (out \in [Ops -> [outcome : {"none", "committed", "cancelled", "failed"}, retained : BOOLEAN]])'
      BY <1>8 DEF RecordCommitted
    <3>. QED
      BY <3>1, <3>2, <3>3, <3>4, <3>5, <3>6, <3>7, <3>8
  <2>2. PlaceInv'
    BY <1>8 DEF RecordCommitted, PlaceInv
  <2>3. CallInv'
    BY <1>8 DEF RecordCommitted, CallInv
  <2>4. RecordInv'
    BY <1>8 DEF RecordCommitted, RecordInv
  <2>5. PromiseInv'
    BY <1>8 DEF RecordCommitted, PromiseInv, RecordInv
  <2>6. Kept
    BY <1>8 DEF RecordCommitted, Kept, RecordInv
  <2>. QED
    BY <2>1, <2>2, <2>3, <2>4, <2>5, <2>6
<1>9. ASSUME NEW o \in Ops, Unmark(o) PROVE MoveInv' /\ Kept
  <2>1. MoveTypeOK'
    BY <1>9 DEF Unmark
  <2>2. PlaceInv'
    BY <1>9 DEF Unmark, PlaceInv
  <2>3. CallInv'
    BY <1>9 DEF Unmark, CallInv
  <2>4. RecordInv'
    BY <1>9 DEF Unmark, RecordInv
  <2>5. PromiseInv'
    BY <1>9 DEF Unmark, PromiseInv
  <2>6. Kept
    BY <1>9 DEF Unmark, Kept
  <2>. QED
    BY <2>1, <2>2, <2>3, <2>4, <2>5, <2>6
<1>10. ASSUME NEW o \in Ops, RecordCompleted(o) PROVE MoveInv' /\ Kept
  <2>1. MoveTypeOK'
    <3>1. (atPath \subseteq Ops)'
      BY <1>10 DEF RecordCompleted
    <3>2. (dst \in [Names -> Ops \cup {NoOp, Foreign}])'
      BY <1>10 DEF RecordCompleted
    <3>3. (marker \in [Names -> Ops \cup {NoOp}])'
      BY <1>10 DEF RecordCompleted
    <3>4. (rec \in [Ops -> Records])'
      <4>1. rec[o] \in Records
        OBVIOUS
      <4>. HIDE DEF Records
      <4>2. rec' = [rec EXCEPT ![o] = [rec[o] EXCEPT !.state = "completed"]]
        BY <1>10 DEF RecordCompleted
      <4>3. [rec[o] EXCEPT !.state = "completed"] \in Records
        BY <1>10, <4>1, RecordIsTyped DEF RecordCompleted, CallInv
      <4>. QED
        BY <4>2, <4>3
    <3>5. (up \in BOOLEAN)'
      BY <1>10 DEF RecordCompleted
    <3>6. (pc \in [Ops -> Moved \cup Unrecorded \cup {"done", "dead"}])'
      BY <1>10 DEF RecordCompleted
    <3>7. (cand \in [Ops -> Names \cup {NoName}])'
      BY <1>10 DEF RecordCompleted
    <3>8. (out \in [Ops -> [outcome : {"none", "committed", "cancelled", "failed"}, retained : BOOLEAN]])'
      BY <1>10 DEF RecordCompleted
    <3>. QED
      BY <3>1, <3>2, <3>3, <3>4, <3>5, <3>6, <3>7, <3>8
  <2>2. PlaceInv'
    BY <1>10 DEF RecordCompleted, PlaceInv
  <2>3. CallInv'
    BY <1>10 DEF RecordCompleted, CallInv
  <2>4. RecordInv'
    BY <1>10 DEF RecordCompleted, RecordInv
  <2>5. PromiseInv'
    BY <1>10 DEF RecordCompleted, PromiseInv, RecordInv, CallInv
  <2>6. Kept
    BY <1>10 DEF RecordCompleted, Kept, RecordInv
  <2>. QED
    BY <2>1, <2>2, <2>3, <2>4, <2>5, <2>6
<1>11. ASSUME NEW o \in Ops, Catch(o) PROVE MoveInv' /\ Kept
  <2>1. MoveTypeOK'
    <3>1. (atPath \subseteq Ops)'
      BY <1>11 DEF Catch
    <3>2. (dst \in [Names -> Ops \cup {NoOp, Foreign}])'
      BY <1>11 DEF Catch
    <3>3. (marker \in [Names -> Ops \cup {NoOp}])'
      BY <1>11 DEF Catch
    <3>4. (rec \in [Ops -> Records])'
      <4>1. rec[o] \in Records
        OBVIOUS
      <4>2. CASE UNCHANGED rec
        BY <4>2
      <4>3. CASE rec' # rec
        <5>1. PICK s \in RecordStates :
                rec' = [rec EXCEPT ![o] = [rec[o] EXCEPT !.state = s, !.committed = FALSE]]
          BY <1>11, <4>3 DEF Catch
        <5>2. 0 \in Names
          BY BoundsAssumption DEF Names
        <5>. HIDE DEF Records
        <5>3. [rec[o] EXCEPT !.state = s, !.committed = FALSE] \in Records
          BY <4>1, <5>2, RecordIsTyped
        <5>. QED
          BY <5>1, <5>3
      <4>. QED
        BY <4>2, <4>3
    <3>5. (up \in BOOLEAN)'
      BY <1>11 DEF Catch
    <3>6. (pc \in [Ops -> Moved \cup Unrecorded \cup {"done", "dead"}])'
      BY <1>11 DEF Catch
    <3>7. (cand \in [Ops -> Names \cup {NoName}])'
      BY <1>11 DEF Catch
    <3>8. (out \in [Ops -> [outcome : {"none", "committed", "cancelled", "failed"}, retained : BOOLEAN]])'
      BY <1>11 DEF Catch
    <3>. QED
      BY <3>1, <3>2, <3>3, <3>4, <3>5, <3>6, <3>7, <3>8
  <2>2. PlaceInv'
    BY <1>11 DEF Catch, PlaceInv
  <2>3. CallInv'
    BY <1>11 DEF Catch, CallInv
  <2>4. RecordInv'
    BY <1>11 DEF Catch, RecordInv
  <2>5. PromiseInv'
    <3>1. rec[o].state = "none" /\ rec'[o].state \in {"none", "cancelled", "failed"}
      <4>1. rec[o].state = "none"
        BY <1>11 DEF Catch, RecordInv
      <4>2. rec[o] \in Records /\ DOMAIN rec = Ops
        BY DEF MoveTypeOK
      <4>3. CASE UNCHANGED rec
        BY <4>1, <4>3
      <4>4. ASSUME NEW s, s \in {"cancelled", "failed"},
                   rec' = [rec EXCEPT ![o] = [rec[o] EXCEPT !.state = s, !.committed = FALSE]]
            PROVE  rec'[o].state = s
        BY <4>2, <4>4
      <4>. QED
        BY <1>11, <4>1, <4>3, <4>4 DEF Catch
    <3>2. UNCHANGED dst /\ \A p \in Ops : p # o => rec'[p] = rec[p] /\ out'[p] = out[p]
      BY <1>11 DEF Catch
    <3>3. out'[o].outcome \in {"cancelled", "failed"}
      BY <1>11 DEF Catch
    <3>. QED
      BY <3>1, <3>2, <3>3 DEF PromiseInv
  <2>6. Kept
    BY <1>11 DEF Catch, Kept, RecordInv
  <2>. QED
    BY <2>1, <2>2, <2>3, <2>4, <2>5, <2>6
<1>12. ASSUME NEW o \in Ops, Cancel(o) PROVE MoveInv' /\ Kept
  <2>1. MoveTypeOK'
    BY <1>12 DEF Cancel
  <2>2. PlaceInv'
    BY <1>12 DEF Cancel, PlaceInv
  <2>3. CallInv'
    BY <1>12 DEF Cancel, CallInv
  <2>4. RecordInv'
    BY <1>12 DEF Cancel, RecordInv
  <2>5. PromiseInv'
    BY <1>12 DEF Cancel, PromiseInv
  <2>6. Kept
    BY <1>12 DEF Cancel, Kept
  <2>. QED
    BY <2>1, <2>2, <2>3, <2>4, <2>5, <2>6
<1>13. ASSUME Save PROVE MoveInv' /\ Kept
  <2>1. MoveTypeOK'
    BY <1>13 DEF Save
  <2>2. PlaceInv'
    BY <1>13 DEF Save, PlaceInv
  <2>3. CallInv'
    BY <1>13 DEF Save, CallInv
  <2>4. RecordInv'
    BY <1>13 DEF Save, RecordInv
  <2>5. PromiseInv'
    BY <1>13 DEF Save, PromiseInv
  <2>6. Kept
    BY <1>13 DEF Save, Kept
  <2>. QED
    BY <2>1, <2>2, <2>3, <2>4, <2>5, <2>6
<1>14. ASSUME Crash PROVE MoveInv' /\ Kept
  <2>1. MoveTypeOK'
    BY <1>14 DEF Crash
  <2>2. PlaceInv'
    BY <1>14 DEF Crash, PlaceInv
  <2>3. CallInv'
    BY <1>14 DEF Crash, CallInv
  <2>4. RecordInv'
    BY <1>14 DEF Crash, RecordInv
  <2>5. PromiseInv'
    BY <1>14 DEF Crash, PromiseInv
  <2>6. Kept
    BY <1>14 DEF Crash, Kept
  <2>. QED
    BY <2>1, <2>2, <2>3, <2>4, <2>5, <2>6
<1>15. ASSUME Reopen PROVE MoveInv' /\ Kept
  <2>1. MoveTypeOK'
    <3>1. (rec \in [Ops -> Records])'
      <4>1. \A o \in Ops : rec[o] \in Records
        OBVIOUS
      <4>2. rec' = [o \in Ops |-> Recovered(o)]
        BY <1>15 DEF Reopen
      <4>0. 0 \in Names /\ "cancelled" \in RecordStates
        BY BoundsAssumption DEF Names
      <4>. HIDE DEF Records
      <4>3. \A o \in Ops : Recovered(o) \in Records
        BY <4>0, <4>1, RecordIsTyped DEF Recovered
      <4>. QED
        BY <4>2, <4>3
    <3>2. (marker \in [Names -> Ops \cup {NoOp}])'
      BY <1>15 DEF Reopen
    <3>. QED
      BY <1>15, <3>1, <3>2 DEF Reopen
  <2>2. PlaceInv'
    BY <1>15 DEF Reopen, Recovered, PlaceInv
  <2>3. CallInv'
    BY <1>15 DEF Reopen, Recovered, CallInv
  <2>4. RecordInv'
    BY <1>15 DEF Reopen, Recovered, RecordInv, CallInv
  <2>5. PromiseInv'
    BY <1>15 DEF Reopen, Recovered, PromiseInv
  <2>6. Kept
    BY <1>15 DEF Reopen, Recovered, Kept
  <2>. QED
    BY <2>1, <2>2, <2>3, <2>4, <2>5, <2>6
<1>16. CASE UNCHANGED moveVars
  BY <1>16 DEF moveVars, PlaceInv, CallInv, RecordInv, PromiseInv, Kept
<1>. QED
  BY <1>1, <1>2, <1>3, <1>4, <1>5, <1>6, <1>7, <1>8, <1>9, <1>10, <1>11, <1>12, <1>13, <1>14, <1>15, <1>16 DEF MoveNext, Execute

(* A move leaves its file in exactly one place, and what its record or its *)
(* report says has arrived.                                                *)
THEOREM MovesArrive == MoveSpec => []MoveArrives
<1>1. MoveSpec => []MoveInv
  BY MoveStarts, MoveSteps, PTL DEF MoveSpec
<1>. QED
  BY <1>1, MoveEnough, PTL

(* No step replaces a file, and none revises the record of a move that had *)
(* ended.                                                                  *)
THEOREM MovesReplaceNothing == MoveSpec => NothingReplaced
<1>1. MoveSpec => []MoveInv
  BY MoveStarts, MoveSteps, PTL DEF MoveSpec
<1>2. MoveInv /\ [MoveNext]_moveVars => [Kept]_moveVars
  BY MoveSteps
<1>. QED
  BY <1>1, <1>2, PTL DEF MoveSpec, NothingReplaced, Kept

-----------------------------------------------------------------------------
(***************************************************************************)
(* The cores.  The invariant says how the cache, the cores and the         *)
(* operations hang together: a core is in the cache from its creation to   *)
(* the end of the process unless its creation failed, and whoever waits    *)
(* for a core or runs on it finds it there.                                *)
(***************************************************************************)
Over == {"unborn", "failed"}

(* Every variable keeps its type.                                          *)
ExecutorTypeOK ==
  /\ orderAt \in [Orders -> {"new", "checking", "waiting", "running", "done", "failed"}]
  /\ target \in [Orders -> Bindings]
  /\ orderCore \in [Orders -> Cores \cup {NoCore}]
  /\ cores \in [Destinations -> Cores \cup {NoCore}]
  /\ coreAt \in [Cores -> {"unborn", "creating", "open", "closing", "closed", "failed", "stuck"}]
  /\ bound \in [Cores -> Bindings \cup {<<>>}]
  /\ writerAt \in {"open", "closing", "closed", "stuck"}
  /\ closeAt \in {"no", "draining", "closing", "resolved", "rejected"}

(* A core that lives, or lived to be closed, is cached at its destination, *)
(* and nothing else is.                                                    *)
CacheInv ==
  /\ \A c \in Cores : coreAt[c] \notin Over =>
       bound[c] \in Bindings /\ cores[bound[c][1]] = c
  /\ \A d \in Destinations : cores[d] # NoCore =>
       coreAt[cores[d]] \notin Over /\ bound[cores[d]][1] = d

(* Whoever waits or runs does so on the cached core of its target, and a   *)
(* core in creation has someone who waits for it.                          *)
CoreOrderInv ==
  /\ \A o \in Orders : orderAt[o] \in {"waiting", "running"} =>
       /\ orderCore[o] \in Cores /\ bound[orderCore[o]] = target[o]
       /\ coreAt[orderCore[o]] \notin Over
  /\ \A o \in Orders : orderAt[o] = "running" => coreAt[orderCore[o]] # "creating"
  /\ \A c \in Cores : coreAt[c] = "creating" =>
       \E o \in Orders : orderAt[o] = "waiting" /\ orderCore[o] = c

(* Nothing is closed before the operations in flight have settled.         *)
CoreCloseInv ==
  /\ closeAt \in {"no", "draining"} =>
       writerAt = "open" /\ \A c \in Cores : coreAt[c] \notin {"closing", "closed", "stuck"}
  /\ closeAt \in {"closing", "resolved", "rejected"} =>
       InFlight = {} /\ \A c \in Cores : coreAt[c] \notin {"creating", "open"}
  /\ closeAt = "resolved" =>
       writerAt = "closed" /\ \A c \in Cores : coreAt[c] \notin {"closing", "stuck"}

ExecutorInv == ExecutorTypeOK /\ CacheInv /\ CoreOrderInv /\ CoreCloseInv

USE NoCoreAssumption

LEMMA ExecutorStarts == ExecutorInit => ExecutorInv
  BY DEF ExecutorInit, ExecutorInv, ExecutorTypeOK, CacheInv, CoreOrderInv, CoreCloseInv, Over,
         InFlight, Settled, Bindings

(* The invariant is enough.                                                *)
LEMMA ExecutorEnough == ExecutorInv => CoresHold
  BY DEF ExecutorInv, ExecutorTypeOK, CacheInv, CoreOrderInv, CoreCloseInv, Over, CoresHold, InUse,
         InFlight, Settled, Bindings

(* No step breaks the invariant: one step of the proof per action, one     *)
(* under it per conjunct.                                                  *)
LEMMA ExecutorSteps == ExecutorInv /\ [ExecutorNext]_executorVars => ExecutorInv'
<1>. SUFFICES ASSUME ExecutorInv, [ExecutorNext]_executorVars PROVE ExecutorInv'
  OBVIOUS
<1>. USE DEF ExecutorInv, ExecutorTypeOK, Over, InFlight, Settled, Bindings, GoTo, orderVars, coreVars
<1>1. ASSUME NEW o \in Orders, ExecuteOrder(o) PROVE ExecutorInv'
  <2>1. ExecutorTypeOK'
    BY <1>1 DEF ExecuteOrder
  <2>2. CacheInv'
    BY <1>1 DEF ExecuteOrder, CacheInv
  <2>3. CoreOrderInv'
    BY <1>1 DEF ExecuteOrder, CacheInv, CoreOrderInv
  <2>4. CoreCloseInv'
    BY <1>1 DEF ExecuteOrder, CoreCloseInv
  <2>. QED
    BY <2>1, <2>2, <2>3, <2>4
<1>2. ASSUME NEW o \in Orders, CheckFails(o) PROVE ExecutorInv'
  <2>1. ExecutorTypeOK'
    BY <1>2 DEF CheckFails
  <2>2. CacheInv'
    BY <1>2 DEF CheckFails, CacheInv
  <2>3. CoreOrderInv'
    BY <1>2 DEF CheckFails, CacheInv, CoreOrderInv
  <2>4. CoreCloseInv'
    BY <1>2 DEF CheckFails, CoreCloseInv
  <2>. QED
    BY <2>1, <2>2, <2>3, <2>4
<1>3. ASSUME NEW o \in Orders, CoreFor(o) PROVE ExecutorInv'
  <2>. DEFINE d == target[o][1]
  <2>0. /\ target[o] \in Bindings /\ d \in Destinations
        /\ orderAt[o] = "checking" /\ target' = target
        /\ UNCHANGED <<target, helperLost, writerAt, closeAt>>
    BY <1>3 DEF CoreFor
  <2>1. CASE cores[d] = NoCore /\ CreateCore(o)
    <3>0. PICK c \in Cores :
            /\ coreAt[c] = "unborn" /\ coreAt' = [coreAt EXCEPT ![c] = "creating"]
            /\ bound' = [bound EXCEPT ![c] = target[o]] /\ cores' = [cores EXCEPT ![d] = c]
            /\ orderCore' = [orderCore EXCEPT ![o] = c] /\ orderAt' = [orderAt EXCEPT ![o] = "waiting"]
      BY <2>1 DEF CreateCore
    <3>1. ExecutorTypeOK'
      BY <2>0, <2>1, <3>0
    <3>2. CacheInv'
      BY <2>0, <2>1, <3>0 DEF CacheInv
    <3>3. CoreOrderInv'
      BY <2>0, <2>1, <3>0 DEF CacheInv, CoreOrderInv
    <3>4. CoreCloseInv'
      BY <2>0, <2>1, <3>0 DEF CoreCloseInv
    <3>. QED
      BY <3>1, <3>2, <3>3, <3>4
  <2>2. CASE cores[d] # NoCore /\ bound[cores[d]] = target[o] /\ UseCore(o, cores[d])
    <3>1. ExecutorTypeOK'
      BY <2>0, <2>2 DEF UseCore
    <3>2. CacheInv'
      BY <2>0, <2>2 DEF UseCore, CacheInv
    <3>3. CoreOrderInv'
      BY <2>0, <2>2 DEF UseCore, CacheInv, CoreOrderInv
    <3>4. CoreCloseInv'
      BY <2>0, <2>2 DEF UseCore, CoreCloseInv
    <3>. QED
      BY <3>1, <3>2, <3>3, <3>4
  <2>3. CASE /\ cores[d] # NoCore /\ bound[cores[d]] # target[o]
             /\ GoTo(o, "failed") /\ UNCHANGED <<orderCore, cores, coreAt, bound>>
    <3>1. ExecutorTypeOK'
      BY <2>0, <2>3
    <3>2. CacheInv'
      BY <2>0, <2>3 DEF CacheInv
    <3>3. CoreOrderInv'
      BY <2>0, <2>3 DEF CacheInv, CoreOrderInv
    <3>4. CoreCloseInv'
      BY <2>0, <2>3 DEF CoreCloseInv
    <3>. QED
      BY <3>1, <3>2, <3>3, <3>4
  <2>. QED
    BY <1>3, <2>1, <2>2, <2>3 DEF CoreFor
<1>4. ASSUME NEW o \in Orders, RunOrder(o) PROVE ExecutorInv'
  <2>1. ExecutorTypeOK'
    BY <1>4 DEF RunOrder
  <2>2. CacheInv'
    BY <1>4 DEF RunOrder, CacheInv
  <2>3. CoreOrderInv'
    BY <1>4 DEF RunOrder, CacheInv, CoreOrderInv
  <2>4. CoreCloseInv'
    BY <1>4 DEF RunOrder, CoreCloseInv
  <2>. QED
    BY <2>1, <2>2, <2>3, <2>4
<1>5. ASSUME NEW o \in Orders, OrderEnds(o) PROVE ExecutorInv'
  <2>1. ExecutorTypeOK'
    BY <1>5 DEF OrderEnds
  <2>2. CacheInv'
    BY <1>5 DEF OrderEnds, CacheInv
  <2>3. CoreOrderInv'
    BY <1>5 DEF OrderEnds, CacheInv, CoreOrderInv
  <2>4. CoreCloseInv'
    BY <1>5 DEF OrderEnds, CoreCloseInv
  <2>. QED
    BY <2>1, <2>2, <2>3, <2>4
<1>6. ASSUME NEW c \in Cores, CoreOpens(c) PROVE ExecutorInv'
  <2>1. ExecutorTypeOK'
    BY <1>6 DEF CoreOpens
  <2>2. CacheInv'
    BY <1>6 DEF CoreOpens, CacheInv
  <2>3. CoreOrderInv'
    BY <1>6 DEF CoreOpens, CacheInv, CoreOrderInv
  <2>4. CoreCloseInv'
    BY <1>6 DEF CoreOpens, CoreCloseInv
  <2>. QED
    BY <2>1, <2>2, <2>3, <2>4
<1>7. ASSUME NEW c \in Cores, CoreFails(c) PROVE ExecutorInv'
  <2>1. ExecutorTypeOK'
    BY <1>7 DEF CoreFails
  <2>2. CacheInv'
    BY <1>7 DEF CoreFails, CacheInv
  <2>3. CoreOrderInv'
    BY <1>7 DEF CoreFails, CacheInv, CoreOrderInv
  <2>4. CoreCloseInv'
    BY <1>7 DEF CoreFails, CoreCloseInv
  <2>. QED
    BY <2>1, <2>2, <2>3, <2>4
<1>8. ASSUME NEW c \in Cores, CoreCloses(c) PROVE ExecutorInv'
  <2>1. ExecutorTypeOK'
    BY <1>8 DEF CoreCloses
  <2>2. CacheInv'
    BY <1>8 DEF CoreCloses, CacheInv
  <2>3. CoreOrderInv'
    BY <1>8 DEF CoreCloses, CacheInv, CoreOrderInv
  <2>4. CoreCloseInv'
    BY <1>8 DEF CoreCloses, CoreCloseInv
  <2>. QED
    BY <2>1, <2>2, <2>3, <2>4
<1>9. ASSUME NEW c \in Cores, LoseCoreHelper(c) PROVE ExecutorInv'
  <2>1. ExecutorTypeOK'
    BY <1>9 DEF LoseCoreHelper
  <2>2. CacheInv'
    BY <1>9 DEF LoseCoreHelper, CacheInv
  <2>3. CoreOrderInv'
    BY <1>9 DEF LoseCoreHelper, CacheInv, CoreOrderInv
  <2>4. CoreCloseInv'
    BY <1>9 DEF LoseCoreHelper, CoreCloseInv
  <2>. QED
    BY <2>1, <2>2, <2>3, <2>4
<1>10. ASSUME CloseExecutor PROVE ExecutorInv'
  <2>1. ExecutorTypeOK'
    BY <1>10 DEF CloseExecutor
  <2>2. CacheInv'
    BY <1>10 DEF CloseExecutor, CacheInv
  <2>3. CoreOrderInv'
    BY <1>10 DEF CloseExecutor, CacheInv, CoreOrderInv
  <2>4. CoreCloseInv'
    BY <1>10 DEF CloseExecutor, CoreCloseInv
  <2>. QED
    BY <2>1, <2>2, <2>3, <2>4
<1>11. ASSUME CloseCores PROVE ExecutorInv'
  <2>1. ExecutorTypeOK'
    BY <1>11 DEF CloseCores, Cached
  <2>2. CacheInv'
    BY <1>11 DEF CloseCores, Cached, CacheInv
  <2>3. CoreOrderInv'
    BY <1>11 DEF CloseCores, Cached, CacheInv, CoreOrderInv
  <2>4. CoreCloseInv'
    BY <1>11 DEF CloseCores, Cached, CacheInv, CoreOrderInv, CoreCloseInv
  <2>. QED
    BY <2>1, <2>2, <2>3, <2>4
<1>12. ASSUME WriterCloses PROVE ExecutorInv'
  <2>1. ExecutorTypeOK'
    BY <1>12 DEF WriterCloses
  <2>2. CacheInv'
    BY <1>12 DEF WriterCloses, CacheInv
  <2>3. CoreOrderInv'
    BY <1>12 DEF WriterCloses, CacheInv, CoreOrderInv
  <2>4. CoreCloseInv'
    BY <1>12 DEF WriterCloses, CoreCloseInv
  <2>. QED
    BY <2>1, <2>2, <2>3, <2>4
<1>13. ASSUME CloseSettles PROVE ExecutorInv'
  <2>1. ExecutorTypeOK'
    BY <1>13 DEF CloseSettles, Cached
  <2>2. CacheInv'
    BY <1>13 DEF CloseSettles, Cached, CacheInv
  <2>3. CoreOrderInv'
    BY <1>13 DEF CloseSettles, Cached, CacheInv, CoreOrderInv
  <2>4. CoreCloseInv'
    BY <1>13 DEF CloseSettles, Cached, CacheInv, CoreOrderInv, CoreCloseInv
  <2>. QED
    BY <2>1, <2>2, <2>3, <2>4
<1>14. CASE UNCHANGED executorVars
  BY <1>14 DEF executorVars, CacheInv, CoreOrderInv, CoreCloseInv
<1>. QED
  BY <1>1, <1>2, <1>3, <1>4, <1>5, <1>6, <1>7, <1>8, <1>9, <1>10, <1>11, <1>12, <1>13, <1>14 DEF ExecutorNext, ExecutorMoves, Order, Core

(* For any number of operations, destinations and cores: one core per      *)
(* destination, none closed under an operation, nothing left open by a     *)
(* close() that resolved.                                                  *)
THEOREM CoresAreHeld == ExecutorSpec => []CoresHold
<1>1. ExecutorSpec => []ExecutorInv
  BY ExecutorStarts, ExecutorSteps, PTL DEF ExecutorSpec
<1>. QED
  BY <1>1, ExecutorEnough, PTL

-----------------------------------------------------------------------------
(* The native helper's client.                                            *)
LEMMA Who ==
  Nobody \notin Requests /\ Close \in Requests /\ Calls \subseteq Requests /\ Close \notin Calls
  BY CallsAssumption DEF Requests

USE Who DEF Answers

(* A pipe holds one element at most; what that says of sequences.          *)
LEMMA ShortPipe ==
  ASSUME NEW S, NEW s \in Seq(S), Len(s) <= 1, s # <<>>
  PROVE  /\ Len(s) = 1 /\ DOMAIN s = {1}
         /\ Head(s) = s[1] /\ s[1] \in S
         /\ Tail(s) = <<>> /\ Tail(s) \in Seq(S)
<1>1. Len(s) = 1
  <2>1. Len(s) \in Nat \ {0}
    BY EmptySeq, Zenon
  <2>2. \A n \in Nat \ {0} : n <= 1 => n = 1
    OBVIOUS
  <2>. QED
    BY <2>1, <2>2, Zenon
<1>2. DOMAIN s = {1}
  BY <1>1
<1>3. Tail(s) \in Seq(S) /\ Len(Tail(s)) = 0
  BY <1>1
<1>4. Tail(s) = <<>>
  BY <1>3
<1>. QED
  BY <1>1, <1>2, <1>3, <1>4

LEMMA EmptyPipe ==
  ASSUME NEW S, NEW s \in Seq(S), Len(s) = 0
  PROVE  s = <<>> /\ DOMAIN s = {} /\
         \A e \in S : Append(s, e) = <<e>> /\ Len(Append(s, e)) = 1
                      /\ DOMAIN Append(s, e) = {1} /\ Append(s, e)[1] = e
                      /\ Append(s, e) \in Seq(S)
  OBVIOUS

LEMMA InitIInv == Init => IInv
<1>. SUFFICES ASSUME Init PROVE IInv
  OBVIOUS
<1>1. TypeOK
  <2>1. \A r \in Requests : state[r] = "idle" /\ result[r] = "none"
    BY DEF Init
  <2>2. /\ state \in [Requests -> {"idle", "queued", "pending", "exiting", "settled"}]
        /\ result \in [Requests -> {"none", "applied", "not-applied", "unknown"}]
    BY DEF Init
  <2>3. /\ queueTail \in Seq(Requests) /\ stdin \in Seq(Requests)
        /\ stdout \in Seq([req : Requests, says : Answers])
    BY EmptySeq DEF Init
  <2>4. helper \in [at : {"reading", "serving", "answering", "leaving", "gone"},
                    req : Requests \cup {Nobody},
                    says : Answers \cup {"none", "clean", "killed"}]
    BY DEF Init, Idle
  <2>. QED
    BY <2>1, <2>2, <2>3, <2>4 DEF Init, TypeOK
<1>2. \A r \in Requests : ~OnWire(r)
  BY DEF Init, OnWire, Idle
<1>3. OneInFlight
  BY <1>2 DEF Init, OneInFlight, Idle
<1>4. WireInv
  BY <1>2, Who DEF Init, WireInv, Idle
<1>5. OutcomesTruthful
  BY DEF Init, OutcomesTruthful
<1>. QED
  BY <1>1, <1>3, <1>4, <1>5 DEF IInv

-----------------------------------------------------------------------------
(* A step of the client that touches neither pipe nor helper keeps the     *)
(* invariant if it takes no request back, tells those who wait for what is *)
(* on its way nothing but `unknown`, and says otherwise what is so.        *)
LEMMA ClientStep ==
  ASSUME IInv, TypeOK', UNCHANGED world,
         \A r \in Requests : state'[r] \in {"idle", "queued"} => state[r] \in {"idle", "queued"},
         \A r \in Requests : OnWire(r) => Pending(r)' \/ fatal',
         \A r \in Requests : fatal' /\ OnWire(r) => result'[r] = "unknown",
         \A r \in Requests :
           \/ result'[r] \in {result[r], "unknown"}
           \/ result'[r] = "not-applied" /\ state[r] \in {"idle", "queued"}
           \/ result'[r] = "applied" /\ r \in done,
         state'[Close] = "exiting" => state[Close] = "exiting",
         ~closing' => state'[Close] = "idle"
  PROVE  IInv'
<1>1. \A r \in Requests : OnWire(r)' <=> OnWire(r)
  BY DEF OnWire, world
<1>2. OneInFlight'
  BY <1>1 DEF IInv, OneInFlight, world
<1>3. WireInv'
  <2>1. \A r \in Requests : state'[r] \in {"idle", "queued"} => r \notin done' /\ ~OnWire(r)'
    BY <1>1 DEF IInv, WireInv, world
  <2>2. \A r \in Requests : fatal' /\ OnWire(r)' => result'[r] = "unknown"
    BY <1>1
  <2>3. /\ \A i \in DOMAIN stdin' : stdin'[i] \notin done'
        /\ \A i \in DOMAIN stdout' : Agrees(stdout[i].req, stdout[i].says)'
    BY DEF IInv, WireInv, Agrees, world
  <2>4. /\ (helper.req = Nobody <=> helper.at \notin {"serving", "answering"})'
        /\ (helper.at = "serving" => helper.req \notin done)'
        /\ (helper.at = "answering" => helper.says \in Answers /\ Agrees(helper.req, helper.says))'
    BY DEF IInv, WireInv, Agrees, world
  <2>5. (state'[Close] = "exiting" => Close \in done') /\ (~closing' => state'[Close] = "idle")
    BY DEF IInv, WireInv, world
  <2>. QED
    BY <2>1, <2>2, <2>3, <2>4, <2>5 DEF WireInv
<1>4. OutcomesTruthful'
  <2>. SUFFICES ASSUME NEW r \in Requests
                PROVE  /\ result'[r] = "applied" => r \in done'
                       /\ result'[r] = "not-applied" =>
                            /\ r \notin done'
                            /\ \A i \in DOMAIN stdin' : stdin'[i] # r
                            /\ ~(helper'.at = "serving" /\ helper'.req = r)
    BY DEF OutcomesTruthful
  <2>1. CASE result'[r] \in {result[r], "unknown"}
    BY <2>1 DEF IInv, OutcomesTruthful, world
  <2>2. CASE result'[r] = "not-applied" /\ state[r] \in {"idle", "queued"}
    <3>1. r \notin done /\ ~OnWire(r)
      BY <2>2 DEF IInv, WireInv
    <3>. QED
      BY <2>2, <3>1 DEF OnWire, world
  <2>3. CASE result'[r] = "applied" /\ r \in done
    BY <2>3 DEF world
  <2>. QED
    BY <2>1, <2>2, <2>3
<1>. QED
  BY <1>2, <1>3, <1>4 DEF IInv

(* Losing the helper is such a step: whoever waits is told `unknown`.      *)
LEMMA MarkFatalKeeps ==
  ASSUME IInv, MarkFatal, UNCHANGED world, UNCHANGED closing,
         aborted' \subseteq Calls, queueTail' \in Seq(Requests), {erred', ended', exited'} \subseteq BOOLEAN
  PROVE  IInv'
<1>1. \A r \in Requests :
        /\ Lost(r) => state'[r] = "settled" /\ result'[r] = "unknown"
        /\ ~Lost(r) => state'[r] = state[r] /\ result'[r] = result[r]
  BY DEF MarkFatal
<1>2. TypeOK'
  BY <1>1 DEF IInv, TypeOK, MarkFatal, Lost, world
<1>3. \A r \in Requests : OnWire(r) => result'[r] = "unknown"
  BY <1>1 DEF IInv, OneInFlight, WireInv, Pending, Lost
<1>4. ~closing' => state'[Close] = "idle"
  BY <1>1 DEF IInv, WireInv, Lost
<1>. QED
  BY <1>1, <1>2, <1>3, <1>4, ClientStep DEF MarkFatal, Lost

LEMMA CallKeeps ==
  ASSUME IInv, NEW c \in Calls, Call(c) PROVE IInv'
<1>1. c \in Requests /\ state[c] = "idle" /\ UNCHANGED world
  BY DEF Call
<1>2. \A r \in Requests : r # c => state'[r] = state[r] /\ result'[r] = result[r]
  BY DEF Call, Settle, IInv, TypeOK
<1>3. \/ state'[c] = "settled" /\ result'[c] \in {"not-applied", "unknown"}
      \/ state'[c] = "queued" /\ result'[c] = result[c]
  BY DEF Call, Settle, IInv, TypeOK
<1>4. TypeOK'
  <2>1. \A r \in Requests : (state[r] = "settled" <=> result[r] # "none")'
    <3>. TAKE r \in Requests
    <3>1. CASE r # c
      BY <1>2, <3>1 DEF IInv, TypeOK
    <3>2. CASE r = c
      BY <1>1, <1>3, <3>2 DEF IInv, TypeOK
    <3>. QED
      BY <3>1, <3>2
  <2>2. /\ state' \in [Requests -> {"idle", "queued", "pending", "exiting", "settled"}]
        /\ result' \in [Requests -> {"none", "applied", "not-applied", "unknown"}]
    <3>1. /\ state' \in {[state EXCEPT ![c] = "settled"], [state EXCEPT ![c] = "queued"]}
          /\ \E what \in {"not-applied", "unknown"} :
               result' \in {result, [result EXCEPT ![c] = what]}
      BY DEF Call, Settle
    <3>. QED
      BY <1>1, <3>1 DEF IInv, TypeOK
  <2>3. queueTail' \in Seq(Requests)
    <3>1. queueTail \in Seq(Requests)
      BY DEF IInv, TypeOK
    <3>2. queueTail' \in {queueTail, Append(queueTail, c)}
      BY DEF Call
    <3>. QED
      BY <1>1, <3>1, <3>2, AppendProperties
  <2>. QED
    BY <2>1, <2>2, <2>3 DEF Call, IInv, TypeOK, client, world
<1>5. ~OnWire(c) /\ UNCHANGED fatal /\ (~closing' => state'[Close] = "idle")
  BY <1>1, <1>2 DEF IInv, WireInv, Call, client
<1>. QED
  BY <1>1, <1>2, <1>3, <1>4, <1>5, ClientStep DEF IInv, OneInFlight, WireInv, Pending


LEMMA CallCloseKeeps == ASSUME IInv, CallClose PROVE IInv'
<1>1. state[Close] = "idle" /\ UNCHANGED <<fatal, result, world>> /\ closing'
  BY DEF CallClose, IInv, WireInv, client
<1>2. /\ state' \in [Requests -> {"idle", "queued", "pending", "exiting", "settled"}]
      /\ state'[Close] = "queued"
      /\ \A r \in Requests : r # Close => state'[r] = state[r]
  BY DEF CallClose, IInv, TypeOK
<1>3. TypeOK'
  <2>1. \A r \in Requests : (state[r] = "settled" <=> result[r] # "none")'
    BY <1>1, <1>2 DEF IInv, TypeOK
  <2>2. queueTail' \in Seq(Requests)
    BY AppendProperties DEF CallClose, IInv, TypeOK
  <2>. QED
    BY <1>1, <1>2, <2>1, <2>2 DEF CallClose, IInv, TypeOK, client, world
<1>4. ~OnWire(Close)
  BY <1>1 DEF IInv, WireInv
<1>. QED
  BY <1>1, <1>2, <1>3, <1>4, ClientStep DEF IInv, OneInFlight, WireInv, Pending

LEMMA AbortKeeps == ASSUME IInv, NEW c \in Calls, Abort(c) PROVE IInv'
<1>1. c \in Requests /\ aborted' \subseteq Calls /\ UNCHANGED <<queueTail, closing, erred, ended, exited, world>>
  BY DEF Abort, IInv, TypeOK
<1>2. CASE state[c] = "queued" /\ Settle(c, "not-applied") /\ UNCHANGED <<fatal, broken>>
  <2>1. /\ state'[c] = "settled" /\ result'[c] = "not-applied"
        /\ \A r \in Requests : r # c => state'[r] = state[r] /\ result'[r] = result[r]
    BY <1>1, <1>2 DEF Settle, IInv, TypeOK
  <2>2. TypeOK'
    <3>1. \A r \in Requests : (state[r] = "settled" <=> result[r] # "none")'
      BY <2>1 DEF IInv, TypeOK
    <3>2. /\ state' \in [Requests -> {"idle", "queued", "pending", "exiting", "settled"}]
          /\ result' \in [Requests -> {"none", "applied", "not-applied", "unknown"}]
      BY <1>1, <1>2 DEF Settle, IInv, TypeOK
    <3>. QED
      BY <1>1, <1>2, <3>1, <3>2 DEF IInv, TypeOK, world
  <2>3. ~OnWire(c) /\ (~closing' => state'[Close] = "idle")
    BY <1>1, <1>2, <2>1 DEF IInv, WireInv
  <2>. QED
    BY <1>1, <1>2, <2>1, <2>2, <2>3, ClientStep DEF IInv, OneInFlight, WireInv, Pending
<1>3. CASE MarkFatal
  BY <1>1, <1>3, MarkFatalKeeps DEF IInv, TypeOK
<1>. QED
  BY <1>2, <1>3 DEF Abort

(* A broken pipe, another error, the end of the grace period, and a close  *)
(* that waits too long for the exit.                                       *)
LEMMA FailureKeeps == ASSUME IInv, Break \/ Fail \/ Grace \/ ExitTimeout PROVE IInv'
<1>1. CASE Break
  <2>1. UNCHANGED <<calls, fatal, erred, ended, exited, world>> /\ broken' \in BOOLEAN
    BY <1>1 DEF Break
  <2>2. TypeOK'
    BY <2>1 DEF IInv, TypeOK, calls, world
  <2>. QED
    BY <2>1, <2>2, ClientStep DEF IInv, OneInFlight, WireInv, Pending, calls
<1>2. CASE Fail \/ Grace \/ ExitTimeout
  <2>1. /\ MarkFatal /\ UNCHANGED <<aborted, queueTail, closing, ended, exited, world>>
        /\ erred' \in {erred, TRUE}
    BY <1>2 DEF Fail, Grace, ExitTimeout
  <2>. QED
    BY <2>1, MarkFatalKeeps DEF IInv, TypeOK
<1>. QED
  BY <1>1, <1>2

LEMMA StdoutEndKeeps == ASSUME IInv, StdoutEnd PROVE IInv'
<1>1. ended' = TRUE /\ UNCHANGED <<aborted, queueTail, closing, erred, exited, world>>
  BY DEF StdoutEnd
<1>2. CASE UNCHANGED <<state, result, fatal, broken>>
  <2>1. TypeOK'
    BY <1>1, <1>2 DEF IInv, TypeOK, world
  <2>. QED
    BY <1>1, <1>2, <2>1, ClientStep DEF IInv, OneInFlight, WireInv, Pending
<1>3. CASE MarkFatal
  BY <1>1, <1>3, MarkFatalKeeps DEF IInv, TypeOK
<1>. QED
  BY <1>2, <1>3 DEF StdoutEnd

LEMMA ExitKeeps == ASSUME IInv, Exit PROVE IInv'
<1>1. exited' = TRUE /\ UNCHANGED <<aborted, queueTail, closing, erred, ended, world>>
  BY DEF Exit
<1>2. CASE fatal /\ UNCHANGED <<state, result, fatal, broken>>
  <2>1. TypeOK'
    BY <1>1, <1>2 DEF IInv, TypeOK, world
  <2>. QED
    BY <1>1, <1>2, <2>1, ClientStep DEF IInv, OneInFlight, WireInv, Pending
<1>3. CASE MarkFatal
  BY <1>1, <1>3, MarkFatalKeeps DEF IInv, TypeOK
<1>4. CASE ~fatal /\ CloseAnswered /\ Settle(Close, "applied") /\ UNCHANGED <<fatal, broken>>
  <2>1. /\ state'[Close] = "settled" /\ result'[Close] = "applied"
        /\ \A r \in Requests : r # Close => state'[r] = state[r] /\ result'[r] = result[r]
    BY <1>4 DEF Settle, IInv, TypeOK
  <2>2. TypeOK'
    <3>1. \A r \in Requests : (state[r] = "settled" <=> result[r] # "none")'
      BY <2>1 DEF IInv, TypeOK
    <3>2. /\ state' \in [Requests -> {"idle", "queued", "pending", "exiting", "settled"}]
          /\ result' \in [Requests -> {"none", "applied", "not-applied", "unknown"}]
      BY <1>4 DEF Settle, IInv, TypeOK
    <3>. QED
      BY <1>1, <1>4, <3>1, <3>2 DEF IInv, TypeOK, world
  <2>3. Close \in done /\ state[Close] \in {"exiting", "settled"}
    BY <1>4 DEF CloseAnswered, IInv, TypeOK, WireInv, OutcomesTruthful
  <2>4. ~OnWire(Close) /\ closing
    BY <1>4, <2>3 DEF IInv, OneInFlight, WireInv, Pending
  <2>. QED
    BY <1>1, <1>4, <2>1, <2>2, <2>3, <2>4, ClientStep DEF IInv, OneInFlight, WireInv, Pending
<1>. QED
  BY <1>2, <1>3, <1>4 DEF Exit

-----------------------------------------------------------------------------
(* Only one of the two pipes and the helper holds a request.               *)
LEMMA OneHolds ==
  ASSUME IInv
  PROVE  /\ stdin # <<>> => Len(stdin) = 1 /\ stdout = <<>> /\ helper.req = Nobody
         /\ stdout # <<>> => Len(stdout) = 1 /\ stdin = <<>> /\ helper.req = Nobody
         /\ helper.req # Nobody => stdin = <<>> /\ stdout = <<>>
<1>. DEFINE Inside == IF helper.req = Nobody THEN 0 ELSE 1
<1>1. Len(stdin) + Len(stdout) + Inside <= 1
  BY DEF IInv, OneInFlight
<1>2. Len(stdin) \in Nat /\ (Len(stdin) = 0 <=> stdin = <<>>)
  <2>1. stdin \in Seq(Requests)
    BY DEF IInv, TypeOK
  <2>. QED
    BY <2>1, EmptyPipe, EmptySeq
<1>3. Len(stdout) \in Nat /\ (Len(stdout) = 0 <=> stdout = <<>>)
  <2>1. stdout \in Seq([req : Requests, says : Answers])
    BY DEF IInv, TypeOK
  <2>. QED
    BY <2>1, EmptyPipe, EmptySeq
<1>4. Inside \in {0, 1} /\ (Inside = 0 <=> helper.req = Nobody)
  OBVIOUS
<1>5. \A a, b, i \in Nat : a + b + i <= 1 =>
        /\ a # 0 => a = 1 /\ b = 0 /\ i = 0
        /\ b # 0 => b = 1 /\ a = 0 /\ i = 0
        /\ i # 0 => a = 0 /\ b = 0
  OBVIOUS
<1>6. Inside \in Nat
  OBVIOUS
<1>. HIDE DEF Inside
<1>7. /\ Len(stdin) # 0 => Len(stdin) = 1 /\ Len(stdout) = 0 /\ Inside = 0
      /\ Len(stdout) # 0 => Len(stdout) = 1 /\ Len(stdin) = 0 /\ Inside = 0
      /\ Inside # 0 => Len(stdin) = 0 /\ Len(stdout) = 0
  BY <1>1, <1>2, <1>3, <1>5, <1>6
<1>. QED
  BY <1>2, <1>3, <1>4, <1>7

(* A run that transmits finds the pipes and the helper empty.              *)
LEMMA NothingHeld ==
  ASSUME IInv, ~fatal, \A r \in Requests : ~Pending(r)
  PROVE  stdin = <<>> /\ stdout = <<>> /\ helper.req = Nobody
<1>1. \A r \in Requests : ~OnWire(r)
  BY DEF IInv, OneInFlight
<1>2. stdin = <<>>
  <2>. SUFFICES ASSUME stdin # <<>> PROVE FALSE
    OBVIOUS
  <2>1. DOMAIN stdin = {1} /\ stdin[1] \in Requests
    BY OneHolds, ShortPipe DEF IInv, TypeOK
  <2>. QED
    BY <1>1, <2>1 DEF OnWire
<1>3. stdout = <<>>
  <2>. SUFFICES ASSUME stdout # <<>> PROVE FALSE
    OBVIOUS
  <2>1. DOMAIN stdout = {1} /\ stdout[1] \in [req : Requests, says : Answers]
    <3>. DEFINE Messages == [req : Requests, says : Answers]
    <3>1. stdout \in Seq(Messages)
      BY DEF IInv, TypeOK
    <3>2. Len(stdout) = 1
      BY OneHolds
    <3>. HIDE DEF Messages
    <3>3. Len(stdout) <= 1
      BY <3>2
    <3>4. DOMAIN stdout = {1} /\ stdout[1] \in Messages
      BY <3>1, <3>3, ShortPipe
    <3>. QED
      BY <3>4 DEF Messages
  <2>. QED
    BY <1>1, <2>1 DEF OnWire
<1>4. helper.req = Nobody
  BY <1>1 DEF OnWire, IInv, TypeOK
<1>. QED
  BY <1>2, <1>3, <1>4

LEMMA RunKeeps == ASSUME IInv, Run PROVE IInv'
<1>. DEFINE r == Head(queueTail)
<1>1. /\ UNCHANGED <<aborted, closing, client, stdout, helper, done>>
      /\ queueTail \in Seq(Requests) /\ queueTail # <<>>
      /\ queueTail' = Tail(queueTail) /\ \A q \in Requests : ~Pending(q)
  BY DEF Run, IInv, TypeOK
<1>2. r \in Requests /\ queueTail' \in Seq(Requests)
  BY <1>1, HeadTailProperties
<1>. HIDE DEF r
<1>3. CASE UNCHANGED <<state, result, stdin>>
  <2>1. TypeOK'
    BY <1>1, <1>2, <1>3 DEF IInv, TypeOK, client
  <2>. QED
    BY <1>1, <1>3, <2>1, ClientStep DEF IInv, OneInFlight, WireInv, Pending, client, world
<1>4. CASE /\ state[r] = "queued" /\ UNCHANGED stdin
           /\ (fatal /\ Settle(r, "unknown")) \/ (~fatal /\ Settle(r, "not-applied"))
  <2>1. /\ state'[r] = "settled" /\ result'[r] \in {"unknown", "not-applied"}
        /\ \A q \in Requests : q # r => state'[q] = state[q] /\ result'[q] = result[q]
    BY <1>2, <1>4 DEF Settle, IInv, TypeOK
  <2>2. TypeOK'
    <3>1. \A q \in Requests : (state[q] = "settled" <=> result[q] # "none")'
      BY <2>1 DEF IInv, TypeOK
    <3>2. /\ state' \in [Requests -> {"idle", "queued", "pending", "exiting", "settled"}]
          /\ result' \in [Requests -> {"none", "applied", "not-applied", "unknown"}]
      BY <1>2, <1>4 DEF Settle, IInv, TypeOK
    <3>. QED
      BY <1>1, <1>2, <1>4, <3>1, <3>2 DEF IInv, TypeOK, client
  <2>3. ~OnWire(r) /\ (~closing' => state'[Close] = "idle")
    BY <1>1, <1>2, <1>4, <2>1 DEF IInv, WireInv
  <2>. QED
    BY <1>1, <1>4, <2>1, <2>2, <2>3, ClientStep
       DEF IInv, OneInFlight, WireInv, Pending, client, world
<1>5. CASE /\ state[r] = "queued" /\ ~fatal
           /\ state' = [state EXCEPT ![r] = "pending"]
           /\ stdin' = Append(stdin, r) /\ UNCHANGED result
  <2>1. stdin = <<>> /\ stdout = <<>> /\ helper.req = Nobody
    BY <1>1, <1>5, NothingHeld
  <2>2. stdin' = <<r>> /\ Len(stdin') = 1 /\ DOMAIN stdin' = {1} /\ stdin'[1] = r
        /\ stdin' \in Seq(Requests)
    BY <1>2, <1>5, <2>1
  <2>3. state'[r] = "pending" /\ \A q \in Requests : q # r => state'[q] = state[q]
    BY <1>2, <1>5 DEF IInv, TypeOK
  <2>4. r \notin done /\ result[r] = "none"
    BY <1>2, <1>5 DEF IInv, TypeOK, WireInv
  <2>5. TypeOK'
    <3>1. \A q \in Requests : (state[q] = "settled" <=> result[q] # "none")'
      BY <1>2, <1>5, <2>3 DEF IInv, TypeOK
    <3>. QED
      BY <1>1, <1>2, <1>5, <2>2, <3>1 DEF IInv, TypeOK, client
  <2>6. \A q \in Requests : OnWire(q)' <=> q = r
    BY <1>1, <1>2, <2>1, <2>2 DEF OnWire
  <2>7. OneInFlight'
    BY <1>1, <2>1, <2>2, <2>3, <2>6 DEF OneInFlight, Pending
  <2>8. WireInv'
    BY <1>1, <1>5, <2>1, <2>2, <2>3, <2>4, <2>6 DEF IInv, WireInv, Agrees, client
  <2>9. OutcomesTruthful'
    BY <1>1, <1>5, <2>1, <2>2, <2>4 DEF IInv, OutcomesTruthful
  <2>. QED
    BY <2>5, <2>7, <2>8, <2>9 DEF IInv
<1>. QED
  BY <1>3, <1>4, <1>5 DEF Run, r

(* What waits in the output pipe, if anything does.                        *)
LEMMA Waiting ==
  ASSUME IInv, stdout # <<>>
  PROVE  /\ DOMAIN stdout = {1} /\ Head(stdout) = stdout[1] /\ Tail(stdout) = <<>>
         /\ stdout[1].req \in Requests /\ stdout[1].says \in Answers
         /\ stdin = <<>> /\ helper.req = Nobody
<1>. DEFINE Messages == [req : Requests, says : Answers]
<1>1. stdout \in Seq(Messages)
  BY DEF IInv, TypeOK
<1>2. Len(stdout) = 1 /\ stdin = <<>> /\ helper.req = Nobody
  BY OneHolds
<1>. HIDE DEF Messages
<1>3. Len(stdout) <= 1
  BY <1>2
<1>4. DOMAIN stdout = {1} /\ Head(stdout) = stdout[1] /\ Tail(stdout) = <<>> /\ stdout[1] \in Messages
  BY <1>1, <1>3, ShortPipe
<1>. QED
  BY <1>2, <1>4 DEF Messages

LEMMA AcceptKeeps == ASSUME IInv, Accept PROVE IInv'
<1>. DEFINE a == stdout[1]
<1>1. /\ stdout # <<>> /\ stdout' = Tail(stdout)
      /\ UNCHANGED <<aborted, queueTail, closing, erred, ended, exited, stdin, helper, done>>
  BY DEF Accept
<1>2. /\ DOMAIN stdout = {1} /\ Head(stdout) = a /\ stdout' = <<>>
      /\ a.req \in Requests /\ a.says \in Answers
      /\ stdin = <<>> /\ helper.req = Nobody
  BY <1>1, Waiting
<1>3. /\ \A r \in Requests : ~OnWire(r)' /\ (OnWire(r) <=> r = a.req)
      /\ Agrees(a.req, a.says)
      /\ stdout' \in Seq([req : Requests, says : Answers])
  <2>1. \A r \in Requests : ~OnWire(r)' /\ (OnWire(r) <=> r = a.req)
    BY <1>1, <1>2, Who DEF OnWire
  <2>2. Agrees(a.req, a.says)
    BY <1>2 DEF IInv, WireInv
  <2>3. stdout' \in Seq([req : Requests, says : Answers])
    BY <1>2, EmptySeq
  <2>. QED
    BY <2>1, <2>2, <2>3
<1>. HIDE DEF a
(* Whatever becomes of the answer, nothing is on its way afterwards: what  *)
(* is left to show is that the callers were told what is so.               *)
<1>4. ASSUME TypeOK', ~closing => state'[Close] = "idle",
             state'[Close] = "exiting" => Close \in done,
             \A r \in Requests : state'[r] \in {"idle", "queued"} => state[r] \in {"idle", "queued"},
             \A r \in Requests :
               \/ result'[r] \in {result[r], "unknown"}
               \/ result'[r] = "not-applied" /\ r \notin done
               \/ result'[r] = "applied" /\ r \in done
      PROVE  IInv'
  <2>1. OneInFlight'
    <3>1. Len(stdin') = 0 /\ Len(stdout') = 0 /\ helper'.req = Nobody
      BY <1>1, <1>2
    <3>. QED
      BY <1>3, <3>1 DEF OneInFlight
  <2>2. WireInv'
    BY <1>1, <1>2, <1>3, <1>4 DEF IInv, WireInv, Agrees
  <2>3. OutcomesTruthful'
    BY <1>1, <1>2, <1>4 DEF IInv, TypeOK, OutcomesTruthful
  <2>. QED
    BY <1>4, <2>1, <2>2, <2>3 DEF IInv
<1>5. CASE fatal /\ UNCHANGED <<state, result, fatal, broken>>
  <2>1. TypeOK'
    BY <1>1, <1>3, <1>5 DEF IInv, TypeOK
  <2>. QED
    BY <1>4, <1>5, <2>1 DEF IInv, WireInv
<1>6. CASE MarkFatal
  <2>1. \A r \in Requests :
          /\ Lost(r) => state'[r] = "settled" /\ result'[r] = "unknown"
          /\ ~Lost(r) => state'[r] = state[r] /\ result'[r] = result[r]
    BY <1>6 DEF MarkFatal
  <2>2. TypeOK'
    BY <1>1, <1>3, <1>6, <2>1 DEF IInv, TypeOK, MarkFatal, Lost
  <2>. QED
    BY <1>4, <2>1, <2>2 DEF IInv, WireInv, Lost
<1>7. CASE /\ ~fatal /\ a.says # "garbled" /\ Pending(a.req)
           /\ a.req = Close /\ a.says = "applied"
           /\ state' = [state EXCEPT ![Close] = "exiting"] /\ UNCHANGED <<result, fatal, broken>>
  <2>1. state'[Close] = "exiting" /\ \A r \in Requests : r # Close => state'[r] = state[r]
    BY <1>7 DEF IInv, TypeOK
  <2>2. TypeOK'
    <3>1. \A r \in Requests : (state[r] = "settled" <=> result[r] # "none")'
      BY <1>7, <2>1 DEF IInv, TypeOK, Pending
    <3>. QED
      BY <1>1, <1>3, <1>7, <3>1 DEF IInv, TypeOK
  <2>3. Close \in done /\ closing
    BY <1>3, <1>7 DEF Agrees, IInv, WireInv, Pending
  <2>. QED
    BY <1>4, <1>7, <2>1, <2>2, <2>3
<1>8. CASE /\ ~fatal /\ a.says # "garbled" /\ Pending(a.req)
           /\ Settle(a.req, a.says) /\ UNCHANGED <<fatal, broken>>
  <2>1. /\ state'[a.req] = "settled" /\ result'[a.req] = a.says
        /\ \A r \in Requests : r # a.req => state'[r] = state[r] /\ result'[r] = result[r]
    BY <1>2, <1>8 DEF Settle, IInv, TypeOK
  <2>2. TypeOK'
    <3>1. \A r \in Requests : (state[r] = "settled" <=> result[r] # "none")'
      BY <1>2, <1>8, <2>1 DEF IInv, TypeOK
    <3>2. /\ state' \in [Requests -> {"idle", "queued", "pending", "exiting", "settled"}]
          /\ result' \in [Requests -> {"none", "applied", "not-applied", "unknown"}]
      BY <1>2, <1>8 DEF Settle, IInv, TypeOK
    <3>. QED
      BY <1>1, <1>3, <1>8, <3>1, <3>2 DEF IInv, TypeOK
  <2>3. a.says \in {"applied", "not-applied", "unknown"}
    BY <1>2, <1>8
  <2>4. (a.req = Close => closing) /\ (state'[Close] = "exiting" => state[Close] = "exiting")
    BY <1>8, <2>1 DEF IInv, WireInv, Pending
  <2>. QED
    BY <1>3, <1>4, <2>1, <2>2, <2>3, <2>4 DEF Agrees, IInv, WireInv
<1>. QED
  BY <1>2, <1>5, <1>6, <1>7, <1>8 DEF Accept

-----------------------------------------------------------------------------
(* The helper's own steps: the client is as it was.                        *)
LEMMA HelperStep ==
  ASSUME IInv, TypeOK', UNCHANGED <<calls, client>>,
         Len(stdin') + Len(stdout') + (IF helper'.req = Nobody THEN 0 ELSE 1) <= 1,
         \A r \in Requests : OnWire(r)' => OnWire(r),
         \A r \in done' : r \in done \/ (helper.at = "serving" /\ r = helper.req),
         done \subseteq done',
         \A i \in DOMAIN stdin' : stdin'[i] \in Requests \ done' /\ \E j \in DOMAIN stdin : stdin[j] = stdin'[i],
         \A i \in DOMAIN stdout' : Agrees(stdout[i].req, stdout[i].says)',
         (helper.req = Nobody <=> helper.at \notin {"serving", "answering"})',
         helper'.at = "serving" =>
           helper'.req \notin done' /\ \E j \in DOMAIN stdin : stdin[j] = helper'.req,
         (helper.at = "answering" => helper.says \in Answers /\ Agrees(helper.req, helper.says))'
  PROVE  IInv'
<1>1. OneInFlight'
  BY DEF IInv, OneInFlight, Pending, calls, client
<1>2. \A r \in done' : r \in done \/ OnWire(r)
  BY DEF OnWire
<1>3. WireInv'
  <2>1. \A r \in Requests : state'[r] \in {"idle", "queued"} => r \notin done' /\ ~OnWire(r)'
    BY <1>2 DEF IInv, WireInv, calls
  <2>2. \A r \in Requests : fatal' /\ OnWire(r)' => result'[r] = "unknown"
    BY DEF IInv, WireInv, calls, client
  <2>3. (state'[Close] = "exiting" => Close \in done') /\ (~closing' => state'[Close] = "idle")
    BY DEF IInv, WireInv, calls
  <2>. QED
    BY <2>1, <2>2, <2>3 DEF WireInv
<1>4. OutcomesTruthful'
  BY DEF IInv, OutcomesTruthful, calls
<1>. QED
  BY <1>1, <1>3, <1>4 DEF IInv

LEMMA ReadKeeps == ASSUME IInv, Read PROVE IInv'
<1>1. /\ helper.at = "reading" /\ stdin # <<>> /\ UNCHANGED <<calls, client, stdout, done>>
      /\ helper' = [at |-> "serving", req |-> Head(stdin), says |-> "none"]
      /\ stdin' = Tail(stdin)
  BY DEF Read
<1>2. /\ DOMAIN stdin = {1} /\ Head(stdin) = stdin[1] /\ stdin[1] \in Requests
      /\ stdin' = <<>> /\ stdin' \in Seq(Requests) /\ stdout = <<>>
  <2>1. stdin \in Seq(Requests) /\ Len(stdin) <= 1 /\ stdout = <<>>
    BY <1>1, OneHolds DEF IInv, TypeOK
  <2>. QED
    BY <1>1, <2>1, ShortPipe
<1>3. helper'.req = stdin[1] /\ helper'.at = "serving"
  BY <1>1, <1>2
<1>4. TypeOK'
  BY <1>1, <1>2 DEF IInv, TypeOK, calls, client
<1>5. \A r \in Requests : OnWire(r)' => OnWire(r)
  BY <1>1, <1>2, <1>3 DEF OnWire
<1>6. stdin[1] \notin done /\ stdin[1] # Nobody
  BY <1>2, Who DEF IInv, WireInv
<1>7. Len(stdin') + Len(stdout') + (IF helper'.req = Nobody THEN 0 ELSE 1) <= 1
  <2>1. Len(stdin') = 0 /\ Len(stdout') = 0
    BY <1>1, <1>2
  <2>. QED
    BY <2>1
<1>8. /\ \A i \in DOMAIN stdin' :
           stdin'[i] \in Requests \ done' /\ \E j \in DOMAIN stdin : stdin[j] = stdin'[i]
      /\ \A i \in DOMAIN stdout' : Agrees(stdout[i].req, stdout[i].says)'
  BY <1>1, <1>2
<1>9. /\ (helper.req = Nobody <=> helper.at \notin {"serving", "answering"})'
      /\ helper'.at = "serving" =>
           helper'.req \notin done' /\ \E j \in DOMAIN stdin : stdin[j] = helper'.req
      /\ (helper.at = "answering" => helper.says \in Answers /\ Agrees(helper.req, helper.says))'
  BY <1>1, <1>2, <1>3, <1>6
<1>10. UNCHANGED <<calls, client>> /\ done' = done
  BY <1>1
<1>11. /\ done \subseteq done'
       /\ \A r \in done' : r \in done \/ (helper.at = "serving" /\ r = helper.req)
  BY <1>10
<1>. QED
  BY <1>4, <1>5, <1>7, <1>8, <1>9, <1>10, <1>11, HelperStep

LEMMA PerformKeeps == ASSUME IInv, Perform PROVE IInv'
<1>1. helper.at = "serving" /\ UNCHANGED <<calls, client, stdin, stdout>>
  BY DEF Perform
<1>2. /\ helper.req \in Requests /\ helper.req \notin done /\ helper.req # Nobody
      /\ stdin = <<>> /\ stdout = <<>>
  BY <1>1, OneHolds DEF IInv, TypeOK, WireInv
<1>3. PICK says \in Answers :
        /\ helper' = [helper EXCEPT !.at = "answering", !.says = says]
        /\ \/ says # "not-applied" /\ done' = done \cup {helper.req}
           \/ says # "applied" /\ UNCHANGED done
  BY DEF Perform
<1>4. helper'.at = "answering" /\ helper'.req = helper.req /\ helper'.says = says
  BY <1>3 DEF IInv, TypeOK
<1>5. TypeOK'
  BY <1>1, <1>2, <1>3 DEF IInv, TypeOK, calls, client
<1>6. \A r \in Requests : OnWire(r)' => OnWire(r)
  BY <1>1, <1>4 DEF OnWire
<1>7. Agrees(helper.req, helper.says)'
  BY <1>2, <1>3, <1>4 DEF Agrees
<1>8. Len(stdin') + Len(stdout') + (IF helper'.req = Nobody THEN 0 ELSE 1) <= 1
  BY <1>1, <1>2, <1>4
<1>9. /\ \A i \in DOMAIN stdin' : FALSE
      /\ \A i \in DOMAIN stdout' : FALSE
  BY <1>1, <1>2
<1>10. /\ (helper.req = Nobody <=> helper.at \notin {"serving", "answering"})'
       /\ helper'.at # "serving"
       /\ helper'.says \in Answers /\ Agrees(helper.req, helper.says)'
  BY <1>2, <1>3, <1>4, <1>7
<1>11. /\ \A r \in done' : r \in done \/ (helper.at = "serving" /\ r = helper.req)
       /\ done \subseteq done'
  <2>1. done' = done \/ done' = done \cup {helper.req}
    BY <1>3
  <2>. QED
    BY <1>1, <2>1
<1>12. UNCHANGED <<calls, client>>
  BY <1>1
<1>. QED
  BY <1>5, <1>6, <1>8, <1>9, <1>10, <1>11, <1>12, HelperStep

LEMMA AnswerKeeps == ASSUME IInv, Answer PROVE IInv'
<1>. DEFINE a == [req |-> helper.req, says |-> helper.says]
            Messages == [req : Requests, says : Answers]
<1>1. /\ helper.at = "answering" /\ UNCHANGED <<calls, client, stdin, done>>
      /\ stdout' = Append(stdout, a)
      /\ helper'.req = Nobody /\ helper'.at \in {"reading", "leaving"}
      /\ helper'.says = "none" /\ helper' \in [at : {"reading", "leaving"}, req : {Nobody}, says : {"none"}]
  BY DEF Answer, Idle
<1>2. /\ helper.req \in Requests /\ helper.says \in Answers /\ helper.req # Nobody
      /\ stdin = <<>> /\ stdout = <<>> /\ Agrees(helper.req, helper.says)
  BY <1>1, OneHolds DEF IInv, TypeOK, WireInv
<1>3. a \in Messages /\ stdout \in Seq(Messages)
  BY <1>2 DEF IInv, TypeOK
<1>4. a.req = helper.req /\ a.says = helper.says
  OBVIOUS
<1>. HIDE DEF a, Messages
<1>5. stdout' \in Seq(Messages) /\ Len(stdout') = 1 /\ DOMAIN stdout' = {1} /\ stdout'[1] = a
  <2>1. Len(stdout) = 0
    BY <1>2
  <2>. QED
    BY <1>1, <1>3, <2>1, EmptyPipe
<1>6. TypeOK'
  BY <1>1, <1>2, <1>5 DEF IInv, TypeOK, Messages, calls, client
<1>7. \A r \in Requests : OnWire(r)' => OnWire(r)
  BY <1>1, <1>2, <1>4, <1>5, Who DEF OnWire
<1>8. \A i \in DOMAIN stdout' : Agrees(stdout[i].req, stdout[i].says)'
  BY <1>1, <1>2, <1>4, <1>5 DEF Agrees
<1>9. Len(stdin') + Len(stdout') + (IF helper'.req = Nobody THEN 0 ELSE 1) <= 1
  BY <1>1, <1>2, <1>5
<1>10. \A i \in DOMAIN stdin' :
         stdin'[i] \in Requests \ done' /\ \E j \in DOMAIN stdin : stdin[j] = stdin'[i]
  BY <1>1, <1>2
<1>11. /\ (helper.req = Nobody <=> helper.at \notin {"serving", "answering"})'
       /\ helper'.at # "serving" /\ helper'.at # "answering"
  BY <1>1
<1>12. UNCHANGED <<calls, client>> /\ done' = done
  BY <1>1
<1>13. /\ done \subseteq done'
       /\ \A r \in done' : r \in done \/ (helper.at = "serving" /\ r = helper.req)
  BY <1>12
<1>. QED
  BY <1>6, <1>7, <1>8, <1>9, <1>10, <1>11, <1>12, <1>13, HelperStep

(* The helper leaves, or dies with the request it was serving.             *)
LEMMA EndKeeps == ASSUME IInv, Leave \/ Die PROVE IInv'
<1>1. /\ UNCHANGED <<calls, client, stdin, stdout>>
      /\ helper'.at = "gone" /\ helper'.req = Nobody
      /\ helper' \in [at : {"gone"}, req : {Nobody}, says : {"clean", "killed"}]
  BY DEF Leave, Die, Gone
<1>2. \/ done' = done
      \/ helper.at = "serving" /\ done' = done \cup {helper.req}
  BY DEF Leave, Die
<1>3. helper.at = "serving" => helper.req \in Requests /\ stdin = <<>> /\ stdout = <<>>
  BY OneHolds DEF IInv, TypeOK, WireInv
<1>4. TypeOK'
  <2>1. done' \subseteq Requests
    BY <1>2, <1>3 DEF IInv, TypeOK
  <2>. QED
    BY <1>1, <2>1 DEF IInv, TypeOK, calls, client
<1>5. \A r \in Requests : OnWire(r)' => OnWire(r)
  BY <1>1, Who DEF OnWire
<1>6. Len(stdin') + Len(stdout') + (IF helper'.req = Nobody THEN 0 ELSE 1) <= 1
  <2>1. stdin # <<>> => Len(stdin) = 1 /\ stdout = <<>>
    BY OneHolds
  <2>2. stdout # <<>> => Len(stdout) = 1 /\ stdin = <<>>
    BY OneHolds
  <2>3. Len(stdin) + Len(stdout) <= 1
    <3>1. CASE stdin # <<>>
      <4>1. Len(stdin) = 1 /\ Len(stdout) = 0
        BY <2>1, <3>1
      <4>. QED
        BY <4>1
    <3>2. CASE stdout # <<>>
      <4>1. Len(stdin) = 0 /\ Len(stdout) = 1
        BY <2>2, <3>2
      <4>. QED
        BY <4>1
    <3>3. CASE stdin = <<>> /\ stdout = <<>>
      BY <3>3
    <3>. QED
      BY <3>1, <3>2, <3>3
  <2>4. Len(stdin) \in Nat /\ Len(stdout) \in Nat
    BY DEF IInv, TypeOK
  <2>. QED
    BY <1>1, <2>3, <2>4
<1>7. \A i \in DOMAIN stdin' :
        stdin'[i] \in Requests \ done' /\ \E j \in DOMAIN stdin : stdin[j] = stdin'[i]
  BY <1>1, <1>2, <1>3 DEF IInv, TypeOK, WireInv
<1>8. \A i \in DOMAIN stdout' : Agrees(stdout[i].req, stdout[i].says)'
  BY <1>1, <1>2, <1>3 DEF IInv, WireInv, Agrees
<1>9. /\ (helper.req = Nobody <=> helper.at \notin {"serving", "answering"})'
      /\ helper'.at # "serving" /\ helper'.at # "answering"
  BY <1>1
<1>10. /\ \A r \in done' : r \in done \/ (helper.at = "serving" /\ r = helper.req)
       /\ done \subseteq done'
  BY <1>2
<1>11. UNCHANGED <<calls, client>>
  BY <1>1
<1>. QED
  BY <1>4, <1>5, <1>6, <1>7, <1>8, <1>9, <1>10, <1>11, HelperStep

-----------------------------------------------------------------------------
(* The invariant holds throughout: the code's single `pending`, its chain  *)
(* of runs and markFatal keep client, pipes and helper in agreement.       *)
THEOREM Inductive == Spec => []IInv
<1>1. Init => IInv
  BY InitIInv
<1>2. IInv /\ [Next]_vars => IInv'
  <2>. SUFFICES ASSUME IInv, [Next]_vars PROVE IInv'
    OBVIOUS
  <2>1. ASSUME NEW c \in Calls, Call(c) \/ Abort(c) PROVE IInv'
    BY <2>1, CallKeeps, AbortKeeps
  <2>2. CASE CallClose
    BY <2>2, CallCloseKeeps
  <2>3. CASE Run
    BY <2>3, RunKeeps
  <2>4. CASE Accept
    BY <2>4, AcceptKeeps
  <2>5. CASE Break \/ Fail \/ Grace \/ ExitTimeout
    BY <2>5, FailureKeeps
  <2>6. CASE StdoutEnd
    BY <2>6, StdoutEndKeeps
  <2>7. CASE Exit
    BY <2>7, ExitKeeps
  <2>8. CASE Read
    BY <2>8, ReadKeeps
  <2>9. CASE Perform
    BY <2>9, PerformKeeps
  <2>10. CASE Answer
    BY <2>10, AnswerKeeps
  <2>11. CASE Leave \/ Die
    BY <2>11, EndKeeps
  <2>12. CASE UNCHANGED vars
    BY <2>12 DEF vars, calls, client, world, IInv, TypeOK, OneInFlight, WireInv,
       OutcomesTruthful, OnWire, Pending, Agrees
  <2>. QED
    BY <2>1, <2>2, <2>3, <2>4, <2>5, <2>6, <2>7, <2>8, <2>9, <2>10, <2>11, <2>12 DEF Next
<1>. QED
  BY <1>1, <1>2, PTL DEF Spec

(* What a caller was told stays true: `applied` of a request that has      *)
(* taken effect, `not-applied` of one that never does, whatever the helper *)
(* still holds.                                                            *)
THEOREM OutcomesAreTruthful == Spec => []OutcomesTruthful
<1>1. IInv => OutcomesTruthful
  BY DEF IInv
<1>. QED
  BY <1>1, Inductive, PTL

(* One request is on its way at a time.                                    *)
THEOREM OneRequestInFlight == Spec => []OneInFlight
<1>1. IInv => OneInFlight
  BY DEF IInv
<1>. QED
  BY <1>1, Inductive, PTL

(* After the loss of the helper only a request whose caller was told       *)
(* `unknown` can still take effect.                                        *)
THEOREM LossIsQuiet == Spec => LostIsQuiet
<1>1. IInv /\ [Next]_vars => [fatal => \A r \in done' \ done : result[r] = "unknown"]_vars
  <2>. SUFFICES ASSUME IInv, Next, fatal, NEW r \in done' \ done
                PROVE  result[r] = "unknown"
    BY DEF vars
  <2>1. Perform \/ Die
    BY DEF Next, Call, Abort, CallClose, Run, Accept, Break, Fail, Grace, StdoutEnd, Exit, ExitTimeout,
       Read, Answer, Leave, world
  <2>2. helper.at = "serving" /\ r = helper.req
    BY <2>1 DEF Perform, Die
  <2>3. r \in Requests /\ OnWire(r)
    BY <2>2 DEF OnWire, IInv, TypeOK, WireInv
  <2>. QED
    BY <2>3 DEF IInv, WireInv
<1>. QED
  BY <1>1, Inductive, PTL DEF Spec, LostIsQuiet

-----------------------------------------------------------------------------
ClosePassed == state[Close] \in {"pending", "exiting", "settled"}

(* Whoever waits for its turn is in the queue, close at its end.           *)
OrderInv ==
  /\ \A c \in Calls : state[c] = "queued" => \E i \in DOMAIN queueTail : queueTail[i] = c
  /\ \A i \in DOMAIN queueTail :
       queueTail[i] = Close => i = Len(queueTail) /\ state[Close] = "queued"
  /\ ClosePassed => queueTail = <<>> /\ \A c \in Calls : state[c] \in {"idle", "settled"}
  /\ \A r, q \in Requests : Pending(r) /\ Pending(q) => r = q
  /\ \A c \in Calls : state[c] # "exiting"

(* What an end that the client has seen, or expects, says of the helper.   *)
EndInv ==
  /\ ended => helper.at = "gone" /\ stdout = <<>>
  /\ \A i \in DOMAIN stdout : stdout[i].req = Close /\ stdout[i].says = "applied"
       => helper.at \in {"leaving", "gone"}
  /\ state[Close] = "exiting" =>
       stdin = <<>> /\ stdout = <<>> /\ helper.at \in {"leaving", "gone"} /\ ~fatal
  /\ result[Close] = "applied" =>
       /\ helper.at = "gone" /\ stdin = <<>> /\ stdout = <<>>
       /\ ~fatal /\ ~broken /\ ended /\ exited

CloseInv == OrderInv /\ EndInv
-----------------------------------------------------------------------------
LEMMA Appended ==
  ASSUME NEW S, NEW s \in Seq(S), NEW e \in S
  PROVE  /\ Len(Append(s, e)) = Len(s) + 1 /\ Len(s) \in Nat
         /\ DOMAIN s = 1..Len(s) /\ DOMAIN Append(s, e) = 1..(Len(s) + 1)
         /\ \A i \in DOMAIN s : Append(s, e)[i] = s[i]
         /\ Append(s, e)[Len(s) + 1] = e
  BY AppendProperties, LenProperties

LEMMA Shortened ==
  ASSUME NEW S, NEW s \in Seq(S), s # <<>>
  PROVE  /\ Tail(s) \in Seq(S) /\ Len(s) \in Nat \ {0} /\ Len(Tail(s)) = Len(s) - 1
         /\ Head(s) = s[1] /\ s[1] \in S
         /\ DOMAIN s = 1..Len(s) /\ DOMAIN Tail(s) = 1..(Len(s) - 1)
         /\ \A i \in DOMAIN Tail(s) : Tail(s)[i] = s[i + 1]
  BY HeadTailProperties, LenProperties, EmptySeq

(* Settling somebody, or the answer to close, leaves the order alone.      *)
LEMMA OrderStays ==
  ASSUME OrderInv, queueTail' = queueTail,
         \A r \in Requests :
           \/ state'[r] = state[r]
           \/ state'[r] = "settled" /\ (r \in Calls \/ Lost(r))
           \/ state'[r] = "exiting" /\ Pending(r) /\ r = Close
  PROVE  OrderInv'
  BY DEF OrderInv, ClosePassed, Pending, Lost

(* A lost helper is such a case, and nobody waits for an exit after it.    *)
LEMMA LossStays ==
  ASSUME IInv, OrderInv, MarkFatal, queueTail' = queueTail
  PROVE  /\ OrderInv' /\ state'[Close] # "exiting"
         /\ result'[Close] = "applied" => result[Close] = "applied"
<1>1. \A r \in Requests : state'[r] = state[r] \/ (state'[r] = "settled" /\ Lost(r))
  BY DEF MarkFatal
<1>2. OrderInv'
  BY <1>1, OrderStays
<1>. QED
  BY <1>2 DEF MarkFatal, Lost

(* What an applied close says of everybody else.                           *)
LEMMA AppliedIsPassed ==
  ASSUME IInv, CloseInv, result[Close] = "applied"
  PROVE  state[Close] = "settled" /\ queueTail = <<>> /\ \A r \in Requests : ~Lost(r)
<1>1. state[Close] = "settled"
  BY DEF IInv, TypeOK
<1>. QED
  BY <1>1 DEF CloseInv, OrderInv, ClosePassed, Lost, Requests

-----------------------------------------------------------------------------
LEMMA OrderKept == ASSUME IInv, CloseInv, [Next]_vars PROVE OrderInv'
<1>. USE DEF CloseInv
<1>. DEFINE Same == queueTail' = queueTail /\ state' = state
<1>0. queueTail \in Seq(Requests)
  BY DEF IInv, TypeOK
<1>1. ASSUME NEW c \in Calls, Call(c) PROVE OrderInv'
  <2>1. CASE state' = [state EXCEPT ![c] = "settled"] /\ queueTail' = queueTail
    BY <2>1, OrderStays DEF IInv, TypeOK
  <2>2. CASE /\ ~closing /\ state[c] = "idle" /\ state' = [state EXCEPT ![c] = "queued"]
             /\ queueTail' = Append(queueTail, c)
    <3>1. state[Close] = "idle" /\ state'[Close] = "idle"
      BY <2>2 DEF IInv, TypeOK, WireInv
    <3>2. /\ Len(queueTail) \in Nat /\ DOMAIN queueTail = 1..Len(queueTail)
          /\ DOMAIN queueTail' = 1..(Len(queueTail) + 1)
          /\ \A i \in DOMAIN queueTail : queueTail'[i] = queueTail[i]
          /\ queueTail'[Len(queueTail) + 1] = c
      BY <1>0, <2>2, Appended
    <3>3. \A i \in DOMAIN queueTail' : queueTail'[i] # Close
      BY <3>1, <3>2 DEF OrderInv
    <3>4. \A d \in Calls : state'[d] = "queued" => \E i \in DOMAIN queueTail' : queueTail'[i] = d
      <4>. SUFFICES ASSUME NEW d \in Calls, state'[d] = "queued"
                    PROVE  \E i \in DOMAIN queueTail' : queueTail'[i] = d
        OBVIOUS
      <4>1. CASE d = c
        BY <3>2, <4>1
      <4>2. CASE d # c
        <5>1. state[d] = "queued"
          BY <2>2, <4>2 DEF IInv, TypeOK
        <5>2. PICK i \in DOMAIN queueTail : queueTail[i] = d
          BY <5>1 DEF OrderInv
        <5>. QED
          BY <3>2, <5>2
      <4>. QED
        BY <4>1, <4>2
    <3>5. \A r, q \in Requests : Pending(r)' /\ Pending(q)' => r = q
      BY <2>2 DEF OrderInv, Pending, IInv, TypeOK
    <3>6. \A d \in Calls : state'[d] # "exiting"
      BY <2>2 DEF OrderInv, IInv, TypeOK
    <3>. QED
      BY <3>1, <3>3, <3>4, <3>5, <3>6 DEF OrderInv, ClosePassed
  <2>. QED
    BY <1>1, <2>1, <2>2 DEF Call, Settle
<1>2. CASE CallClose
  <2>1. /\ state[Close] = "idle" /\ state' = [state EXCEPT ![Close] = "queued"]
        /\ queueTail' = Append(queueTail, Close)
    BY <1>2 DEF CallClose, IInv, WireInv
  <2>2. /\ Len(queueTail) \in Nat /\ DOMAIN queueTail = 1..Len(queueTail)
        /\ Len(queueTail') = Len(queueTail) + 1 /\ DOMAIN queueTail' = 1..(Len(queueTail) + 1)
        /\ \A i \in DOMAIN queueTail : queueTail'[i] = queueTail[i]
    BY <1>0, <2>1, Appended
  <2>3. \A r \in Requests : r # Close => state'[r] = state[r]
    BY <2>1 DEF IInv, TypeOK
  <2>4. state'[Close] = "queued"
    BY <2>1 DEF IInv, TypeOK
  <2>5. \A i \in DOMAIN queueTail' :
          queueTail'[i] = Close => i = Len(queueTail') /\ state'[Close] = "queued"
    BY <2>1, <2>2, <2>4 DEF OrderInv
  <2>6. \A d \in Calls : state'[d] = "queued" => \E i \in DOMAIN queueTail' : queueTail'[i] = d
    <3>. SUFFICES ASSUME NEW d \in Calls, state'[d] = "queued"
                  PROVE  \E i \in DOMAIN queueTail' : queueTail'[i] = d
      OBVIOUS
    <3>1. PICK i \in DOMAIN queueTail : queueTail[i] = d
      BY <2>3 DEF OrderInv
    <3>. QED
      BY <2>2, <3>1
  <2>. QED
    BY <2>3, <2>4, <2>5, <2>6 DEF OrderInv, ClosePassed, Pending
<1>3. ASSUME NEW c \in Calls, Abort(c) PROVE OrderInv'
  <2>1. CASE state[c] = "queued" /\ Settle(c, "not-applied")
    BY <1>3, <2>1, OrderStays DEF Abort, Settle, IInv, TypeOK
  <2>2. CASE MarkFatal
    BY <1>3, <2>2, LossStays DEF Abort
  <2>. QED
    BY <1>3, <2>1, <2>2 DEF Abort
<1>4. CASE Run
  <2>. DEFINE r == queueTail[1]
  <2>1. /\ Tail(queueTail) \in Seq(Requests)
        /\ Len(queueTail) \in Nat \ {0} /\ Len(Tail(queueTail)) = Len(queueTail) - 1
        /\ Head(queueTail) = r /\ r \in Requests
        /\ DOMAIN queueTail = 1..Len(queueTail)
        /\ DOMAIN Tail(queueTail) = 1..(Len(queueTail) - 1)
        /\ \A i \in DOMAIN Tail(queueTail) : Tail(queueTail)[i] = queueTail[i + 1]
    BY <1>0, <1>4, Shortened DEF Run
  <2>2. queueTail' = Tail(queueTail) /\ \A q \in Requests : ~Pending(q)
    BY <1>4 DEF Run
  <2>3. /\ \A q \in Requests : q # r => state'[q] = state[q]
        /\ state'[r] \in {"settled", "pending"}
    BY <1>4, <2>1 DEF Run, Settle, IInv, TypeOK
  <2>4. ~ClosePassed
    BY <1>4 DEF OrderInv, Run
  <2>5. state[Close] \in {"idle", "queued"}
    BY <2>4 DEF ClosePassed, IInv, TypeOK
  <2>6. \A d \in Calls : state'[d] = "queued" => \E i \in DOMAIN queueTail' : queueTail'[i] = d
    <3>. SUFFICES ASSUME NEW d \in Calls, state'[d] = "queued"
                  PROVE  \E i \in DOMAIN queueTail' : queueTail'[i] = d
      OBVIOUS
    <3>1. d # r /\ state[d] = "queued"
      BY <2>3
    <3>2. PICK i \in DOMAIN queueTail : queueTail[i] = d
      BY <3>1 DEF OrderInv
    <3>3. i - 1 \in DOMAIN Tail(queueTail) /\ Tail(queueTail)[i - 1] = d
      <4>1. i # 1 /\ i \in 1..Len(queueTail)
        BY <2>1, <3>1, <3>2
      <4>2. i - 1 \in DOMAIN Tail(queueTail) /\ (i - 1) + 1 = i
        BY <2>1, <4>1
      <4>. QED
        BY <2>1, <3>2, <4>2
    <3>. QED
      BY <2>2, <3>3
  <2>7. \A p, q \in Requests : Pending(p)' /\ Pending(q)' => p = q
    BY <2>2, <2>3 DEF Pending
  <2>8. CASE r = Close
    <3>1. Len(queueTail) = 1
      BY <2>1, <2>8 DEF OrderInv
    <3>2. Tail(queueTail) = <<>>
      BY <2>1, <3>1, EmptySeq
    <3>3. \A d \in Calls : state'[d] \in {"idle", "settled"}
      <4>. SUFFICES ASSUME NEW d \in Calls PROVE state'[d] \in {"idle", "settled"}
        OBVIOUS
      <4>1. state'[d] # "queued"
        BY <2>2, <2>6, <3>2
      <4>2. state'[d] = state[d] /\ state[d] \notin {"pending", "exiting"}
        BY <2>2, <2>3, <2>8 DEF OrderInv, Pending
      <4>. QED
        BY <4>1, <4>2 DEF IInv, TypeOK
    <3>. QED
      BY <2>2, <2>6, <2>7, <3>2, <3>3 DEF OrderInv
  <2>9. CASE r # Close
    <3>1. state'[Close] = state[Close]
      BY <2>3, <2>9
    <3>2. \A i \in DOMAIN queueTail' :
            queueTail'[i] = Close => i = Len(queueTail') /\ state'[Close] = "queued"
      <4>. SUFFICES ASSUME NEW i \in DOMAIN queueTail', queueTail'[i] = Close
                    PROVE  i = Len(queueTail') /\ state'[Close] = "queued"
        OBVIOUS
      <4>1. i \in Nat /\ i + 1 \in DOMAIN queueTail /\ queueTail[i + 1] = Close
        BY <2>1, <2>2
      <4>2. i + 1 = Len(queueTail) /\ state[Close] = "queued"
        BY <4>1 DEF OrderInv
      <4>. QED
        BY <2>1, <2>2, <3>1, <4>1, <4>2
    <3>3. \A d \in Calls : state'[d] # "exiting"
      BY <2>3 DEF OrderInv
    <3>. QED
      BY <2>4, <2>5, <2>6, <2>7, <3>1, <3>2, <3>3 DEF OrderInv, ClosePassed
  <2>. QED
    BY <2>8, <2>9
<1>5. CASE Accept
  <2>1. CASE MarkFatal
    BY <1>5, <2>1, LossStays DEF Accept
  <2>2. CASE UNCHANGED state
    BY <1>5, <2>2, OrderStays DEF Accept
  <2>3. CASE /\ Pending(Head(stdout).req)
             /\ \/ Head(stdout).req = Close /\ state' = [state EXCEPT ![Close] = "exiting"]
                \/ state' = [state EXCEPT ![Head(stdout).req] = "settled"]
    BY <1>5, <2>3, OrderStays DEF Accept, IInv, TypeOK, Pending, Lost
  <2>. QED
    BY <1>5, <2>1, <2>2, <2>3 DEF Accept, Settle
<1>6. CASE Fail \/ Grace \/ StdoutEnd \/ ExitTimeout
  <2>1. queueTail' = queueTail /\ (MarkFatal \/ UNCHANGED state)
    BY <1>6 DEF Fail, Grace, StdoutEnd, ExitTimeout
  <2>. QED
    BY <2>1, LossStays, OrderStays
<1>7. CASE Exit
  <2>1. CASE MarkFatal \/ UNCHANGED state
    BY <1>7, <2>1, LossStays, OrderStays DEF Exit
  <2>2. CASE CloseAnswered /\ state' = [state EXCEPT ![Close] = "settled"]
    <3>1. state[Close] \in {"exiting", "settled"}
      BY <2>2, AppliedIsPassed DEF CloseAnswered
    <3>. QED
      BY <1>7, <2>2, <3>1, OrderStays DEF Exit, Lost, IInv, TypeOK
  <2>. QED
    BY <1>7, <2>1, <2>2 DEF Exit, Settle
<1>8. CASE Break \/ Read \/ Perform \/ Answer \/ Leave \/ Die \/ UNCHANGED vars
  <2>1. Same
    BY <1>8 DEF Break, Read, Perform, Answer, Leave, Die, calls, vars
  <2>. QED
    BY <2>1, OrderStays
<1>. QED
  BY <1>1, <1>2, <1>3, <1>4, <1>5, <1>6, <1>7, <1>8 DEF Next

-----------------------------------------------------------------------------
LEMMA EndKept == ASSUME IInv, CloseInv, [Next]_vars PROVE EndInv'
<1>. USE DEF CloseInv
<1>1. CASE \E c \in Calls : Call(c)
  BY <1>1 DEF Call, Settle, IInv, TypeOK, EndInv, client, world
<1>2. CASE CallClose
  BY <1>2 DEF CallClose, IInv, TypeOK, EndInv, client, world
<1>3. CASE \E c \in Calls : Abort(c)
  <2>. PICK c \in Calls : Abort(c)
    BY <1>3
  <2>1. result[Close] # "applied" \/ UNCHANGED <<fatal, broken>>
    BY AppliedIsPassed DEF Abort, Lost, Pending
  <2>2. CASE state[c] = "queued" /\ Settle(c, "not-applied") /\ UNCHANGED <<fatal, broken>>
    BY <2>2 DEF Abort, Settle, EndInv, IInv, TypeOK, world
  <2>3. CASE Pending(c) /\ MarkFatal
    <3>1. result[Close] # "applied"
      BY <2>3, AppliedIsPassed DEF Lost, Pending
    <3>. QED
      BY <2>3, <3>1, LossStays DEF Abort, EndInv, world
  <2>. QED
    BY <2>2, <2>3 DEF Abort
<1>4. CASE Run
  <2>1. ~ClosePassed /\ result[Close] # "applied" /\ queueTail # <<>>
    BY <1>4, AppliedIsPassed DEF Run, OrderInv
  <2>2. Head(queueTail) \in Requests
    BY <2>1, Shortened DEF IInv, TypeOK
  <2>3. state'[Close] # "exiting" /\ result'[Close] # "applied"
    BY <1>4, <2>1, <2>2 DEF Run, Settle, ClosePassed, IInv, TypeOK
  <2>. QED
    BY <1>4, <2>3 DEF Run, EndInv, client
<1>5. CASE Accept
  <2>1. /\ DOMAIN stdout = {1} /\ Head(stdout) = stdout[1] /\ Tail(stdout) = <<>>
        /\ stdout[1].req \in Requests /\ stdout[1].says \in Answers /\ stdin = <<>>
    BY <1>5, Waiting DEF Accept
  <2>2. ~ended /\ state[Close] # "exiting" /\ result[Close] # "applied" /\ stdout' = <<>>
    BY <1>5, <2>1 DEF Accept, EndInv
  <2>3. result'[Close] # "applied"
    <3>1. CASE MarkFatal \/ UNCHANGED result
      BY <2>2, <3>1 DEF MarkFatal
    <3>2. CASE /\ ~(stdout[1].req = Close /\ stdout[1].says = "applied")
               /\ result' = [result EXCEPT ![stdout[1].req] = stdout[1].says]
      BY <2>1, <2>2, <3>2 DEF IInv, TypeOK
    <3>. QED
      BY <1>5, <2>1, <3>1, <3>2 DEF Accept, Settle
  <2>4. state'[Close] = "exiting" => helper.at \in {"leaving", "gone"} /\ ~fatal'
    <3>1. CASE MarkFatal \/ UNCHANGED state
      BY <2>2, <3>1 DEF MarkFatal
    <3>2. CASE stdout[1].req = Close /\ stdout[1].says = "applied" /\ ~fatal /\ UNCHANGED fatal
      BY <2>1, <3>2 DEF EndInv
    <3>3. CASE state' = [state EXCEPT ![stdout[1].req] = "settled"]
      BY <2>1, <2>2, <3>3 DEF IInv, TypeOK
    <3>. QED
      BY <1>5, <2>1, <3>1, <3>2, <3>3 DEF Accept, Settle
  <2>5. UNCHANGED <<ended, exited, stdin, helper>>
    BY <1>5 DEF Accept
  <2>6. \A i \in DOMAIN stdout' : FALSE
    BY <2>2
  <2>. QED
    BY <2>1, <2>2, <2>3, <2>4, <2>5, <2>6 DEF EndInv
<1>6. CASE Break
  BY <1>6 DEF Break, EndInv, calls, world
<1>7. CASE Fail \/ Grace \/ ExitTimeout
  <2>1. MarkFatal /\ result[Close] # "applied" /\ queueTail' = queueTail
        /\ UNCHANGED <<ended, exited, world>>
    BY <1>7, AppliedIsPassed DEF Fail, Grace, ExitTimeout, EndInv
  <2>. QED
    BY <2>1, LossStays DEF EndInv, world
<1>8. CASE StdoutEnd
  <2>1. helper.at = "gone" /\ stdout = <<>> /\ ended' = TRUE /\ queueTail' = queueTail
        /\ result[Close] # "applied" /\ UNCHANGED <<exited, world>>
    BY <1>8 DEF StdoutEnd, EndInv
  <2>2. CASE MarkFatal
    BY <2>1, <2>2, LossStays DEF EndInv, world
  <2>3. CASE UNCHANGED <<state, result, fatal, broken>>
    BY <2>1, <2>3 DEF EndInv, world
  <2>. QED
    BY <1>8, <2>2, <2>3 DEF StdoutEnd
<1>9. CASE Exit
  <2>1. helper.at = "gone" /\ stdout = <<>> /\ ended /\ ended' /\ exited' /\ queueTail' = queueTail
        /\ result[Close] # "applied" /\ UNCHANGED world
    BY <1>9 DEF Exit, EndInv
  <2>2. CASE MarkFatal
    BY <2>1, <2>2, LossStays DEF EndInv, world
  <2>3. CASE UNCHANGED <<state, result, fatal, broken>>
    BY <2>1, <2>3 DEF EndInv, world
  <2>4. CASE /\ ~fatal /\ ~broken /\ CloseAnswered
             /\ Settle(Close, "applied") /\ UNCHANGED <<fatal, broken>>
    <3>1. state[Close] = "exiting"
      BY <2>1, <2>4 DEF CloseAnswered
    <3>2. state'[Close] = "settled" /\ stdin = <<>>
      BY <2>4, <3>1 DEF Settle, EndInv, IInv, TypeOK
    <3>. QED
      BY <2>1, <2>4, <3>2 DEF EndInv, world
  <2>. QED
    BY <1>9, <2>2, <2>3, <2>4 DEF Exit
<1>10. CASE Read
  <2>1. stdout = <<>> /\ stdin # <<>> /\ helper.at = "reading"
    BY <1>10, OneHolds DEF Read
  <2>2. \A i \in DOMAIN stdout : FALSE
    BY <2>1
  <2>. QED
    BY <1>10, <2>1, <2>2 DEF Read, EndInv, calls, client
<1>11. CASE Perform
  <2>1. helper.at = "serving" /\ stdout = <<>>
    BY <1>11, OneHolds DEF Perform, IInv, WireInv
  <2>2. \A i \in DOMAIN stdout : FALSE
    BY <2>1
  <2>. QED
    BY <1>11, <2>1, <2>2 DEF Perform, EndInv, calls, client
<1>12. CASE Answer
  <2>. DEFINE m == [req |-> helper.req, says |-> helper.says]
  <2>1. helper.at = "answering" /\ stdout = <<>> /\ stdout' = Append(stdout, m)
    BY <1>12, OneHolds DEF Answer, IInv, WireInv
  <2>2. stdout' = <<m>>
    BY <2>1
  <2>3. m.req = Close /\ m.says = "applied" => helper'.at = "leaving"
    BY <1>12 DEF Answer, Idle
  <2>4. \A i \in DOMAIN stdout' : stdout'[i] = m
    BY <2>2
  <2>5. ~ended /\ state[Close] # "exiting" /\ result[Close] # "applied"
    BY <2>1 DEF EndInv
  <2>. QED
    BY <1>12, <2>3, <2>4, <2>5 DEF Answer, EndInv, calls, client
<1>13. CASE Leave \/ Die
  <2>1. helper'.at = "gone" /\ UNCHANGED <<calls, client, stdin, stdout>>
    BY <1>13 DEF Leave, Die, Gone
  <2>. QED
    BY <2>1 DEF EndInv, calls, client
<1>14. CASE UNCHANGED vars
  BY <1>14 DEF EndInv, vars, calls, client, world
<1>. QED
  BY <1>1, <1>2, <1>3, <1>4, <1>5, <1>6, <1>7, <1>8, <1>9, <1>10, <1>11, <1>12, <1>13, <1>14 DEF Next

-----------------------------------------------------------------------------
LEMMA CloseInvHolds == Spec => []CloseInv
<1>1. Init => CloseInv
  BY DEF Init, CloseInv, OrderInv, EndInv, ClosePassed, Pending
<1>2. IInv /\ CloseInv /\ [Next]_vars => CloseInv'
  BY OrderKept, EndKept DEF CloseInv
<1>. QED
  BY <1>1, <1>2, Inductive, PTL DEF Spec

(* Once close has taken effect in the helper no call waits any more, none  *)
(* can still be performed, and a close that succeeded left no helper.      *)
THEOREM CloseComesLast == Spec => []CloseIsLast
<1>1. IInv /\ CloseInv => CloseIsLast
  <2>. SUFFICES ASSUME IInv, CloseInv PROVE CloseIsLast
    OBVIOUS
  <2>1. ASSUME Close \in done PROVE \A c \in Calls : state[c] \in {"idle", "settled"}
    <3>1. ClosePassed
      BY <2>1 DEF ClosePassed, IInv, TypeOK, WireInv
    <3>. QED
      BY <3>1 DEF CloseInv, OrderInv
  <2>2. result[Close] = "applied" =>
          helper.at = "gone" /\ stdin = <<>> /\ stdout = <<>> /\ ~fatal
    BY DEF CloseInv, EndInv
  <2>. QED
    BY <2>1, <2>2 DEF CloseIsLast
<1>. QED
  BY <1>1, Inductive, CloseInvHolds, PTL

(* The client is lost as soon as such an error is reported.                *)
ErrorInv == erred => fatal

LEMMA ErrorIsFatal == Spec => []ErrorInv
<1>1. Init => ErrorInv
  BY DEF Init, ErrorInv
<1>2. ErrorInv /\ [Next]_vars => ErrorInv'
  <2>. SUFFICES ASSUME ErrorInv, [Next]_vars PROVE ErrorInv'
    OBVIOUS
  <2>1. ASSUME NEW c \in Calls, Call(c) \/ Abort(c) PROVE ErrorInv'
    BY <2>1 DEF ErrorInv, Call, Abort, MarkFatal, client
  <2>2. CASE CallClose \/ Run \/ Accept
    BY <2>2 DEF ErrorInv, CallClose, Run, Accept, MarkFatal, client
  <2>3. CASE Break \/ Fail \/ Grace \/ StdoutEnd \/ Exit \/ ExitTimeout
    BY <2>3 DEF ErrorInv, Break, Fail, Grace, StdoutEnd, Exit, ExitTimeout, MarkFatal
  <2>4. CASE Read \/ Perform \/ Answer \/ Leave \/ Die \/ UNCHANGED vars
    BY <2>4 DEF ErrorInv, Read, Perform, Answer, Leave, Die, client, vars
  <2>. QED
    BY <2>1, <2>2, <2>3, <2>4 DEF Next
<1>. QED
  BY <1>1, <1>2, PTL DEF Spec

(* An answer that is in the pipe reaches its caller, unless the caller     *)
(* aborts, the grace period of a broken pipe ends, or the process reports  *)
(* an error of another kind: a death of the helper, the end of its output  *)
(* and its exit never come first.  Code: handleProcessFailure, onStdoutEnd,*)
(* onExit.                                                                 *)
THEOREM AnswersAreHeard == Spec => AnswersWin
<1>. DEFINE Heard ==
       \A i \in DOMAIN stdout :
         LET a == stdout[i] IN
           Pending(a.req) /\ a.says # "garbled" /\ result'[a.req] = "unknown"
             => \/ a.says = "unknown" \/ a.req \in aborted'
                \/ broken \/ (erred' /\ ~erred)
<1>1. IInv /\ CloseInv /\ ErrorInv /\ [Next]_vars => [Heard]_vars
  <2>. SUFFICES ASSUME IInv, CloseInv, ErrorInv, Next, NEW i \in DOMAIN stdout,
                       Pending(stdout[i].req), stdout[i].says # "garbled",
                       result'[stdout[i].req] = "unknown"
                PROVE  \/ stdout[i].says = "unknown" \/ stdout[i].req \in aborted'
                       \/ broken \/ (erred' /\ ~erred)
    OBVIOUS
  <2>. DEFINE r == stdout[i].req
  <2>1. i = 1 /\ Head(stdout) = stdout[i] /\ r \in Requests /\ stdout # <<>>
    <3>1. stdout # <<>>
      OBVIOUS
    <3>. QED
      BY <3>1, Waiting
  <2>2. result[r] = "none" /\ result'[r] # result[r]
    BY <2>1 DEF IInv, TypeOK, Pending
  <2>. HIDE DEF r
  <2>3. ASSUME NEW c \in Calls, Call(c) PROVE FALSE
    BY <2>1, <2>2, <2>3 DEF Call, Settle, Pending, IInv, TypeOK, r
  <2>4. ASSUME NEW c \in Calls, Abort(c) PROVE r \in aborted'
    <3>1. CASE state[c] = "queued" /\ Settle(c, "not-applied")
      BY <2>1, <2>2, <3>1 DEF Settle, Pending, IInv, TypeOK, r
    <3>2. CASE Pending(c)
      BY <2>1, <2>4, <3>2 DEF Abort, CloseInv, OrderInv, r
    <3>. QED
      BY <2>4, <3>1, <3>2 DEF Abort
  <2>5. ~Run
    BY <2>1 DEF Run, r
  <2>6. ASSUME Accept PROVE stdout[i].says = "unknown"
    <3>1. Settle(r, stdout[i].says) \/ UNCHANGED result
      BY <2>1, <2>6 DEF Accept, r
    <3>. QED
      BY <2>1, <2>2, <3>1 DEF Settle, IInv, TypeOK, r
  <2>7. Grace => broken
    BY DEF Grace
  <2>8. ~StdoutEnd /\ ~Exit
    BY <2>1 DEF StdoutEnd, Exit, CloseInv, EndInv
  <2>9. ~ExitTimeout
    BY <2>1 DEF ExitTimeout, CloseInv, EndInv
  <2>10. CallClose \/ Break \/ Read \/ Perform \/ Answer \/ Leave \/ Die => FALSE
    BY <2>2 DEF CallClose, Break, Read, Perform, Answer, Leave, Die, calls
  <2>11. Fail => erred' /\ ~erred
    BY DEF Fail, ErrorInv
  <2>. QED
    BY <2>3, <2>4, <2>5, <2>6, <2>7, <2>8, <2>9, <2>10, <2>11 DEF Next, r
<1>. QED
  BY <1>1, Inductive, CloseInvHolds, ErrorIsFatal, PTL DEF Spec, AnswersWin
=============================================================================
