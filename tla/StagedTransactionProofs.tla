---------------------- MODULE StagedTransactionProofs ----------------------
(***************************************************************************)
(* Conservation, TerminalIsStable, NoClobber, AccountsTruthful,            *)
(* ReservationInv and RecoverySettles of StagedTransaction, for any set of *)
(* operations, plans, names, crashes, faults and meddling.                 *)
(*                                                                         *)
(* StagedInv says what a call at each point of execute, and of recovery,   *)
(* may rely on.  It speaks of one operation at a time: operations share    *)
(* the conservation objects, which are only added to, and the cache.       *)
(* AccountInv adds what a call may rely on of its results and its markers, *)
(* Typed and Callable the shape of every variable, the link counts that a  *)
(* call remembers among them.  SettleInv is about a run in which nobody    *)
(* outside interfered: an operation in doubt has its destination, and what *)
(* is on disk is what recovery will compare it with.                       *)
(***************************************************************************)
EXTENDS StagedTransaction, FiniteSetTheorems, TLAPS

(* The points of execute before publication, with the name they hold.      *)
Holds     == {"stage", "staged", "verify", "transform", "transformed", "publish"}
Early     == {"idle", "reserve", "probe", "mark", "recheck", "duplicate"} \cup Holds
(* Those after it; those of them that are on the way to delete the source. *)
Deleting  == {"del-verify", "del-intent", "del-check", "delete", "restore", "deleted",
              "release", "unguard", "unguarded"}
Published == Deleting \cup {"linked", "committed", "abort", "finish", "dup-record",
                            "guard-stage", "guard"}
Ending    == {"catch", "catch-record"}
(* The points at which a record may have ended.                            *)
Resting   == {"done", "todo", "over"}
Places    == Names \cup {NoName}
OpFields  == {"cursor", "cand", "held", "staging", "ident", "committed", "intent",
              "residue", "unknown", "retained"}
RecFields == {"state", "committed", "dest", "staging", "ident", "rsv", "mark", "cons",
              "retained", "final"}

(* The part of the types that the argument needs.                          *)
Shape ==
  /\ plan \in Plans
  /\ orig \in [Ops -> {"path", "quarantine", "deleted", "user"}]
  /\ DOMAIN dst = Names
  /\ pc \in [Ops -> Labels]
  /\ cache \in [Contents -> Places]
  /\ DOMAIN op = Ops /\ DOMAIN rec = Ops
  /\ \A o \in Ops :
       /\ DOMAIN op[o] = OpFields /\ op[o].cand \in Places /\ op[o].committed \in BOOLEAN
       /\ DOMAIN rec[o] = RecFields /\ rec[o].dest \in Places

(* The bytes of the source are kept, and the journal says where they go.   *)
Secured(o) ==
  /\ o \in Moves /\ Out[o] \in objects
  /\ rec[o].cons /\ rec[o].committed /\ rec[o].dest \in Names
Taken(o) == orig[o] \in {"quarantine", "deleted"}

OpInv(o) ==
  /\ Taken(o) \/ pc[o] \in {"del-check", "delete"} => Secured(o)
  /\ pc[o] \in Early => ~Taken(o) /\ ~rec[o].committed
  /\ pc[o] \in {"mark", "recheck"} => op[o].cursor \in Names
  /\ pc[o] \in Holds \cup Published \cup {"duplicate"} => op[o].cand \in Names
  /\ pc[o] \in Published => op[o].committed
  /\ pc[o] \in Ending => (rec[o].committed => op[o].committed)
  /\ pc[o] \in Deleting => o \in Moves
  /\ pc[o] = "del-intent" => Out[o] \in objects
  /\ pc[o] = "r-discard" => ~rec[o].committed
  /\ pc[o] \notin Resting => rec[o].state \notin Reclaimable /\ ~rec[o].final

StagedInv == Shape /\ \A o \in Ops : OpInv(o)

USE DEF Early, Holds, Deleting, Published, Ending, Resting, Taken, Secured, Moves, Out

-----------------------------------------------------------------------------
OthersStay(o) ==
  \A p \in Ops \ {o} : /\ orig'[p] = orig[p] /\ pc'[p] = pc[p]
                       /\ op'[p] = op[p] /\ rec'[p] = rec[p]

(* A step of one operation: the others' parts of the invariant stay.       *)
LEMMA OneAtATime ==
  ASSUME StagedInv, NEW o \in Ops, UNCHANGED plan, objects \subseteq objects',
         Shape', OthersStay(o), OpInv(o)'
  PROVE  StagedInv'
<1>1. ASSUME NEW p \in Ops, p # o PROVE OpInv(p)'
  BY <1>1 DEF StagedInv, OthersStay, OpInv
<1>. QED
  BY <1>1 DEF StagedInv

Kept(o) == Shape' /\ OthersStay(o) /\ OpInv(o)' /\ objects \subseteq objects'

LEMMA Appended ==
  ASSUME Shape, NEW o \in Ops, NEW fields, Append(o, fields)
  PROVE  /\ DOMAIN rec' = Ops /\ DOMAIN rec'[o] = RecFields
         /\ \A p \in Ops \ {o} : rec'[p] = rec[p]
         /\ \A k \in RecFields : rec'[o][k] = IF k \in DOMAIN fields THEN fields[k] ELSE rec[o][k]
  BY DEF Append, Shape

(* Of the calls, and of the records, only those of o change.               *)
OnlyCall(o)   == /\ DOMAIN op' = Ops /\ DOMAIN op'[o] = OpFields
                 /\ \A p \in Ops \ {o} : op'[p] = op[p]
OnlyRecord(o) == /\ DOMAIN rec' = Ops /\ DOMAIN rec'[o] = RecFields
                 /\ \A p \in Ops \ {o} : rec'[p] = rec[p]

USE DEF OnlyCall, OnlyRecord

(* Only fields of the call that the argument does not speak of change.     *)
SameCall(o) ==
  /\ OnlyCall(o)
  /\ op'[o].cand = op[o].cand /\ op'[o].committed = op[o].committed

NewCall(o) ==
  /\ OnlyCall(o)
  /\ op'[o].cand = NoName /\ op'[o].committed = FALSE

LEMMA Returned ==
  ASSUME Shape, NEW o \in Ops, NEW st, NEW co, NEW re, NEW open,
         Return(o, st, co, re, open)
  PROVE  NewCall(o) /\ pc' = [pc EXCEPT ![o] = "done"]
  BY DEF Return, Shape, NewCall, Fresh, OpFields, Goto

(* A step to l that touches neither source nor record.                     *)
Glides(o, l) ==
  /\ SameCall(o) /\ pc' = [pc EXCEPT ![o] = l] /\ DOMAIN dst' = DOMAIN dst
  /\ UNCHANGED <<orig, objects, rec, cache>>

LEMMA Gliding ==
  ASSUME StagedInv, NEW o \in Ops, UNCHANGED plan, NEW l \in Labels, Glides(o, l), OpInv(o)'
  PROVE  Kept(o)
<1>1. Shape'
  BY DEF StagedInv, Shape, Glides, SameCall
<1>2. OthersStay(o)
  BY DEF StagedInv, Shape, Glides, SameCall, OthersStay
<1>. QED
  BY <1>1, <1>2 DEF Kept, Glides

(* Wherever execute throws, the catch block may rely on what it needs.     *)
LEMMA Throwing ==
  ASSUME StagedInv, NEW o \in Ops, UNCHANGED plan, pc[o] \in Early \cup Published,
         Glides(o, "catch")
  PROVE  Kept(o)
<1>1. pc'[o] = "catch" /\ "catch" \in Labels
  BY DEF Glides, StagedInv, Shape, Labels
<1>2. OpInv(o)'
  BY <1>1 DEF StagedInv, Glides, SameCall, OpInv
<1>. QED
  BY <1>1, <1>2, Gliding

LEMMA DeadThrows ==
  ASSUME StagedInv, NEW o \in Ops, UNCHANGED plan, pc[o] \in Early \cup Published, HelperDead(o)
  PROVE  Kept(o)
<1>1. Glides(o, "catch")
  BY DEF HelperDead, Throw, Goto, disk, Glides, SameCall, StagedInv, Shape, OpFields
<1>. QED
  BY <1>1, Throwing

-----------------------------------------------------------------------------
LEMMA Admitting == ASSUME StagedInv, NEW o \in Ops, UNCHANGED plan, Admit(o) PROVE Kept(o)
<1>1. CASE Start(o)
  <2>1. pc[o] = "idle" /\ UNCHANGED <<orig, dst, objects, cache, op>>
    BY <1>1 DEF Start, At, disk
  <2>2. CASE Throw(o) /\ UNCHANGED rec
    <3>1. Glides(o, "catch")
      BY <2>1, <2>2 DEF Throw, Goto, Glides, SameCall, StagedInv, Shape
    <3>. QED
      BY <2>1, <3>1, Throwing
  <2>3. CASE Append(o, [state |-> "planned"]) /\ Goto(o, "reserve")
    <3>1. /\ OnlyRecord(o) /\ rec'[o].state = "planned"
          /\ rec'[o].committed = rec[o].committed
          /\ rec'[o].final = rec[o].final /\ rec'[o].dest = rec[o].dest
          /\ rec'[o].cons = rec[o].cons
      BY <2>3, Appended DEF StagedInv, RecFields
    <3>2. Shape'
      BY <2>1, <2>3, <3>1 DEF Goto, StagedInv, Shape, Labels
    <3>3. OthersStay(o)
      BY <2>1, <2>3, <3>1 DEF Goto, StagedInv, Shape, OthersStay
    <3>4. OpInv(o)'
      BY <2>1, <2>3, <3>1 DEF Goto, StagedInv, Shape, OpInv, Reclaimable
    <3>. QED
      BY <2>1, <3>2, <3>3, <3>4 DEF Kept
  <2>. QED
    BY <1>1, <2>2, <2>3 DEF Start
<1>2. CASE Reserve(o)
  <2>1. pc[o] = "reserve" /\ Content[o] \in Contents
    BY <1>2, PlanAssumption DEF Reserve, At, Content, StagedInv, Shape
  <2>2. CASE /\ cache[Content[o]] # NoName
             /\ op' = [op EXCEPT ![o].cand = cache[Content[o]], ![o].held = FALSE]
             /\ Goto(o, "duplicate") /\ UNCHANGED <<disk, rec, cache>>
    <3>1. cache[Content[o]] \in Names
      BY <2>1, <2>2 DEF StagedInv, Shape, Places
    <3>2. /\ OnlyCall(o) /\ op'[o].cand = cache[Content[o]]
          /\ op'[o].committed = op[o].committed
      BY <2>2 DEF StagedInv, Shape, OpFields
    <3>3. pc' = [pc EXCEPT ![o] = "duplicate"] /\ UNCHANGED <<orig, dst, objects, rec, cache>>
      BY <2>2 DEF Goto, disk
    <3>4. Shape'
      BY <3>1, <3>2, <3>3 DEF StagedInv, Shape, Labels, Places
    <3>5. OthersStay(o)
      BY <3>2, <3>3 DEF StagedInv, Shape, OthersStay
    <3>6. OpInv(o)'
      BY <2>1, <3>1, <3>2, <3>3 DEF StagedInv, Shape, OpInv
    <3>. QED
      BY <3>3, <3>4, <3>5, <3>6 DEF Kept
  <2>3. CASE /\ op' = [op EXCEPT ![o].cursor = IF o \in Exact THEN 0 ELSE counter]
             /\ Goto(o, "probe") /\ UNCHANGED <<disk, rec, cache>>
    <3>1. Glides(o, "probe") /\ "probe" \in Labels /\ pc'[o] = "probe"
      BY <2>3 DEF Goto, disk, Glides, SameCall, StagedInv, Shape, OpFields, Labels
    <3>2. OpInv(o)'
      BY <2>1, <3>1 DEF StagedInv, Glides, SameCall, OpInv
    <3>. QED
      BY <3>1, <3>2, Gliding
  <2>. QED
    BY <1>2, <2>2, <2>3 DEF Reserve
<1>3. CASE Probe(o)
  <2>1. pc[o] = "probe" /\ op[o].cursor \in Names
    BY <1>3 DEF Probe, At
  <2>2. CASE /\ cache' = [cache EXCEPT ![Content[o]] = op[o].cursor]
             /\ op' = [op EXCEPT ![o].cand = op[o].cursor, ![o].held = FALSE]
             /\ Goto(o, "duplicate") /\ UNCHANGED <<disk, rec>>
    <3>1. /\ OnlyCall(o) /\ op'[o].cand = op[o].cursor
          /\ op'[o].committed = op[o].committed
      BY <2>2 DEF StagedInv, Shape, OpFields
    <3>2. pc' = [pc EXCEPT ![o] = "duplicate"] /\ UNCHANGED <<orig, dst, objects, rec>>
      BY <2>2 DEF Goto, disk
    <3>3. cache' \in [Contents -> Places]
      BY <2>1, <2>2 DEF StagedInv, Shape, Places
    <3>4. Shape'
      BY <2>1, <3>1, <3>2, <3>3 DEF StagedInv, Shape, Labels, Places
    <3>5. OthersStay(o)
      BY <3>1, <3>2 DEF StagedInv, Shape, OthersStay
    <3>6. OpInv(o)'
      BY <2>1, <3>1, <3>2 DEF StagedInv, Shape, OpInv
    <3>. QED
      BY <3>2, <3>4, <3>5, <3>6 DEF Kept
  <2>3. CASE Throw(o) /\ UNCHANGED <<op, cache, disk, rec>>
    <3>1. Glides(o, "catch")
      BY <2>3 DEF Throw, Goto, disk, Glides, SameCall, StagedInv, Shape
    <3>. QED
      BY <2>1, <3>1, Throwing
  <2>4. ASSUME NEW l \in {"probe", "mark"}, Goto(o, l), UNCHANGED <<cache, disk, rec>>,
               op' = op \/ (l = "probe" /\ op' = [op EXCEPT ![o].cursor = @ + 1])
        PROVE  Kept(o)
    <3>1. Glides(o, l) /\ l \in Labels /\ pc'[o] = l
      BY <2>4 DEF Goto, disk, Glides, SameCall, StagedInv, Shape, OpFields, Labels
    <3>2. l = "mark" => op'[o].cursor \in Names
      BY <2>1, <2>4
    <3>3. OpInv(o)'
      BY <2>1, <2>4, <3>1, <3>2 DEF StagedInv, Glides, SameCall, OpInv
    <3>. QED
      BY <3>1, <3>3, Gliding
  <2>. QED
    BY <1>3, <2>2, <2>3, <2>4 DEF Probe, Advance, mem
<1>4. CASE Mark(o)
  <2>1. pc[o] = "mark"
    BY <1>4 DEF Mark, At
  <2>2. CASE HelperDead(o)
    BY <2>1, <2>2, DeadThrows
  <2>3. CASE marker[op[o].cursor] # NoOp /\ Advance(o)
              /\ UNCHANGED <<disk, rec, life, counter, cache, out>>
    <3>1. CASE Throw(o) /\ UNCHANGED op
      <4>1. Glides(o, "catch")
        BY <2>3, <3>1 DEF Throw, Goto, disk, Glides, SameCall, StagedInv, Shape
      <4>. QED
        BY <2>1, <4>1, Throwing
    <3>2. CASE op' = [op EXCEPT ![o].cursor = @ + 1] /\ Goto(o, "probe")
      <4>1. Glides(o, "probe") /\ "probe" \in Labels /\ pc'[o] = "probe"
        BY <2>3, <3>2 DEF Goto, disk, Glides, SameCall, StagedInv, Shape, OpFields, Labels
      <4>2. OpInv(o)'
        BY <2>1, <4>1 DEF StagedInv, Glides, SameCall, OpInv
      <4>. QED
        BY <4>1, <4>2, Gliding
    <3>. QED
      BY <2>3, <3>1, <3>2 DEF Advance
  <2>4. CASE Goto(o, "recheck")
              /\ UNCHANGED <<orig, dst, file, objects, op, mem, rec, life, out>>
    <3>1. Glides(o, "recheck") /\ "recheck" \in Labels /\ pc'[o] = "recheck"
      BY <2>4 DEF Goto, mem, Glides, SameCall, StagedInv, Shape, Labels
    <3>2. OpInv(o)'
      BY <2>1, <2>4, <3>1 DEF StagedInv, Glides, SameCall, OpInv
    <3>. QED
      BY <3>1, <3>2, Gliding
  <2>. QED
    BY <1>4, <2>2, <2>3, <2>4 DEF Mark
<1>5. CASE Recheck(o)
  <2>1. pc[o] = "recheck" /\ op[o].cursor \in Names
    BY <1>5 DEF Recheck, At, StagedInv, OpInv
  <2>2. CASE Throw(o) /\ UNCHANGED <<dst, orig, objects, cache, op, rec>>
    <3>1. Glides(o, "catch")
      BY <2>2 DEF Throw, Goto, Glides, SameCall, StagedInv, Shape
    <3>. QED
      BY <2>1, <3>1, Throwing
  <2>3. CASE /\ op' = [op EXCEPT ![o].cursor = @ + 1] /\ Goto(o, "probe")
             /\ UNCHANGED <<dst, orig, objects, cache, rec>>
    <3>1. Glides(o, "probe") /\ "probe" \in Labels /\ pc'[o] = "probe"
      BY <2>3 DEF Goto, Glides, SameCall, StagedInv, Shape, OpFields, Labels
    <3>2. OpInv(o)'
      BY <2>1, <3>1 DEF StagedInv, Glides, SameCall, OpInv
    <3>. QED
      BY <3>1, <3>2, Gliding
  <2>4. CASE /\ op' = [op EXCEPT ![o].cand = op[o].cursor, ![o].held = TRUE]
             /\ \/ Goto(o, "publish") /\ UNCHANGED rec
                \/ /\ Goto(o, "stage")
                   /\ Append(o, [state |-> "reserved", dest |-> op[o].cursor,
                                 rsv |-> op[o].cursor, mark |-> op[o].cursor])
             /\ UNCHANGED <<dst, orig, objects, cache>>
    <3>1. PICK l \in {"publish", "stage"} : pc' = [pc EXCEPT ![o] = l]
      BY <2>4 DEF Goto
    <3>2. /\ OnlyCall(o) /\ op'[o].cand = op[o].cursor
          /\ op'[o].committed = op[o].committed
      BY <2>4 DEF StagedInv, Shape, OpFields
    <3>3. /\ OnlyRecord(o)
          /\ rec'[o].state \in {rec[o].state, "reserved"}
          /\ rec'[o].dest \in {rec[o].dest, op[o].cursor}
          /\ rec'[o].committed = rec[o].committed /\ rec'[o].cons = rec[o].cons
          /\ rec'[o].final = rec[o].final
      <4>1. CASE UNCHANGED rec
        BY <4>1 DEF StagedInv, Shape
      <4>2. CASE Append(o, [state |-> "reserved", dest |-> op[o].cursor,
                            rsv |-> op[o].cursor, mark |-> op[o].cursor])
        BY <4>2, Appended DEF StagedInv, RecFields
      <4>. QED
        BY <2>4, <4>1, <4>2
    <3>4. Shape'
      BY <2>1, <2>4, <3>1, <3>2, <3>3 DEF StagedInv, Shape, Labels, Places
    <3>5. OthersStay(o)
      BY <2>4, <3>1, <3>2, <3>3 DEF StagedInv, Shape, OthersStay
    <3>6. OpInv(o)'
      BY <2>1, <2>4, <3>1, <3>2, <3>3 DEF StagedInv, Shape, OpInv, Reclaimable
    <3>. QED
      BY <2>4, <3>4, <3>5, <3>6 DEF Kept
  <2>. QED
    BY <1>5, <2>2, <2>3, <2>4 DEF Recheck, Advance
<1>. QED
  BY <1>1, <1>2, <1>3, <1>4, <1>5 DEF Admit

-----------------------------------------------------------------------------
LEMMA Preparing == ASSUME StagedInv, NEW o \in Ops, UNCHANGED plan, Prepare(o) PROVE Kept(o)
<1>1. CASE Stage(o)
  <2>1. pc[o] = "stage"
    BY <1>1 DEF Stage, At
  <2>2. CASE HelperDead(o)
    BY <2>1, <2>2, DeadThrows
  <2>3. CASE Throw(o) /\ UNCHANGED <<disk, rec, life, counter, cache, op, out>>
    <3>1. Glides(o, "catch")
      BY <2>3 DEF Throw, Goto, disk, Glides, SameCall, StagedInv, Shape
    <3>. QED
      BY <2>1, <3>1, Throwing
  <2>4. CASE /\ op' = [op EXCEPT ![o].staging = "part",
                                 ![o].ident = [made |-> Content[o], links |-> 1]]
             /\ Goto(o, "staged")
             /\ UNCHANGED <<orig, dst, marker, objects, rec, life, mem, out>>
    <3>1. Glides(o, "staged") /\ "staged" \in Labels /\ pc'[o] = "staged"
      BY <2>4 DEF Goto, mem, Glides, SameCall, StagedInv, Shape, OpFields, Labels
    <3>2. OpInv(o)'
      BY <2>1, <3>1 DEF StagedInv, Glides, SameCall, OpInv
    <3>. QED
      BY <3>1, <3>2, Gliding
  <2>. QED
    BY <1>1, <2>2, <2>3, <2>4 DEF Stage
<1>2. CASE RecordStaged(o)
  <2>1. pc[o] = "staged" /\ UNCHANGED <<orig, dst, objects, cache, op>>
    BY <1>2 DEF RecordStaged, At, disk
  <2>2. PICK l \in {"catch", "verify"} : pc' = [pc EXCEPT ![o] = l]
    BY <1>2 DEF RecordStaged, Throw, Goto
  <2>3. /\ OnlyRecord(o)
        /\ rec'[o].state = "staged" /\ rec'[o].committed = rec[o].committed
        /\ rec'[o].final = rec[o].final /\ rec'[o].dest = rec[o].dest
        /\ rec'[o].cons = rec[o].cons
    BY <1>2, Appended DEF RecordStaged, StagedInv, RecFields
  <2>4. Shape'
    BY <2>1, <2>2, <2>3 DEF StagedInv, Shape, Labels
  <2>5. OthersStay(o)
    BY <2>1, <2>2, <2>3 DEF StagedInv, Shape, OthersStay
  <2>6. OpInv(o)'
    BY <2>1, <2>2, <2>3 DEF StagedInv, Shape, OpInv, Reclaimable
  <2>. QED
    BY <2>1, <2>4, <2>5, <2>6 DEF Kept
<1>3. CASE RecordVerified(o)
  <2>1. pc[o] = "verify" /\ UNCHANGED <<orig, dst, objects, cache, op>>
    BY <1>3 DEF RecordVerified, At, disk
  <2>2. PICK l \in {"catch", "transform", "publish"} : pc' = [pc EXCEPT ![o] = l]
    BY <1>3 DEF RecordVerified, Throw, Goto
  <2>3. /\ OnlyRecord(o) /\ rec'[o].state \in {rec[o].state, "verified"}
        /\ rec'[o].committed = rec[o].committed /\ rec'[o].final = rec[o].final
        /\ rec'[o].dest = rec[o].dest /\ rec'[o].cons = rec[o].cons
    <3>1. CASE Append(o, [state |-> "verified"])
      BY <3>1, Appended DEF StagedInv, RecFields
    <3>2. CASE UNCHANGED rec
      BY <3>2 DEF StagedInv, Shape
    <3>. QED
      BY <1>3, <3>1, <3>2 DEF RecordVerified
  <2>4. Shape'
    BY <2>1, <2>2, <2>3 DEF StagedInv, Shape, Labels
  <2>5. OthersStay(o)
    BY <2>1, <2>2, <2>3 DEF StagedInv, Shape, OthersStay
  <2>6. OpInv(o)'
    BY <2>1, <2>2, <2>3 DEF StagedInv, Shape, OpInv, Reclaimable
  <2>. QED
    BY <2>1, <2>4, <2>5, <2>6 DEF Kept
<1>4. CASE Transform(o)
  BY <1>4, PlanAssumption DEF Transform, StagedInv, Shape, Kept, OthersStay, OpInv, At, Goto,
     Throw, Unlock, life, Labels, OpFields, RecFields, Reclaimable, Places
<1>5. CASE RecordTransformed(o)
  <2>1. SameCall(o)
    BY <1>5 DEF RecordTransformed, StagedInv, Shape, OpFields, SameCall
  <2>2. PICK l \in {"publish", "catch"} : pc' = [pc EXCEPT ![o] = l]
    BY <1>5 DEF RecordTransformed, Goto, Throw
  <2>3. pc[o] = "transformed" /\ UNCHANGED <<orig, objects, cache, dst>>
    BY <1>5 DEF RecordTransformed, At, mem, disk
  <2>4. /\ OnlyRecord(o)
        /\ rec'[o].state \in {rec[o].state, "transformed"}
        /\ rec'[o].committed = rec[o].committed
        /\ rec'[o].final = rec[o].final /\ rec'[o].dest = rec[o].dest
        /\ rec'[o].cons = rec[o].cons
    <3>1. CASE UNCHANGED rec
      BY <3>1 DEF StagedInv, Shape
    <3>2. CASE Append(o, [state |-> "transformed", ident |-> Identity(o, "part")])
      BY <3>2, Appended DEF StagedInv, RecFields
    <3>. QED
      BY <3>1, <3>2, <1>5 DEF RecordTransformed
  <2>5. Shape'
    BY <2>1, <2>2, <2>3, <2>4 DEF StagedInv, Shape, SameCall, Labels
  <2>6. OthersStay(o)
    BY <2>1, <2>2, <2>3, <2>4 DEF StagedInv, Shape, SameCall, OthersStay
  <2>7. OpInv(o)'
    BY <2>1, <2>2, <2>3, <2>4 DEF StagedInv, Shape, SameCall, OpInv, Reclaimable
  <2>. QED
    BY <2>3, <2>5, <2>6, <2>7 DEF Kept
<1>. QED
  BY <1>1, <1>2, <1>3, <1>4, <1>5 DEF Prepare

-----------------------------------------------------------------------------
LEMMA Committing == ASSUME StagedInv, NEW o \in Ops, UNCHANGED plan, Commit(o) PROVE Kept(o)
<1>1. CASE Publish(o)
  <2>1. pc[o] = "publish" /\ op[o].cand \in Names
    BY <1>1 DEF Publish, At, StagedInv, OpInv
  <2>2. CASE HelperDead(o)
    BY <2>1, <2>2, DeadThrows
  <2>3. CASE Throw(o) /\ UNCHANGED <<disk, rec, life, counter, cache, op, out>>
    <3>1. Glides(o, "catch")
      BY <2>3 DEF Throw, Goto, disk, Glides, SameCall, StagedInv, Shape
    <3>. QED
      BY <2>1, <3>1, Throwing
  <2>4. CASE /\ op' = [op EXCEPT ![o].held = FALSE] /\ Goto(o, "reserve")
             /\ UNCHANGED <<orig, dst, file, objects, rec, life, mem, out>>
    <3>1. Glides(o, "reserve") /\ "reserve" \in Labels /\ pc'[o] = "reserve"
      BY <2>4 DEF Goto, mem, Glides, SameCall, StagedInv, Shape, OpFields, Labels
    <3>2. OpInv(o)'
      BY <2>1, <3>1 DEF StagedInv, Glides, SameCall, OpInv
    <3>. QED
      BY <3>1, <3>2, Gliding
  <2>5. CASE /\ dst' = [dst EXCEPT ![op[o].cand] = Linked(o)]
             /\ op' = [op EXCEPT ![o].ident.links = @ + 1, ![o].committed = TRUE]
             /\ Goto(o, "linked")
             /\ UNCHANGED <<orig, file, marker, objects, rec, life, mem, out>>
    <3>1. /\ OnlyCall(o) /\ op'[o].cand = op[o].cand
          /\ op'[o].committed = TRUE
      BY <2>5 DEF StagedInv, Shape, OpFields
    <3>2. pc' = [pc EXCEPT ![o] = "linked"] /\ DOMAIN dst' = DOMAIN dst /\ UNCHANGED cache
      BY <2>5 DEF Goto, mem
    <3>3. Shape'
      BY <2>5, <3>1, <3>2 DEF StagedInv, Shape, Labels
    <3>4. OthersStay(o)
      BY <2>5, <3>1, <3>2 DEF StagedInv, Shape, OthersStay
    <3>5. OpInv(o)'
      BY <2>1, <2>5, <3>1, <3>2 DEF StagedInv, Shape, OpInv
    <3>. QED
      BY <2>5, <3>3, <3>4, <3>5 DEF Kept
  <2>. QED
    BY <1>1, <2>2, <2>3, <2>4, <2>5 DEF Publish
<1>2. CASE RecordCommitted(o)
  <2>1. pc[o] = "linked" /\ op[o].cand \in Names /\ op[o].committed
    BY <1>2 DEF RecordCommitted, At, StagedInv, OpInv
  <2>2. CASE Throw(o) /\ UNCHANGED <<cache, rec, disk, life, counter, op, out>>
    <3>1. Glides(o, "catch")
      BY <2>2 DEF Throw, Goto, disk, Glides, SameCall, StagedInv, Shape
    <3>. QED
      BY <2>1, <3>1, Throwing
  <2>3. CASE /\ cache' = [cache EXCEPT ![Out[o]] = op[o].cand]
             /\ Append(o, [state |-> "committed", committed |-> TRUE, dest |-> op[o].cand,
                           staging |-> "part", ident |-> op[o].ident,
                           rsv |-> op[o].cand, mark |-> op[o].cand])
             /\ Goto(o, "committed") /\ UNCHANGED <<disk, op>>
    <3>1. /\ OnlyRecord(o)
          /\ rec'[o].state = "committed" /\ rec'[o].dest = op[o].cand
          /\ rec'[o].committed = TRUE
          /\ rec'[o].cons = rec[o].cons /\ rec'[o].final = rec[o].final
      BY <2>3, Appended DEF StagedInv, RecFields
    <3>2. pc' = [pc EXCEPT ![o] = "committed"] /\ UNCHANGED <<orig, dst, objects, op>>
      BY <2>3 DEF Goto, disk
    <3>3. Shape'
      BY <2>1, <2>3, <3>1, <3>2 DEF StagedInv, Shape, Labels, Places
    <3>4. OthersStay(o)
      BY <3>1, <3>2 DEF StagedInv, Shape, OthersStay
    <3>5. OpInv(o)'
      BY <2>1, <3>1, <3>2 DEF StagedInv, Shape, OpInv, Reclaimable
    <3>. QED
      BY <3>2, <3>3, <3>4, <3>5 DEF Kept
  <2>. QED
    BY <1>2, <2>2, <2>3 DEF RecordCommitted
<1>3. CASE AfterCommit(o)
  <2>1. SameCall(o)
    <3>1. op' = op \/ \E v : op' = [op EXCEPT ![o].residue = v]
      BY <1>3 DEF AfterCommit, CleanStaging
    <3>. QED
      BY <3>1 DEF StagedInv, Shape, OpFields, SameCall
  <2>2. PICK l \in {"del-verify", "abort", "finish"} :
          pc' = [pc EXCEPT ![o] = l] /\ (l = "del-verify" => o \in Moves)
    BY <1>3 DEF AfterCommit, Goto
  <2>3. pc[o] = "committed" /\ UNCHANGED <<orig, dst, objects, rec, cache>>
    BY <1>3 DEF AfterCommit, At, mem
  <2>4. Shape'
    BY <2>1, <2>2, <2>3 DEF StagedInv, Shape, SameCall, Labels
  <2>5. OthersStay(o)
    BY <2>1, <2>2, <2>3 DEF StagedInv, Shape, SameCall, OthersStay
  <2>6. OpInv(o)'
    BY <2>1, <2>2, <2>3 DEF StagedInv, Shape, SameCall, OpInv
  <2>. QED
    BY <2>3, <2>4, <2>5, <2>6 DEF Kept
<1>4. CASE RecordAbort(o)
  <2>1. NewCall(o) /\ pc' = [pc EXCEPT ![o] = "done"]
    BY Returned, <1>4 DEF RecordAbort, StagedInv
  <2>2. pc[o] = "abort" /\ UNCHANGED <<orig, dst, objects, cache>>
    BY <1>4 DEF RecordAbort, At, mem, disk
  <2>3. /\ OnlyRecord(o)
        /\ rec'[o].cons = rec[o].cons /\ rec'[o].dest = rec[o].dest
        /\ rec[o].committed => rec'[o].committed
    <3>1. CASE UNCHANGED rec
      BY <3>1 DEF StagedInv, Shape
    <3>2. CASE Append(o, [state |-> "cancelled", committed |-> TRUE, retained |-> TRUE])
      BY <3>2, Appended DEF StagedInv, RecFields
    <3>. QED
      BY <3>1, <3>2, <1>4 DEF RecordAbort
  <2>4. Shape'
    <3>1. rec'[o].dest \in Places
              /\ \A p \in Ops : DOMAIN rec'[p] = RecFields /\ rec'[p].dest \in Places
      BY <2>3 DEF StagedInv, Shape
    <3>2. pc' \in [Ops -> Labels]
      BY <2>1 DEF StagedInv, Shape, Labels
    <3>. QED
      BY <3>1, <3>2, <2>1, <2>2, <2>3 DEF StagedInv, Shape, NewCall, Places
  <2>5. OthersStay(o)
    BY <2>1, <2>2, <2>3 DEF StagedInv, Shape, NewCall, OthersStay
  <2>6. OpInv(o)'
    BY <2>1, <2>2, <2>3 DEF StagedInv, Shape, NewCall, OpInv
  <2>. QED
    BY <2>2, <2>4, <2>5, <2>6 DEF Kept
<1>. QED
  BY <1>1, <1>2, <1>3, <1>4 DEF Commit

-----------------------------------------------------------------------------
LEMMA Removing == ASSUME StagedInv, NEW o \in Ops, UNCHANGED plan, Remove(o) PROVE Kept(o)
<1>1. CASE DelVerify(o)
  <2>1. Shape'
    BY <1>1, PlanAssumption DEF DelVerify, Protected, DestOk, StagedInv, Shape, OpInv, Labels,
       At, Goto, Throw, Unlock, HelperDead, disk, life, mem, OpFields, RecFields, Places
  <2>2. OthersStay(o)
    BY <1>1 DEF DelVerify, Protected, DestOk, StagedInv, Shape, OthersStay, At, Goto, Throw,
       Unlock, HelperDead, disk, life, mem, OpFields, RecFields, Places
  <2>3. OpInv(o)'
    BY <1>1, PlanAssumption DEF DelVerify, Protected, DestOk, StagedInv, Shape, OpInv,
       Reclaimable, At, Goto, Throw, Unlock, HelperDead, disk, life, mem, OpFields, RecFields,
       Places
  <2>4. objects \subseteq objects'
    BY <1>1 DEF DelVerify, Protected, DestOk, At, Goto, Throw, Unlock, HelperDead, disk, life,
       mem, OpFields, RecFields, Places
  <2>. QED
    BY <2>1, <2>2, <2>3, <2>4 DEF Kept
<1>2. CASE DelIntent(o)
  <2>1. Shape'
    BY <1>2, PlanAssumption DEF DelIntent, StagedInv, Shape, OpInv, Labels, At, Goto, Append,
       disk, life, mem, OpFields, RecFields, Places
  <2>2. OthersStay(o)
    BY <1>2 DEF DelIntent, StagedInv, Shape, OthersStay, At, Goto, Append, disk, life, mem,
       OpFields, RecFields, Places
  <2>3. OpInv(o)'
    BY <1>2, PlanAssumption DEF DelIntent, StagedInv, Shape, OpInv, Reclaimable, At, Goto,
       Append, disk, life, mem, OpFields, RecFields, Places
  <2>4. objects \subseteq objects'
    BY <1>2 DEF DelIntent, At, Goto, Append, disk, life, mem, OpFields, RecFields, Places
  <2>. QED
    BY <2>1, <2>2, <2>3, <2>4 DEF Kept
<1>3. CASE DelCheck(o)
  BY <1>3, PlanAssumption DEF DelCheck, Protected, DestOk, StagedInv, Shape, Kept, OthersStay,
     OpInv, At, Goto, Throw, Unlock, disk, life, Labels, OpFields, RecFields, Reclaimable,
     Places
<1>4. CASE Delete(o)
  <2>1. pc[o] = "delete" /\ Secured(o) /\ op[o].committed
    BY <1>4 DEF Delete, At, StagedInv, OpInv
  <2>2. CASE HelperDead(o)
    BY <2>1, <2>2, DeadThrows
  <2>3. CASE Throw(o) /\ UNCHANGED <<disk, rec, life, counter, cache, op, out>>
    <3>1. Glides(o, "catch")
      BY <2>3 DEF Throw, Goto, disk, Glides, SameCall, StagedInv, Shape
    <3>. QED
      BY <2>1, <3>1, Throwing
  <2>4. CASE /\ orig' = [orig EXCEPT ![o] = "deleted"] /\ Goto(o, "restore")
             /\ UNCHANGED <<dst, file, marker, objects, rec, life, mem, op, out>>
    <3>1. pc' = [pc EXCEPT ![o] = "restore"] /\ UNCHANGED cache
      BY <2>4 DEF Goto, mem
    <3>2. Shape'
      BY <2>4, <3>1 DEF StagedInv, Shape, Labels
    <3>3. OthersStay(o)
      BY <2>4, <3>1 DEF StagedInv, Shape, OthersStay
    <3>4. OpInv(o)'
      BY <2>1, <2>4, <3>1 DEF StagedInv, Shape, OpInv
    <3>. QED
      BY <2>4, <3>2, <3>3, <3>4 DEF Kept
  <2>. QED
    BY <1>4, <2>2, <2>3, <2>4 DEF Delete
<1>5. CASE Restore(o)
  <2>1. pc[o] = "restore"
    BY <1>5 DEF Restore, At
  <2>2. CASE HelperDead(o)
    BY <2>1, <2>2, DeadThrows
  <2>3. CASE /\ op' = op \/ \E v : op' = [op EXCEPT ![o].residue = v]
             /\ Throw(o) /\ UNCHANGED <<disk, rec, life, counter, cache, out>>
    <3>1. Glides(o, "catch")
      BY <2>3 DEF Throw, Goto, disk, Glides, SameCall, StagedInv, Shape, OpFields
    <3>. QED
      BY <2>1, <3>1, Throwing
  <2>4. CASE /\ Goto(o, "deleted") /\ UNCHANGED <<orig, objects, rec, mem, op>>
             /\ \/ dst' = dst
                \/ dst' = [dst EXCEPT ![op[o].cand] = [content |-> Out[o], ino |-> <<o, op[o].staging>>]]
    <3>1. Glides(o, "deleted") /\ "deleted" \in Labels /\ pc'[o] = "deleted"
      BY <2>4 DEF Goto, mem, Glides, SameCall, StagedInv, Shape, Labels
    <3>2. OpInv(o)'
      BY <2>1, <3>1 DEF StagedInv, Glides, SameCall, OpInv
    <3>. QED
      BY <3>1, <3>2, Gliding
  <2>. QED
    BY <1>5, <2>2, <2>3, <2>4 DEF Restore, RestoreFromGuard, disk
<1>6. CASE RecordDeleted(o)
  BY <1>6, PlanAssumption DEF RecordDeleted, StagedInv, Shape, Kept, OthersStay, OpInv, At,
     Goto, Append, disk, life, mem, Labels, OpFields, RecFields, Reclaimable, Places
<1>7. CASE Release(o)
  <2>1. pc[o] = "release"
    BY <1>7 DEF Release, At
  <2>2. CASE HelperDead(o)
    BY <2>1, <2>2, DeadThrows
  <2>3. CASE /\ op' = op \/ \E v : op' = [op EXCEPT ![o].residue = v]
             /\ Throw(o) /\ UNCHANGED <<disk, rec, life, counter, cache, out>>
    <3>1. Glides(o, "catch")
      BY <2>3 DEF Throw, Goto, disk, Glides, SameCall, StagedInv, Shape, OpFields
    <3>. QED
      BY <2>1, <3>1, Throwing
  <2>4. CASE /\ Goto(o, "unguard") /\ UNCHANGED <<orig, objects, rec, mem, op>>
             /\ \/ dst' = dst
                \/ dst' = [dst EXCEPT ![op[o].cand] = [content |-> Out[o], ino |-> <<o, op[o].staging>>]]
    <3>1. Glides(o, "unguard") /\ "unguard" \in Labels /\ pc'[o] = "unguard"
      BY <2>4 DEF Goto, mem, Glides, SameCall, StagedInv, Shape, Labels
    <3>2. OpInv(o)'
      BY <2>1, <3>1 DEF StagedInv, Glides, SameCall, OpInv
    <3>. QED
      BY <3>1, <3>2, Gliding
  <2>. QED
    BY <1>7, <2>2, <2>3, <2>4 DEF Release, RestoreFromGuard, disk
<1>8. CASE Unguard(o)
  <2>1. pc[o] = "unguard"
    BY <1>8 DEF Unguard, At
  <2>2. CASE HelperDead(o)
    BY <2>1, <2>2, DeadThrows
  <2>3. CASE Throw(o) /\ op' = [op EXCEPT ![o].residue = TRUE]
              /\ UNCHANGED <<disk, rec, cache>>
    <3>1. Glides(o, "catch")
      BY <2>3 DEF Throw, Goto, disk, Glides, SameCall, StagedInv, Shape, OpFields
    <3>. QED
      BY <2>1, <3>1, Throwing
  <2>4. CASE Goto(o, "unguarded")
              /\ UNCHANGED <<op, orig, dst, marker, objects, rec, cache>>
    <3>1. Glides(o, "unguarded") /\ "unguarded" \in Labels /\ pc'[o] = "unguarded"
      BY <2>4 DEF Goto, Glides, SameCall, StagedInv, Shape, Labels
    <3>2. OpInv(o)'
      BY <2>1, <3>1 DEF StagedInv, Glides, SameCall, OpInv
    <3>. QED
      BY <3>1, <3>2, Gliding
  <2>. QED
    BY <1>8, <2>2, <2>3, <2>4 DEF Unguard
<1>9. CASE Unguarded(o)
  <2>1. pc[o] = "unguarded"
    BY <1>9 DEF Unguarded, At
  <2>2. ASSUME NEW l \in {"finish", "catch"}, pc' = [pc EXCEPT ![o] = l], NEW v,
               op' = [op EXCEPT ![o].residue = v], UNCHANGED <<orig, dst, objects, rec, cache>>
        PROVE  Kept(o)
    <3>1. Glides(o, l) /\ l \in Labels /\ pc'[o] = l
      BY <2>2 DEF Glides, SameCall, StagedInv, Shape, OpFields, Labels
    <3>2. OpInv(o)'
      BY <2>1, <2>2, <3>1 DEF StagedInv, Glides, SameCall, OpInv
    <3>. QED
      BY <3>1, <3>2, Gliding
  <2>. QED
    BY <1>9, <2>2 DEF Unguarded, Goto, Throw
<1>10. CASE Finish(o)
  <2>1. NewCall(o) /\ pc' = [pc EXCEPT ![o] = "done"]
    BY <1>10, Returned DEF Finish, StagedInv
  <2>2. pc[o] = "finish" /\ op[o].cand \in Names /\ UNCHANGED <<orig, dst, objects, cache>>
    BY <1>10 DEF Finish, At, disk, mem, StagedInv, OpInv
  <2>3. /\ OnlyRecord(o) /\ rec'[o].dest \in {rec[o].dest, op[o].cand}
        /\ rec'[o].committed = TRUE
        /\ rec'[o].cons = rec[o].cons
    BY <1>10, Appended DEF Finish, StagedInv, RecFields
  <2>4. Shape'
    BY <2>1, <2>2, <2>3 DEF StagedInv, Shape, NewCall, Labels, Places
  <2>5. OthersStay(o)
    BY <2>1, <2>2, <2>3 DEF StagedInv, Shape, NewCall, OthersStay
  <2>6. OpInv(o)'
    BY <2>1, <2>2, <2>3 DEF StagedInv, Shape, NewCall, OpInv
  <2>. QED
    BY <2>2, <2>4, <2>5, <2>6 DEF Kept
<1>. QED
  BY <1>1, <1>2, <1>3, <1>4, <1>5, <1>6, <1>7, <1>8, <1>9, <1>10 DEF Remove

-----------------------------------------------------------------------------
LEMMA Duplicating == ASSUME StagedInv, NEW o \in Ops, UNCHANGED plan, Same(o) PROVE Kept(o)
<1>1. CASE Duplicate(o)
  <2>1. /\ OnlyCall(o)
        /\ op'[o].cand = op[o].cand /\ op'[o].committed = TRUE
    <3>1. \/ op' = [op EXCEPT ![o].committed = TRUE]
          \/ \E v : op' = [op EXCEPT ![o].committed = TRUE, ![o].staging = "none", ![o].residue = v]
      BY <1>1 DEF Duplicate
    <3>. QED
      BY <3>1 DEF StagedInv, Shape, OpFields
  <2>2. PICK l \in {"guard-stage", "dup-record"} : pc' = [pc EXCEPT ![o] = l]
    BY <1>1 DEF Duplicate, Goto
  <2>3. pc[o] = "duplicate" /\ UNCHANGED <<orig, dst, objects, rec>>
    BY <1>1 DEF Duplicate, At
  <2>4. op[o].cand \in Names
    BY <2>3 DEF StagedInv, OpInv
  <2>5. cache' \in [Contents -> Places]
    BY <2>4, <1>1 DEF Duplicate, StagedInv, Shape, Places
  <2>6. op'[o].committed \in BOOLEAN
    BY <2>1
  <2>7. Shape'
    BY <2>1, <2>2, <2>3, <2>4, <2>5, <2>6 DEF StagedInv, Shape, Labels
  <2>8. OthersStay(o)
    BY <2>1, <2>2, <2>3 DEF StagedInv, Shape, OthersStay
  <2>9. OpInv(o)'
    BY <2>1, <2>2, <2>3, <2>4 DEF StagedInv, Shape, OpInv
  <2>. QED
    BY <2>3, <2>7, <2>8, <2>9 DEF Kept
<1>2. CASE RecordDuplicate(o)
  <2>1. NewCall(o) /\ pc' = [pc EXCEPT ![o] = "done"]
    BY <1>2, Returned DEF RecordDuplicate, StagedInv
  <2>2. pc[o] = "dup-record" /\ op[o].cand \in Names /\ UNCHANGED <<orig, dst, objects, cache>>
    BY <1>2 DEF RecordDuplicate, At, disk, mem, StagedInv, OpInv
  <2>3. /\ OnlyRecord(o) /\ rec'[o].dest \in {rec[o].dest, op[o].cand}
        /\ rec'[o].committed = TRUE
        /\ rec'[o].cons = rec[o].cons
    BY <1>2, Appended DEF RecordDuplicate, StagedInv, RecFields
  <2>4. Shape'
    BY <2>1, <2>2, <2>3 DEF StagedInv, Shape, NewCall, Labels, Places
  <2>5. OthersStay(o)
    BY <2>1, <2>2, <2>3 DEF StagedInv, Shape, NewCall, OthersStay
  <2>6. OpInv(o)'
    BY <2>1, <2>2, <2>3 DEF StagedInv, Shape, NewCall, OpInv
  <2>. QED
    BY <2>2, <2>4, <2>5, <2>6 DEF Kept
<1>3. CASE GuardStage(o)
  <2>1. pc[o] = "guard-stage"
    BY <1>3 DEF GuardStage, At
  <2>2. CASE HelperDead(o)
    BY <2>1, <2>2, DeadThrows
  <2>3. CASE Throw(o) /\ UNCHANGED <<disk, rec, life, counter, cache, op, out>>
    <3>1. Glides(o, "catch")
      BY <2>3 DEF Throw, Goto, disk, Glides, SameCall, StagedInv, Shape
    <3>. QED
      BY <2>1, <3>1, Throwing
  <2>4. CASE /\ op' = [op EXCEPT ![o].staging = "guard",
                                 ![o].ident = [made |-> Content[o], links |-> 1]]
             /\ Goto(o, "guard")
             /\ UNCHANGED <<orig, dst, marker, objects, rec, life, mem, out>>
    <3>1. Glides(o, "guard") /\ "guard" \in Labels /\ pc'[o] = "guard"
      BY <2>4 DEF Goto, mem, Glides, SameCall, StagedInv, Shape, OpFields, Labels
    <3>2. OpInv(o)'
      BY <2>1, <3>1 DEF StagedInv, Glides, SameCall, OpInv
    <3>. QED
      BY <3>1, <3>2, Gliding
  <2>. QED
    BY <1>3, <2>2, <2>3, <2>4 DEF GuardStage
<1>4. CASE RecordGuard(o)
  BY <1>4, PlanAssumption DEF RecordGuard, StagedInv, Shape, Kept, OthersStay, OpInv, At, Goto,
     Append, disk, life, mem, Labels, OpFields, RecFields, Reclaimable, Places
<1>. QED
  BY <1>1, <1>2, <1>3, <1>4 DEF Same

-----------------------------------------------------------------------------
LEMMA Catching == ASSUME StagedInv, NEW o \in Ops, UNCHANGED plan, Catch(o) PROVE Kept(o)
<1>1. CASE CatchClean(o)
  BY <1>1, PlanAssumption DEF CatchClean, StagedInv, Shape, Kept, OthersStay, OpInv, At, Goto,
     life, mem, Labels, OpFields, RecFields, Reclaimable, Places
<1>2. CASE CatchRecord(o)
  <2>1. NewCall(o) /\ pc' = [pc EXCEPT ![o] = "done"]
    BY Returned, <1>2 DEF CatchRecord, ReturnFailure, StagedInv
  <2>2. pc[o] = "catch-record" /\ UNCHANGED <<orig, dst, objects, cache>>
    BY <1>2 DEF CatchRecord, At, mem, disk
  <2>3. /\ OnlyRecord(o)
        /\ rec'[o].cons = rec[o].cons /\ rec'[o].dest \in Places
        /\ rec[o].dest \in Names => rec'[o].dest \in Names
        /\ rec[o].committed => rec'[o].committed
    <3>1. CASE UNCHANGED rec
      BY <3>1 DEF StagedInv, Shape
    <3>. DEFINE said == [state |-> IF o \in cancelled THEN "cancelled" ELSE "failed",
                committed |-> op[o].committed, retained |-> op[o].retained,
                dest |-> IF op[o].cand = NoName THEN rec[o].dest ELSE op[o].cand,
                staging |-> IF op[o].staging = "none" THEN rec[o].staging ELSE op[o].staging,
                rsv |-> IF op[o].held THEN op[o].cand ELSE rec[o].rsv]
    <3>2. CASE Append(o, said)
      <4>1. \A k \in RecFields : rec'[o][k] = IF k \in DOMAIN said THEN said[k] ELSE rec[o][k]
        BY <3>2, Appended DEF StagedInv
      <4>2. /\ rec'[o].cons = rec[o].cons /\ rec'[o].committed = op[o].committed
            /\ rec'[o].dest = IF op[o].cand = NoName THEN rec[o].dest ELSE op[o].cand
        BY <4>1 DEF RecFields
      <4>3. rec[o].committed => op[o].committed
        BY <2>2 DEF StagedInv, OpInv
      <4>4. op[o].cand \in Places /\ rec[o].dest \in Places
        BY DEF StagedInv, Shape
      <4>. QED
        BY <3>2, <4>2, <4>3, <4>4, Appended DEF StagedInv, Places
    <3>. QED
      BY <3>1, <3>2, <1>2 DEF CatchRecord, AppendFailure, Status
  <2>4. Shape'
    BY <2>1, <2>2, <2>3 DEF StagedInv, Shape, NewCall, Labels, Places
  <2>5. OthersStay(o)
    BY <2>1, <2>2, <2>3 DEF StagedInv, Shape, NewCall, OthersStay
  <2>6. OpInv(o)'
    BY <2>1, <2>2, <2>3 DEF StagedInv, Shape, NewCall, OpInv
  <2>. QED
    BY <2>2, <2>4, <2>5, <2>6 DEF Kept
<1>. QED
  BY <1>1, <1>2 DEF Catch

-----------------------------------------------------------------------------
LEMMA Recovered == ASSUME StagedInv, NEW o \in Ops, UNCHANGED plan, Recover(o) PROVE Kept(o)
<1>1. CASE RecoverSkip(o)
  BY <1>1, PlanAssumption DEF RecoverSkip, Recovering, StagedInv, Shape, Kept, OthersStay,
     OpInv, Goto, disk, life, mem, Labels, OpFields, RecFields, Reclaimable, Places
<1>2. CASE RecoverTerminal(o)
  BY <1>2, PlanAssumption DEF RecoverTerminal, Recovering, StagedInv, Shape, Kept, OthersStay,
     OpInv, Goto, life, mem, Labels, OpFields, RecFields, Reclaimable, Places
<1>3. CASE RecoverPending(o)
  <2>1. pc[o] = "todo" /\ ~rec[o].final /\ rec[o].state = "source-delete-pending"
    BY <1>3 DEF RecoverPending, Recovering
  <2>2. /\ UNCHANGED <<dst, objects, cache, op>>
        /\ \E l \in {"r-restore", "over"} : pc' = [pc EXCEPT ![o] = l]
    BY <1>3 DEF RecoverPending, Goto, mem
  <2>3. CASE UNCHANGED <<orig, rec>>
    <3>1. PICK l \in {"r-restore", "over"} : pc' = [pc EXCEPT ![o] = l]
      BY <2>2
    <3>2. Glides(o, l) /\ l \in Labels /\ pc'[o] = l
      BY <2>2, <2>3, <3>1 DEF Glides, SameCall, StagedInv, Shape, Labels
    <3>3. OpInv(o)'
      BY <2>1, <3>1, <3>2 DEF StagedInv, Glides, SameCall, OpInv, Reclaimable
    <3>. QED
      BY <3>2, <3>3, Gliding
  <2>4. CASE /\ orig[o] \in {"quarantine", "deleted"}
              /\ orig' = [orig EXCEPT ![o] = "deleted"]
             /\ Append(o, [state |-> "source-deleted", retained |-> FALSE])
    <3>1. PICK l \in {"r-restore", "over"} : pc' = [pc EXCEPT ![o] = l]
      BY <2>2
    <3>2. /\ OnlyRecord(o)
          /\ rec'[o].state = "source-deleted" /\ rec'[o].committed = rec[o].committed
          /\ rec'[o].final = rec[o].final /\ rec'[o].dest = rec[o].dest
          /\ rec'[o].cons = rec[o].cons
      BY <2>4, Appended DEF StagedInv, RecFields
    <3>3. Shape'
      BY <2>2, <2>4, <3>1, <3>2 DEF StagedInv, Shape, Labels
    <3>4. OthersStay(o)
      BY <2>2, <2>4, <3>1, <3>2 DEF StagedInv, Shape, OthersStay
    <3>5. OpInv(o)'
      BY <2>1, <2>2, <2>4, <3>1, <3>2 DEF StagedInv, Shape, OpInv, Reclaimable
    <3>. QED
      BY <2>2, <3>3, <3>4, <3>5 DEF Kept
  <2>. QED
    BY <1>3, <2>3, <2>4 DEF RecoverPending
<1>4. CASE RecoverOther(o)
  BY <1>4, PlanAssumption DEF RecoverOther, Recovering, StagedInv, Shape, Kept, OthersStay,
     OpInv, Goto, disk, life, mem, Labels, OpFields, RecFields, Reclaimable, Places
<1>5. CASE RecoverRestore(o)
  BY <1>5, PlanAssumption DEF RecoverRestore, Recovering, StagedInv, Shape, Kept, OthersStay,
     OpInv, Goto, life, mem, Labels, OpFields, RecFields, Reclaimable, Places
<1>6. CASE RecoverClean(o)
  BY <1>6, PlanAssumption DEF RecoverClean, Recovering, StagedInv, Shape, Kept, OthersStay,
     OpInv, Goto, life, mem, Labels, OpFields, RecFields, Reclaimable, Places
<1>7. CASE RecoverRecord(o)
  <2>1. pc[o] = "r-record" /\ UNCHANGED <<orig, dst, objects, cache>>
    BY <1>7 DEF RecoverRecord, Recovering, disk, mem
  <2>2. NewCall(o) /\ pc' = [pc EXCEPT ![o] = "over"]
    BY <1>7 DEF RecoverRecord, Goto, NewCall, Fresh, StagedInv, Shape, OpFields
  <2>3. /\ OnlyRecord(o) /\ rec'[o].dest = rec[o].dest /\ rec'[o].committed = TRUE
        /\ rec'[o].cons = rec[o].cons
    BY <1>7, Appended DEF RecoverRecord, StagedInv, RecFields
  <2>4. Shape'
    BY <2>1, <2>2, <2>3 DEF StagedInv, Shape, NewCall, Labels, Places
  <2>5. OthersStay(o)
    BY <2>1, <2>2, <2>3 DEF StagedInv, Shape, NewCall, OthersStay
  <2>6. OpInv(o)'
    BY <2>1, <2>2, <2>3 DEF StagedInv, Shape, NewCall, OpInv
  <2>. QED
    BY <2>1, <2>4, <2>5, <2>6 DEF Kept
<1>8. CASE RecoverFail(o)
  BY <1>8, PlanAssumption DEF RecoverFail, Recovering, StagedInv, Shape, Kept, OthersStay,
     OpInv, Goto, Append, disk, life, mem, Labels, OpFields, RecFields, Reclaimable, Places
<1>9. CASE RecoverDiscard(o)
  BY <1>9, PlanAssumption DEF RecoverDiscard, Recovering, StagedInv, Shape, Kept, OthersStay,
     OpInv, Goto, Append, life, mem, Labels, OpFields, RecFields, Reclaimable, Places
<1>. QED
  BY <1>1, <1>2, <1>3, <1>4, <1>5, <1>6, <1>7, <1>8, <1>9 DEF Recover

-----------------------------------------------------------------------------
LEMMA Disturbed ==
  ASSUME StagedInv, NEW o \in Ops, UNCHANGED plan, Cancel(o) \/ AbortQueued(o) \/ LoseHelper(o)
  PROVE Kept(o)
<1>1. CASE Cancel(o)
  BY <1>1, PlanAssumption DEF Cancel, StagedInv, Shape, Kept, OthersStay, OpInv, disk, mem,
     Labels, OpFields, RecFields, Reclaimable, Places
<1>2. CASE AbortQueued(o)
  BY <1>2, PlanAssumption DEF AbortQueued, Signalled, StagedInv, Shape, Kept, OthersStay, OpInv,
     At, Goto, Throw, Unlock, disk, life, Labels, OpFields, RecFields, Reclaimable, Places
<1>3. CASE LoseHelper(o)
  <2>1. pc[o] \in Signalled /\ pc' = [pc EXCEPT ![o] = "catch"] /\ DOMAIN dst' = DOMAIN dst
    BY <1>3 DEF LoseHelper, Throw, Goto
  <2>2. SameCall(o)
    BY <1>3 DEF LoseHelper, SameCall, StagedInv, Shape, OpFields
  <2>3. UNCHANGED <<objects, rec, cache>>
    BY <1>3 DEF LoseHelper
  <2>4. pc[o] \in Early \cup Published
    BY <2>1 DEF Signalled
  <2>5. CASE UNCHANGED orig
    BY <2>1, <2>2, <2>3, <2>4, <2>5, Throwing DEF Glides
  <2>6. CASE /\ pc[o] = "delete"
             /\ \E w \in {"quarantine", "deleted"} : orig' = [orig EXCEPT ![o] = w]
    <3>1. Secured(o) /\ op[o].committed
      BY <2>6 DEF StagedInv, OpInv
    <3>2. Shape'
      BY <2>1, <2>2, <2>3, <2>6 DEF StagedInv, Shape, SameCall, Labels
    <3>3. OthersStay(o)
      BY <2>1, <2>2, <2>3, <2>6 DEF StagedInv, Shape, SameCall, OthersStay
    <3>4. OpInv(o)'
      BY <2>1, <2>2, <2>3, <2>6, <3>1 DEF StagedInv, Shape, SameCall, OpInv
    <3>. QED
      BY <2>3, <3>2, <3>3, <3>4 DEF Kept
  <2>. QED
    BY <1>3, <2>5, <2>6 DEF LoseHelper
<1>. QED
  BY <1>1, <1>2, <1>3

-----------------------------------------------------------------------------
(* What stops the process takes every call with it; what is on disk stays. *)
LEMMA Stopping == ASSUME StagedInv, UNCHANGED plan, Crash \/ Close PROVE StagedInv'
<1>1. /\ UNCHANGED <<objects, rec, dst>> /\ cache' = [c \in Contents |-> NoName]
      /\ op' = [o \in Ops |-> Fresh]
      /\ pc' = [o \in Ops |-> IF pc[o] = "idle" THEN "idle" ELSE "todo"]
  BY DEF Crash, Close, Stopped
<1>2. /\ orig' \in [Ops -> {"path", "quarantine", "deleted", "user"}]
      /\ \A o \in Ops : orig'[o] = orig[o] \/ (orig'[o] = "quarantine" /\ pc[o] = "delete")
  BY DEF Crash, Close, StagedInv, Shape
<1>3. Shape'
  BY <1>1, <1>2 DEF StagedInv, Shape, Labels, Fresh, OpFields, Places
<1>4. ASSUME NEW o \in Ops PROVE OpInv(o)'
  BY <1>1, <1>2 DEF StagedInv, OpInv
<1>. QED
  BY <1>3, <1>4 DEF StagedInv

LEMMA Disturbing ==
  ASSUME StagedInv, UNCHANGED plan, Meddle \/ Open \/ Sweep \/ UNCHANGED vars
  PROVE  StagedInv'
<1>1. /\ UNCHANGED <<objects, rec, op, pc, cache>> /\ DOMAIN dst' = DOMAIN dst
      /\ orig' \in [Ops -> {"path", "quarantine", "deleted", "user"}]
      /\ \A o \in Ops : orig'[o] = orig[o] \/ orig'[o] = "user"
  BY DEF Meddle, Open, Sweep, vars, disk, mem, StagedInv, Shape
<1>2. Shape'
  BY <1>1 DEF StagedInv, Shape
<1>3. ASSUME NEW o \in Ops PROVE OpInv(o)'
  BY <1>1 DEF StagedInv, OpInv
<1>. QED
  BY <1>2, <1>3 DEF StagedInv

LEMMA InitStaged == Init => StagedInv
<1>. SUFFICES ASSUME Init PROVE StagedInv
  OBVIOUS
<1>1. Shape
  BY DEF Init, Shape, Fresh, NoRecord, OpFields, RecFields, Places, Labels
<1>2. ASSUME NEW o \in Ops PROVE OpInv(o)
  BY DEF Init, OpInv, Fresh, NoRecord, Reclaimable
<1>. QED
  BY <1>1, <1>2 DEF StagedInv

LEMMA NextStaged == ASSUME StagedInv, [Next]_vars PROVE StagedInv'
<1>1. ASSUME NEW o \in Ops, Execute(o) \/ Recover(o) \/ Cancel(o) \/ AbortQueued(o) \/ LoseHelper(o),
             UNCHANGED plan
      PROVE  StagedInv'
  <2>1. Kept(o)
    BY <1>1, Admitting, Preparing, Committing, Removing, Duplicating, Catching, Recovered,
       Disturbed DEF Execute
  <2>. QED
    BY <1>1, <2>1, OneAtATime DEF Kept
<1>2. CASE (Crash \/ Close) /\ UNCHANGED plan
  BY <1>2, Stopping
<1>3. CASE (Meddle \/ Open \/ Sweep) /\ UNCHANGED plan
  BY <1>3, Disturbing
<1>4. CASE UNCHANGED vars
  BY <1>4, Disturbing DEF vars
<1>. QED
  BY <1>1, <1>2, <1>3, <1>4 DEF Next, Step

LEMMA StagedInvHolds == Spec => []StagedInv
<1>1. StagedInv /\ [Next]_vars => StagedInv'
  BY NextStaged
<1>. QED
  BY InitStaged, <1>1, PTL DEF Spec

-----------------------------------------------------------------------------
(* No original is removed, not even set aside, before its bytes are a      *)
(* conservation object and the journal names where they go: whatever the   *)
(* operations, plans, crashes, lost helpers and meddling.                  *)
THEOREM OriginalsAreConserved == Spec => []Conservation
<1>1. StagedInv => Conservation
  BY DEF StagedInv, OpInv, Conservation
<1>. QED
  BY <1>1, StagedInvHolds, PTL

(* A record that has ended is never revised, by whatever run or recovery.  *)
THEOREM EndedRecordsStay == Spec => TerminalIsStable
<1>. DEFINE Stays == \A o \in Ops :
       /\ rec[o].state \in Reclaimable => rec'[o].state = rec[o].state
       /\ rec[o].final => rec'[o] = rec[o]
<1>1. StagedInv /\ [Next]_vars => [Stays]_vars
  <2>. SUFFICES ASSUME StagedInv, Next, NEW o \in Ops,
                       rec[o].state \in Reclaimable \/ rec[o].final
                PROVE  rec'[o] = rec[o]
    BY DEF Reclaimable
  <2>1. pc[o] \in Resting
    BY DEF StagedInv, OpInv
  <2>2. ASSUME NEW p \in Ops, p # o, Execute(p) \/ Recover(p) \/ Cancel(p) \/ AbortQueued(p) \/ LoseHelper(p)
        PROVE  rec'[o] = rec[o]
    <3>1. Kept(p)
      BY <2>2, Admitting, Preparing, Committing, Removing, Duplicating, Catching, Recovered,
         Disturbed DEF Execute, Next
    <3>. QED
      BY <2>2, <3>1 DEF Kept, OthersStay
  <2>3. ~Execute(o)
    BY <2>1 DEF Execute, Admit, Prepare, Commit, Remove, Same, Catch, At, Start, Reserve, Probe,
       Mark, Recheck, Stage, RecordStaged, RecordVerified, Transform, RecordTransformed,
       Publish, RecordCommitted, AfterCommit, RecordAbort, DelVerify, DelIntent, DelCheck,
       Delete, Restore, RecordDeleted, Release, Unguard, Unguarded, Finish, Duplicate,
       RecordDuplicate, GuardStage, RecordGuard, CatchClean, CatchRecord
  <2>4. CASE Recover(o)
    BY <2>1, <2>4 DEF Recover, Recovering, RecoverSkip, RecoverTerminal, RecoverPending,
       RecoverOther, RecoverRestore, RecoverClean, RecoverRecord, RecoverFail, RecoverDiscard,
       Reclaimable
  <2>5. CASE Cancel(o) \/ AbortQueued(o) \/ LoseHelper(o) \/ Meddle \/ Crash
              \/ Close \/ Open \/ Sweep
    BY <2>5 DEF Cancel, AbortQueued, LoseHelper, Meddle, Crash, Close, Stopped, Open, Sweep
  <2>. QED
    BY <2>2, <2>3, <2>4, <2>5 DEF Next, Step
<1>. QED
  BY <1>1, StagedInvHolds, PTL DEF Spec, TerminalIsStable

(* What others did to the files is counted, and by nothing else.           *)
Counted == spent \in [crashes : Nat, faults : Nat, meddles : Nat]

LEMMA ExecuteKeepsSpent ==
  ASSUME NEW o \in Ops, Execute(o) \/ Recover(o)
  PROVE UNCHANGED spent \/ spent' = [spent EXCEPT !.faults = @ + 1]
<1>1. CASE Admit(o)
  BY <1>1 DEF Admit, Start, Reserve, Probe, Mark, Recheck, HelperDead, life
<1>2. CASE Prepare(o)
  BY <1>2 DEF Prepare, Stage, RecordStaged, RecordVerified, Transform, RecordTransformed,
     HelperDead, life
<1>3. CASE Commit(o)
  BY <1>3 DEF Commit, Publish, RecordCommitted, AfterCommit, RecordAbort, HelperDead, life
<1>4. CASE Remove(o)
  BY <1>4 DEF Remove, DelVerify, DelIntent, DelCheck, Delete, Restore, RecordDeleted, Release,
     RestoreFromGuard, Unguard, Unguarded, Finish, HelperDead, life
<1>5. CASE Same(o)
  BY <1>5 DEF Same, Duplicate, RecordDuplicate, GuardStage, RecordGuard, HelperDead, life
<1>6. CASE Catch(o)
  BY <1>6 DEF Catch, CatchClean, CatchRecord, Fault, life
<1>7. CASE Recover(o)
  BY <1>7 DEF Recover, RecoverSkip, RecoverTerminal, RecoverPending, RecoverOther,
     RecoverRestore, RecoverClean, RecoverRecord, RecoverFail, RecoverDiscard, life
<1>. QED
  BY <1>1, <1>2, <1>3, <1>4, <1>5, <1>6, <1>7 DEF Execute

LEMMA CountedHolds == Spec => []Counted
<1>1. Init => Counted
  BY DEF Init, Counted
<1>2. Counted /\ [Next]_vars => Counted'
  <2>. SUFFICES ASSUME Counted, Step PROVE Counted'
    BY DEF Next, vars, life, Counted
  <2>1. CASE \E o \in Ops : Execute(o) \/ Recover(o)
    BY <2>1, ExecuteKeepsSpent DEF Counted
  <2>2. CASE \E o \in Ops : Cancel(o) \/ AbortQueued(o) \/ LoseHelper(o)
    BY <2>2 DEF Cancel, AbortQueued, LoseHelper, Fault, Counted, life
  <2>3. CASE Meddle \/ Crash \/ Close \/ Open \/ Sweep
    BY <2>3 DEF Meddle, Crash, Close, Stopped, Open, Sweep, Counted
  <2>. QED
    BY <2>1, <2>2, <2>3 DEF Step
<1>. QED
  BY <1>1, <1>2, PTL DEF Spec

(* No step of the program replaces or changes a file at a candidate name.  *)
THEOREM NothingIsReplaced == Spec => NoClobber
<1>. DEFINE Safe == \A n \in Names : dst[n] # Absent /\ dst'[n] # dst[n]
                      => spent'.meddles # spent.meddles
<1>1. StagedInv /\ Counted /\ [Next]_vars => [Safe]_vars
  <2>. SUFFICES ASSUME StagedInv, Counted, Step, NEW n \in Names,
                       dst[n] # Absent, dst'[n] # dst[n]
                PROVE  spent'.meddles # spent.meddles
    BY DEF Next
  <2>. USE DEF StagedInv, Shape
  <2>1. ASSUME NEW o \in Ops, Execute(o) PROVE FALSE
    <3>1. ~Admit(o) /\ ~Prepare(o)
      BY DEF Admit, Start, Reserve, Probe, Mark, Recheck, HelperDead, disk, Prepare, Stage,
         RecordStaged, RecordVerified, Transform, RecordTransformed
    <3>2. ~Commit(o)
      BY DEF Commit, Publish, RecordCommitted, AfterCommit, RecordAbort, HelperDead, disk
    <3>3. ~Remove(o)
      BY DEF Remove, DelVerify, DelIntent, DelCheck, Delete, Restore, RecordDeleted, Release,
         RestoreFromGuard, Unguard, Unguarded, Finish, HelperDead, disk
    <3>4. ~Same(o) /\ ~Catch(o)
      BY DEF Same, Duplicate, RecordDuplicate, GuardStage, RecordGuard, HelperDead, disk, Catch,
         CatchClean, CatchRecord
    <3>. QED
      BY <2>1, <3>1, <3>2, <3>3, <3>4 DEF Execute
  <2>2. ASSUME NEW o \in Ops, Recover(o) PROVE FALSE
    BY <2>2 DEF Recover, RecoverSkip, RecoverTerminal, RecoverPending, RecoverOther,
       RecoverRestore, RecoverClean, RecoverRecord, RecoverFail, RecoverDiscard, disk
  <2>3. ASSUME NEW o \in Ops, Cancel(o) \/ AbortQueued(o) \/ LoseHelper(o) PROVE FALSE
    BY <2>3 DEF Cancel, AbortQueued, LoseHelper, disk
  <2>4. CASE Meddle
    BY <2>4 DEF Meddle, Counted
  <2>5. CASE Crash \/ Close \/ Open \/ Sweep
    BY <2>5 DEF Crash, Close, Stopped, Open, Sweep, disk
  <2>. QED
    BY <2>1, <2>2, <2>3, <2>4, <2>5 DEF Step
<1>. QED
  BY <1>1, StagedInvHolds, CountedHolds, PTL DEF Spec, NoClobber

-----------------------------------------------------------------------------
(* The points of a call that runs; those at which none does.               *)
Running == Early \cup Published \cup Ending
Off     == Resting \cup {"idle", "r-restore", "r-clean", "r-record", "r-discard"}
(* Those before the source is deleted, and those after it.                 *)
Before  == Early \cup {"linked", "committed", "abort", "dup-record", "guard-stage", "guard",
                       "del-verify", "del-intent", "del-check", "delete"}
After   == {"restore", "deleted", "release", "unguard", "unguarded"}

(* What the journal and the result say of the source, and why it stays so. *)
Told(o) ==
  /\ rec[o].state \in Terminal /\ rec[o].retained => ~Taken(o)
  /\ rec[o].state = "completed" /\ o \in Moves => orig[o] # "path"
  /\ out[o].status = "moved" => orig[o] = "deleted" /\ rec[o].state = "completed"
  /\ out[o].retained => ~Taken(o)
  /\ pc[o] \in Running => /\ rec[o].state \notin Terminal
                          /\ out[o].status # "moved" /\ ~out[o].retained
  /\ pc[o] \in Before => ~Taken(o)
  /\ pc[o] \in After => orig[o] = "deleted"
  /\ pc[o] = "finish" => (IF o \in Moves THEN orig[o] = "deleted" ELSE ~Taken(o))
  /\ pc[o] \in {"catch-record", "r-record"} => (op[o].retained => ~Taken(o))
  /\ pc[o] = "r-record" => op[o].retained \/ orig[o] # "path"

(* Whose markers are there.                                                *)
Reserved(o) ==
  /\ op[o].held => op[o].cand \in Names
  /\ Holding(o) => marker[op[o].cand] = o
  /\ pc[o] = "recheck" => marker[op[o].cursor] = o
  /\ pc[o] \in (Early \ Holds) \cup Off => ~op[o].held
  /\ proc # "up" => pc[o] \in Off

AccountInv ==
  /\ StagedInv
  /\ DOMAIN out = Ops /\ DOMAIN marker = Names
  /\ \A o \in Ops : /\ DOMAIN out[o] = {"status", "committed", "retained", "open"}
                    /\ Told(o) /\ Reserved(o)

USE DEF Running, Off, Before, After

(* A step of one operation leaves the others their results and markers.    *)
OthersKeep(o) ==
  /\ DOMAIN out' = Ops /\ DOMAIN marker' = Names
  /\ DOMAIN out'[o] = {"status", "committed", "retained", "open"}
  /\ \A p \in Ops \ {o} : out'[p] = out[p]
  /\ proc' = proc
  /\ proc = "up" => \A n \in Names : marker[n] \notin {o, NoOp} => marker'[n] = marker[n]

Accounted(o) == Told(o)' /\ Reserved(o)' /\ OthersKeep(o)

LEMMA AccountsOneAtATime ==
  ASSUME AccountInv, NEW o \in Ops, UNCHANGED plan, StagedInv', OthersStay(o), Accounted(o)
  PROVE  AccountInv'
<1>1. ASSUME NEW p \in Ops, p # o
      PROVE /\ DOMAIN out'[p] = {"status", "committed", "retained", "open"}
            /\ Told(p)' /\ Reserved(p)'
  <2>1. /\ orig'[p] = orig[p] /\ pc'[p] = pc[p] /\ op'[p] = op[p] /\ rec'[p] = rec[p]
        /\ out'[p] = out[p] /\ proc' = proc
    BY <1>1 DEF OthersStay, Accounted, OthersKeep
  <2>2. Told(p)'
    BY <2>1 DEF AccountInv, Told, Terminal
  <2>3. p # NoOp
    BY OpsAssumption
  <2>4. pc[p] = "recheck" => op[p].cursor \in Names
    BY DEF AccountInv, StagedInv, OpInv
  <2>5. Reserved(p)'
    BY <1>1, <2>1, <2>3, <2>4 DEF AccountInv, Reserved, Holding, Accounted, OthersKeep
  <2>. QED
    BY <2>1, <2>2, <2>5 DEF AccountInv
<1>. QED
  BY <1>1 DEF AccountInv, Accounted, OthersKeep

LEMMA DeadTells ==
  ASSUME AccountInv, NEW o \in Ops, UNCHANGED plan, proc = "up", HelperDead(o),
         pc[o] \in Running \ {"idle", "recheck", "finish", "abort", "catch-record"}
  PROVE  Accounted(o)
<1>1. /\ pc' = [pc EXCEPT ![o] = "catch"]
      /\ UNCHANGED <<orig, marker, rec, proc, out>>
      /\ op'[o].held = op[o].held /\ op'[o].cand = op[o].cand
  BY DEF HelperDead, Throw, Goto, disk, life, AccountInv, StagedInv, Shape, OpFields
<1>2. pc'[o] = "catch" /\ Told(o) /\ Reserved(o)
  BY <1>1 DEF AccountInv, StagedInv, Shape
<1>3. Told(o)'
  BY <1>1, <1>2 DEF Told
<1>4. Reserved(o)'
  BY <1>1, <1>2 DEF Reserved, Holding
<1>. QED
  BY <1>1, <1>3, <1>4 DEF Accounted, OthersKeep, AccountInv

LEMMA AdmittingTells ==
  ASSUME AccountInv, NEW o \in Ops, UNCHANGED plan, Admit(o) PROVE Accounted(o)
<1>. USE OpsAssumption, PlanAssumption
     DEF AccountInv, StagedInv, Shape, OpInv, Told, Reserved, Holding, Accounted, OthersKeep, At,
         Goto, Throw, disk, life, mem, OpFields, RecFields, Terminal, Append, Reclaimable
<1>1. CASE Start(o)
  BY <1>1 DEF Start
<1>2. CASE Reserve(o)
  BY <1>2 DEF Reserve
<1>3. CASE Probe(o)
  BY <1>3 DEF Probe, Advance
<1>4. CASE Mark(o)
  <2>1. CASE HelperDead(o)
    BY <1>4, <2>1, DeadTells DEF Mark
  <2>2. CASE ~HelperDead(o)
    BY <1>4, <2>2 DEF Mark, Advance
  <2>. QED
    BY <2>1, <2>2
<1>5. CASE Recheck(o)
  <2>1. CASE dst[op[o].cursor] # Absent
    BY <1>5, <2>1 DEF Recheck, Advance, WithoutMarker
  <2>2. CASE dst[op[o].cursor] = Absent
    BY <1>5, <2>2 DEF Recheck
  <2>. QED
    BY <2>1, <2>2
<1>. QED
  BY <1>1, <1>2, <1>3, <1>4, <1>5 DEF Admit

LEMMA PreparingTells ==
  ASSUME AccountInv, NEW o \in Ops, UNCHANGED plan, Prepare(o) PROVE Accounted(o)
<1>. USE OpsAssumption, PlanAssumption
     DEF AccountInv, StagedInv, Shape, OpInv, Told, Reserved, Holding, Accounted, OthersKeep, At,
         Goto, Throw, disk, life, mem, OpFields, RecFields, Terminal, Append, Reclaimable
<1>1. CASE Stage(o)
  <2>1. CASE HelperDead(o)
    BY <1>1, <2>1, DeadTells DEF Stage
  <2>2. CASE ~HelperDead(o)
    BY <1>1, <2>2 DEF Stage
  <2>. QED
    BY <2>1, <2>2
<1>2. CASE RecordStaged(o)
  BY <1>2 DEF RecordStaged
<1>3. CASE RecordVerified(o)
  BY <1>3 DEF RecordVerified
<1>4. CASE Transform(o)
  BY <1>4 DEF Transform
<1>5. CASE RecordTransformed(o)
  BY <1>5 DEF RecordTransformed
<1>. QED
  BY <1>1, <1>2, <1>3, <1>4, <1>5 DEF Prepare

LEMMA CommittingTells ==
  ASSUME AccountInv, NEW o \in Ops, UNCHANGED plan, Commit(o) PROVE Accounted(o)
<1>. USE OpsAssumption, PlanAssumption
     DEF AccountInv, StagedInv, Shape, OpInv, Told, Reserved, Holding, Accounted, OthersKeep, At,
         Goto, Throw, disk, life, mem, OpFields, RecFields, Terminal, Append, Reclaimable
<1>1. CASE Publish(o)
  BY <1>1 DEF Publish, HelperDead, WithoutMarker
<1>2. CASE RecordCommitted(o)
  BY <1>2 DEF RecordCommitted
<1>3. CASE AfterCommit(o)
  <2>1. /\ pc[o] = "committed" /\ proc = "up"
        /\ UNCHANGED <<orig, rec, proc, out>>
    BY <1>3 DEF AfterCommit
  <2>2. CASE UNCHANGED <<marker, op>> /\ pc' = [pc EXCEPT ![o] = "del-verify"]
    BY <2>1, <2>2
  <2>3. CASE /\ CleanStaging(o)
             /\ \/ pc' = [pc EXCEPT ![o] = "abort"]
                \/ o \notin Moves /\ pc' = [pc EXCEPT ![o] = "finish"]
    <3>1. /\ op'[o].held = op[o].held /\ op'[o].cand = op[o].cand
          /\ op'[o].retained = op[o].retained
      BY <2>3 DEF CleanStaging
    <3>2. DOMAIN marker' = Names /\ \A n \in Names : marker[n] # o => marker'[n] = marker[n]
      BY <2>3 DEF CleanStaging, WithoutMarker
    <3>. QED
      BY <2>1, <2>3, <3>1, <3>2
  <2>. QED
    BY <1>3, <2>2, <2>3 DEF AfterCommit
<1>4. CASE RecordAbort(o)
  BY <1>4 DEF RecordAbort, Return, Fresh
<1>. QED
  BY <1>1, <1>2, <1>3, <1>4 DEF Commit

LEMMA RemovingTells ==
  ASSUME AccountInv, NEW o \in Ops, UNCHANGED plan, Remove(o) PROVE Accounted(o)
<1>. USE OpsAssumption, PlanAssumption
     DEF AccountInv, StagedInv, Shape, OpInv, Told, Reserved, Holding, Accounted, OthersKeep, At,
         Goto, Throw, disk, life, mem, OpFields, RecFields, Terminal, Append, Reclaimable
<1>1. CASE DelVerify(o)
  <2>1. CASE HelperDead(o)
    BY <1>1, <2>1, DeadTells DEF DelVerify
  <2>2. CASE ~HelperDead(o)
    BY <1>1, <2>2 DEF DelVerify
  <2>. QED
    BY <2>1, <2>2
<1>2. CASE DelIntent(o)
  BY <1>2 DEF DelIntent
<1>3. CASE DelCheck(o)
  BY <1>3 DEF DelCheck
<1>4. CASE Delete(o)
  BY <1>4 DEF Delete, HelperDead
<1>5. CASE Restore(o)
  <2>1. /\ pc[o] = "restore" /\ proc = "up"
        /\ UNCHANGED <<orig, rec, proc, out, marker>>
    BY <1>5 DEF Restore, RestoreFromGuard, HelperDead
  <2>2. \E l \in {"deleted", "catch"} : pc' = [pc EXCEPT ![o] = l]
    BY <1>5 DEF Restore, RestoreFromGuard, HelperDead
  <2>3. \/ op' = op
        \/ op' = [op EXCEPT ![o].unknown = TRUE]
        \/ \E v : op' = [op EXCEPT ![o].residue = v]
    BY <1>5 DEF Restore, RestoreFromGuard, HelperDead
  <2>4. /\ op'[o].held = op[o].held /\ op'[o].cand = op[o].cand
        /\ op'[o].retained = op[o].retained
    BY <2>3
  <2>. QED
    BY <2>1, <2>2, <2>4
<1>6. CASE RecordDeleted(o)
  BY <1>6 DEF RecordDeleted
<1>7. CASE Release(o)
  <2>1. /\ pc[o] = "release" /\ proc = "up"
        /\ UNCHANGED <<orig, rec, proc, out, marker>>
    BY <1>7 DEF Release, RestoreFromGuard, HelperDead
  <2>2. \E l \in {"unguard", "catch"} : pc' = [pc EXCEPT ![o] = l]
    BY <1>7 DEF Release, RestoreFromGuard, HelperDead
  <2>3. \/ op' = op
        \/ op' = [op EXCEPT ![o].unknown = TRUE]
        \/ \E v : op' = [op EXCEPT ![o].residue = v]
    BY <1>7 DEF Release, RestoreFromGuard, HelperDead
  <2>4. /\ op'[o].held = op[o].held /\ op'[o].cand = op[o].cand
        /\ op'[o].retained = op[o].retained
    BY <2>3
  <2>. QED
    BY <2>1, <2>2, <2>4
<1>8. CASE Unguard(o)
  BY <1>8 DEF Unguard, HelperDead
<1>9. CASE Unguarded(o)
  BY <1>9 DEF Unguarded, WithoutMarker, Held
<1>10. CASE Finish(o)
  <2>1. /\ pc[o] = "finish" /\ proc = "up" /\ o \in Ops
        /\ UNCHANGED <<orig, proc, marker>> /\ pc' = [pc EXCEPT ![o] = "done"]
    BY <1>10 DEF Finish, Return
  <2>2. /\ rec'[o].state = "completed" /\ rec'[o].retained = (o \notin Moves)
    BY <1>10 DEF Finish
  <2>3. /\ DOMAIN out' = Ops /\ \A p \in Ops \ {o} : out'[p] = out[p]
        /\ DOMAIN out'[o] = {"status", "committed", "retained", "open"}
        /\ out'[o].status = (IF o \in Moves THEN "moved" ELSE "copied")
        /\ out'[o].retained = (o \notin Moves)
    BY <1>10 DEF Finish, Return
  <2>4. op'[o].held = FALSE
    BY <1>10 DEF Finish, Return, Fresh
  <2>5. Told(o)'
    <3>1. /\ pc'[o] = "done" /\ orig'[o] = orig[o]
          /\ o \in Moves => orig[o] = "deleted"
          /\ o \notin Moves => ~Taken(o)
      BY <2>1
    <3>. QED
      BY <2>2, <2>3, <3>1
  <2>6. Reserved(o)'
    BY <2>1, <2>4
  <2>. QED
    BY <2>1, <2>3, <2>5, <2>6
<1>. QED
  BY <1>1, <1>2, <1>3, <1>4, <1>5, <1>6, <1>7, <1>8, <1>9, <1>10 DEF Remove

LEMMA DuplicatingTells ==
  ASSUME AccountInv, NEW o \in Ops, UNCHANGED plan, Same(o) PROVE Accounted(o)
<1>. USE OpsAssumption, PlanAssumption
     DEF AccountInv, StagedInv, Shape, OpInv, Told, Reserved, Holding, Accounted, OthersKeep, At,
         Goto, Throw, disk, life, mem, OpFields, RecFields, Terminal, Append, Reclaimable
<1>1. CASE Duplicate(o)
  <2>1. /\ pc[o] = "duplicate" /\ proc = "up" /\ UNCHANGED <<orig, rec, proc, marker, out>>
        /\ \E l \in {"guard-stage", "dup-record"} : pc' = [pc EXCEPT ![o] = l]
    BY <1>1 DEF Duplicate
  <2>2. \/ op' = [op EXCEPT ![o].committed = TRUE]
        \/ \E v : op' = [op EXCEPT ![o].committed = TRUE, ![o].staging = "none", ![o].residue = v]
    BY <1>1 DEF Duplicate
  <2>3. op'[o].held = op[o].held /\ op'[o].cand = op[o].cand
    BY <2>2
  <2>. QED
    BY <2>1, <2>3
<1>2. CASE RecordDuplicate(o)
  BY <1>2 DEF RecordDuplicate, Return, Fresh
<1>3. CASE GuardStage(o)
  <2>1. CASE HelperDead(o)
    BY <1>3, <2>1, DeadTells DEF GuardStage
  <2>2. CASE ~HelperDead(o)
    BY <1>3, <2>2 DEF GuardStage
  <2>. QED
    BY <2>1, <2>2
<1>4. CASE RecordGuard(o)
  BY <1>4 DEF RecordGuard
<1>. QED
  BY <1>1, <1>2, <1>3, <1>4 DEF Same

LEMMA CatchingTells ==
  ASSUME AccountInv, NEW o \in Ops, UNCHANGED plan, Catch(o) PROVE Accounted(o)
<1>. USE OpsAssumption, PlanAssumption
     DEF AccountInv, StagedInv, Shape, OpInv, Told, Reserved, Holding, Accounted, OthersKeep, At,
         Goto, Throw, disk, life, mem, OpFields, RecFields, Terminal, Append, Reclaimable
<1>1. CASE CatchClean(o)
  <2>1. /\ pc[o] = "catch" /\ proc = "up" /\ UNCHANGED <<orig, rec, proc, out>>
        /\ pc' = [pc EXCEPT ![o] = "catch-record"]
    BY <1>1 DEF CatchClean
  <2>2. /\ op'[o].held = op[o].held /\ op'[o].cand = op[o].cand
        /\ op'[o].retained = SourceThere(o)
    BY <1>1 DEF CatchClean
  <2>3. DOMAIN marker' = Names /\ \A n \in Names : marker[n] # o => marker'[n] = marker[n]
    BY <1>1 DEF CatchClean, WithoutMarker
  <2>4. op'[o].retained => orig[o] = "path"
    BY <2>2 DEF SourceThere
  <2>. QED
    BY <2>1, <2>2, <2>3, <2>4
<1>2. CASE CatchRecord(o)
  BY <1>2 DEF CatchRecord, ReturnFailure, AppendFailure, Status, Return, Fresh
<1>. QED
  BY <1>1, <1>2 DEF Catch

LEMMA RecoveringTells ==
  ASSUME AccountInv, NEW o \in Ops, UNCHANGED plan, Recover(o) PROVE Accounted(o)
<1>. USE OpsAssumption, PlanAssumption DEF AccountInv, StagedInv, Shape, OpInv, Told, Reserved, Holding, Accounted,
   OthersKeep, Goto, disk, life, mem, OpFields, RecFields, Terminal, Append, Reclaimable, Recovering
<1>1. CASE RecoverSkip(o)
  BY <1>1 DEF RecoverSkip
<1>2. CASE RecoverTerminal(o)
  BY <1>2 DEF RecoverTerminal
<1>3. CASE RecoverPending(o)
  BY <1>3 DEF RecoverPending
<1>4. CASE RecoverOther(o)
  BY <1>4 DEF RecoverOther
<1>5. CASE RecoverRestore(o)
  BY <1>5 DEF RecoverRestore
<1>6. CASE RecoverClean(o)
  <2>1. /\ pc[o] = "r-clean" /\ proc = "opening" /\ UNCHANGED <<orig, rec, proc, out>>
        /\ pc' = [pc EXCEPT ![o] = "r-record"] /\ DOMAIN marker' = Names
    BY <1>6 DEF RecoverClean, FreeMarker
  <2>2. /\ op'[o].held = op[o].held
        /\ op'[o].retained = SourceThere(o)
    BY <1>6 DEF RecoverClean
  <2>3. op'[o].retained <=> orig[o] = "path"
    BY <2>2, Zenon DEF SourceThere
  <2>. QED
    BY <2>1, <2>2, <2>3
<1>7. CASE RecoverRecord(o)
  <2>1. /\ pc[o] = "r-record" /\ proc = "opening" /\ UNCHANGED <<orig, marker, proc, out>>
        /\ pc' = [pc EXCEPT ![o] = "over"]
    BY <1>7 DEF RecoverRecord
  <2>2. op'[o].held = FALSE
    BY <1>7 DEF RecoverRecord, Fresh
  <2>. DEFINE kept == o \notin Moves \/ op[o].retained
             end  == IF op[o].residue
                       THEN IF rec[o].state \in {"source-delete-pending", "source-deleted"}
                              THEN rec[o].state ELSE "committed"
                       ELSE IF o \notin Moves \/ ~op[o].retained THEN "completed" ELSE "cancelled"
  <2>3. PICK v, f : (v <=> kept) /\ Append(o, [committed |-> TRUE, final |-> f,
                                   retained |-> v, state |-> end])
    <3>. HIDE DEF Append
    <3>1. Append(o, [committed |-> TRUE, final |-> ~op[o].residue, retained |-> kept, state |-> end])
      BY ONLY <1>7, Zenon DEF RecoverRecord, Moves
    <3>. HIDE DEF kept, end
    <3>. QED
      BY ONLY <3>1, Zenon
  <2>5. /\ rec'[o].retained = v /\ rec'[o].state = end
    <3>. HIDE DEF end, kept
    <3>1. Append(o, [committed |-> TRUE, final |-> f, retained |-> v, state |-> end])
      BY <2>3, Zenon
    <3>. QED
      BY <3>1
  <2>6. rec'[o].retained => kept
    BY <2>3, <2>5
  <2>4. Told(o)'
    BY <2>1, <2>5, <2>6
  <2>. QED
    BY <2>1, <2>2, <2>4
<1>8. CASE RecoverFail(o)
  <2>1. /\ pc[o] = "r-clean" /\ proc = "opening" /\ UNCHANGED <<orig, marker, proc, out, op>>
        /\ pc' = [pc EXCEPT ![o] = "over"]
    BY <1>8 DEF RecoverFail
  <2>2. rec'[o].state = "failed" /\ rec'[o].retained = SourceThere(o)
    BY <1>8 DEF RecoverFail
  <2>3. rec'[o].retained => orig[o] = "path"
    BY <2>2 DEF SourceThere
  <2>. QED
    BY <2>1, <2>2, <2>3
<1>9. CASE RecoverDiscard(o)
  BY <1>9 DEF RecoverDiscard, FreeMarker
<1>. QED
  BY <1>1, <1>2, <1>3, <1>4, <1>5, <1>6, <1>7, <1>8, <1>9 DEF Recover

LEMMA DisturbedTells ==
  ASSUME AccountInv, NEW o \in Ops, UNCHANGED plan, Cancel(o) \/ AbortQueued(o) \/ LoseHelper(o)
  PROVE  Accounted(o)
<1>. USE OpsAssumption, PlanAssumption
     DEF AccountInv, StagedInv, Shape, OpInv, Told, Reserved, Holding, Accounted, OthersKeep, At,
         Goto, Throw, disk, life, mem, OpFields, RecFields, Terminal
<1>1. CASE Cancel(o)
  BY <1>1 DEF Cancel
<1>2. CASE AbortQueued(o)
  BY <1>2 DEF AbortQueued, Signalled
<1>3. CASE LoseHelper(o)
  BY <1>3 DEF LoseHelper, Signalled
<1>. QED
  BY <1>1, <1>2, <1>3

LEMMA StoppingTells ==
  ASSUME AccountInv, UNCHANGED plan, StagedInv', Crash \/ Close PROVE AccountInv'
<1>1. /\ UNCHANGED <<marker, rec, out>> /\ proc' = "down"
      /\ op' = [o \in Ops |-> Fresh]
      /\ pc' = [o \in Ops |-> IF pc[o] = "idle" THEN "idle" ELSE "todo"]
  BY DEF Crash, Close, Stopped
<1>2. \A o \in Ops : orig'[o] = orig[o] \/ (orig'[o] = "quarantine" /\ pc[o] = "delete")
  BY DEF Crash, Close, AccountInv, StagedInv, Shape
<1>3. ASSUME NEW o \in Ops PROVE Told(o)' /\ Reserved(o)'
  BY <1>1, <1>2 DEF AccountInv, Told, Reserved, Holding, Fresh, Terminal
<1>. QED
  BY <1>1, <1>3 DEF AccountInv

LEMMA DisturbingTells ==
  ASSUME AccountInv, UNCHANGED plan, StagedInv', Meddle \/ Open \/ Sweep \/ UNCHANGED vars
  PROVE  AccountInv'
<1>1. /\ UNCHANGED <<rec, op, pc, out>>
      /\ \A o \in Ops : orig'[o] = orig[o] \/ (orig[o] = "path" /\ orig'[o] = "user")
  BY DEF Meddle, Open, Sweep, vars, disk, mem, AccountInv, StagedInv, Shape, SourceThere
<1>2. ASSUME NEW o \in Ops PROVE Told(o)'
  BY <1>1 DEF AccountInv, Told, Terminal
<1>3. \/ UNCHANGED <<marker, proc>>
      \/ UNCHANGED marker /\ proc = "down"
      \/ proc = "opening" /\ DOMAIN marker' = Names
  BY DEF Meddle, Open, Sweep, vars, disk, mem, life
<1>4. ASSUME NEW o \in Ops PROVE Reserved(o)'
  BY <1>1, <1>3 DEF AccountInv, Reserved, Holding
<1>. QED
  BY <1>1, <1>2, <1>3, <1>4 DEF AccountInv

LEMMA AccountInvHolds == Spec => []AccountInv
<1>1. Init => AccountInv
  <2>. SUFFICES ASSUME Init, StagedInv PROVE AccountInv
    BY InitStaged
  <2>. QED
    BY DEF Init, AccountInv, Told, Reserved, Holding, NoResult, NoRecord, Fresh, Terminal
<1>2. AccountInv /\ [Next]_vars => AccountInv'
  <2>. SUFFICES ASSUME AccountInv, [Next]_vars PROVE AccountInv'
    OBVIOUS
  <2>1. StagedInv'
    BY NextStaged DEF AccountInv
  <2>2. ASSUME NEW o \in Ops, Execute(o) \/ Recover(o) \/ Cancel(o) \/ AbortQueued(o) \/ LoseHelper(o),
               UNCHANGED plan
        PROVE  AccountInv'
    <3>1. OthersStay(o)
      BY <2>2, Admitting, Preparing, Committing, Removing, Duplicating, Catching, Recovered,
         Disturbed DEF Execute, AccountInv, Kept
    <3>2. Accounted(o)
      BY <2>2, AdmittingTells, PreparingTells, CommittingTells, RemovingTells, DuplicatingTells,
         CatchingTells, RecoveringTells, DisturbedTells DEF Execute
    <3>. QED
      BY <2>1, <2>2, <3>1, <3>2, AccountsOneAtATime
  <2>3. CASE (Crash \/ Close) /\ UNCHANGED plan
    BY <2>1, <2>3, StoppingTells
  <2>4. CASE (Meddle \/ Open \/ Sweep) /\ UNCHANGED plan
    BY <2>1, <2>4, DisturbingTells
  <2>5. CASE UNCHANGED vars
    BY <2>1, <2>5, DisturbingTells DEF vars
  <2>. QED
    BY <2>2, <2>3, <2>4, <2>5 DEF Next, Step
<1>. QED
  BY <1>1, <1>2, PTL DEF Spec

(* A result that is not open agrees with the record: nobody but the call    *)
(* itself writes its result, and its record only before it has returned.   *)
Agrees(o) == pc[o] = "done" /\ ~out[o].open =>
  /\ rec[o].state = Recorded(out[o].status)
  /\ rec[o].committed = out[o].committed /\ rec[o].retained = out[o].retained

LEMMA Agreed ==
  ASSUME AccountInv, NEW o \in Ops, NEW st, NEW co, NEW re, NEW open, NEW fields,
         Return(o, st, co, re, open),
         open \/ (/\ Append(o, fields) /\ {"state", "committed", "retained"} \subseteq DOMAIN fields
                  /\ fields.state = Recorded(st)
                  /\ fields.committed = co /\ fields.retained = re)
  PROVE  Agrees(o)'
<1>1. out'[o].open = open /\ out'[o].status = st /\ out'[o].committed = co /\ out'[o].retained = re
  BY DEF Return, AccountInv
<1>2. CASE open
  BY <1>1, <1>2 DEF Agrees
<1>3. CASE ~open
  <2>1. /\ rec'[o].state = fields.state /\ rec'[o].committed = fields.committed
        /\ rec'[o].retained = fields.retained
    BY <1>3, Appended DEF AccountInv, StagedInv, RecFields
  <2>. QED
    BY <1>1, <1>3, <2>1 DEF Agrees
<1>. QED
  BY <1>2, <1>3

LEMMA ExecutingAgrees ==
  ASSUME AccountInv, NEW o \in Ops, UNCHANGED plan, Execute(o) PROVE Agrees(o)'
<1>. DEFINE Goes == pc'[o] # "done"
<1>. USE DEF At, Goto, Throw, AccountInv, StagedInv, Shape
<1>1. Goes => Agrees(o)'
  BY DEF Agrees
<1>2. CASE Admit(o)
  BY <1>1, <1>2 DEF Admit, Start, Reserve, Probe, Mark, Recheck, Advance, HelperDead
<1>3. CASE Prepare(o)
  BY <1>1, <1>3 DEF Prepare, Stage, RecordStaged, RecordVerified, Transform, RecordTransformed,
     HelperDead
<1>4. CASE Commit(o)
  <2>1. CASE Publish(o) \/ RecordCommitted(o) \/ AfterCommit(o)
    BY <1>1, <2>1 DEF Publish, RecordCommitted, AfterCommit, HelperDead
  <2>2. CASE RecordAbort(o)
    <3>1. /\ out'[o].status = "cancelled" /\ out'[o].committed = TRUE
          /\ out'[o].retained = TRUE /\ out'[o].open = op[o].residue
      BY <2>2 DEF RecordAbort, Return
    <3>2. ~op[o].residue => /\ rec'[o].state = "cancelled"
                            /\ rec'[o].committed = TRUE /\ rec'[o].retained = TRUE
      BY <2>2, Appended DEF RecordAbort, RecFields
    <3>3. Recorded("cancelled") = "cancelled"
      BY DEF Recorded
    <3>. QED
      BY <3>1, <3>2, <3>3 DEF Agrees
  <2>. QED
    BY <1>4, <2>1, <2>2 DEF Commit
<1>5. CASE Remove(o)
  <2>1. CASE Finish(o)
    <3>1. /\ out'[o].status = IF o \in Moves THEN "moved" ELSE "copied"
          /\ out'[o].committed = TRUE /\ out'[o].retained = (o \notin Moves)
      BY <2>1 DEF Finish, Return
    <3>2. /\ rec'[o].state = "completed" /\ rec'[o].committed = TRUE
          /\ rec'[o].retained = (o \notin Moves)
      BY <2>1, Appended DEF Finish, RecFields
    <3>3. Recorded(out'[o].status) = "completed"
      BY <3>1 DEF Recorded
    <3>. QED
      BY <3>1, <3>2, <3>3 DEF Agrees
  <2>2. CASE ~Finish(o)
    BY <1>1, <1>5, <2>2 DEF Remove, DelVerify, DelIntent, DelCheck, Delete, Restore, RecordDeleted,
       Release, RestoreFromGuard, Unguard, Unguarded, HelperDead
  <2>. QED
    BY <2>1, <2>2
<1>6. CASE Same(o)
  <2>1. CASE Duplicate(o) \/ GuardStage(o) \/ RecordGuard(o)
    BY <1>1, <2>1 DEF Duplicate, GuardStage, RecordGuard, HelperDead
  <2>2. CASE RecordDuplicate(o)
    <3>1. /\ out'[o].status = "duplicate" /\ out'[o].committed = TRUE /\ out'[o].retained = TRUE
      BY <2>2 DEF RecordDuplicate, Return
    <3>2. /\ rec'[o].state = "duplicate" /\ rec'[o].committed = TRUE /\ rec'[o].retained = TRUE
      BY <2>2, Appended DEF RecordDuplicate, RecFields
    <3>3. Recorded("duplicate") = "duplicate"
      BY DEF Recorded
    <3>. QED
      BY <3>1, <3>2, <3>3 DEF Agrees
  <2>. QED
    BY <1>6, <2>1, <2>2 DEF Same
<1>7. CASE CatchClean(o)
  BY <1>1, <1>7 DEF CatchClean
<1>8. CASE CatchRecord(o)
  <2>1. Recorded(Status(o)) = Status(o)
    BY DEF Recorded, Status
  <2>2. CASE ~Silent(o) /\ AppendFailure(o) /\ ReturnFailure(o, op[o].residue)
    BY <2>1, <2>2, Agreed DEF AppendFailure, ReturnFailure
  <2>3. CASE Silent(o) /\ ReturnFailure(o, op[o].residue \/ Unknown(o))
    <3>1. out'[o].open = (op[o].residue \/ Unknown(o))
      BY <2>3 DEF ReturnFailure, Return
    <3>2. op[o].residue \/ Unknown(o)
      BY <2>3 DEF Silent
    <3>. QED
      BY <3>1, <3>2 DEF Agrees
  <2>4. CASE ReturnFailure(o, TRUE)
    BY <2>4, Agreed DEF ReturnFailure
  <2>. QED
    BY <1>8, <2>2, <2>3, <2>4 DEF CatchRecord
<1>. QED
  BY <1>2, <1>3, <1>4, <1>5, <1>6, <1>7, <1>8 DEF Execute, Catch

LEMMA AgreementHolds == Spec => []AccountsAgree
<1>1. Init => AccountsAgree
  BY DEF Init, AccountsAgree
<1>2. AccountInv /\ AccountsAgree /\ [Next]_vars => AccountsAgree'
  <2>. SUFFICES ASSUME AccountInv, AccountsAgree, [Next]_vars, NEW o \in Ops PROVE Agrees(o)'
    BY DEF AccountsAgree, Agrees
  <2>0. Agrees(o)
    BY DEF AccountsAgree, Agrees
  <2>1. (pc'[o] = "done" => pc[o] = "done" /\ rec'[o] = rec[o] /\ out'[o] = out[o]) => Agrees(o)'
    BY <2>0 DEF Agrees
  <2>2. CASE Execute(o) /\ UNCHANGED plan
    BY <2>2, ExecutingAgrees
  <2>3. ASSUME NEW p \in Ops, p # o, UNCHANGED plan,
               Execute(p) \/ Recover(p) \/ Cancel(p) \/ AbortQueued(p) \/ LoseHelper(p)
        PROVE  Agrees(o)'
    <3>1. OthersStay(p)
      BY <2>3, Admitting, Preparing, Committing, Removing, Duplicating, Catching, Recovered,
         Disturbed DEF Execute, AccountInv, Kept
    <3>2. Accounted(p)
      BY <2>3, AdmittingTells, PreparingTells, CommittingTells, RemovingTells, DuplicatingTells,
         CatchingTells, RecoveringTells, DisturbedTells DEF Execute
    <3>. QED
      BY <2>1, <2>3, <3>1, <3>2 DEF OthersStay, Accounted, OthersKeep
  <2>4. CASE Recover(o)
    <3>1. pc'[o] # "done"
      BY <2>4 DEF Recover, RecoverSkip, RecoverTerminal, RecoverPending, RecoverOther, RecoverRestore,
         RecoverClean, RecoverRecord, RecoverFail, RecoverDiscard, Goto, AccountInv, StagedInv, Shape
    <3>. QED
      BY <2>1, <3>1
  <2>5. CASE Cancel(o) \/ AbortQueued(o) \/ LoseHelper(o)
    <3>1. pc'[o] = "done" => pc' = pc /\ rec' = rec /\ out' = out
      BY <2>5 DEF Cancel, AbortQueued, LoseHelper, Throw, Goto, AccountInv, StagedInv, Shape
    <3>. QED
      BY <2>1, <3>1
  <2>6. CASE Crash \/ Close
    <3>1. pc'[o] # "done"
      BY <2>6 DEF Crash, Close, Stopped
    <3>. QED
      BY <2>1, <3>1
  <2>7. CASE Meddle \/ Open \/ Sweep \/ UNCHANGED vars
    <3>1. pc' = pc /\ rec' = rec /\ out' = out
      BY <2>7 DEF Meddle, Open, Sweep, vars
    <3>. QED
      BY <2>1, <3>1
  <2>. QED
    BY <2>2, <2>3, <2>4, <2>5, <2>6, <2>7 DEF Next, Step
<1>. QED
  BY <1>1, <1>2, AccountInvHolds, PTL DEF Spec

(* What the journal and the results of execute say of each source is true, *)
(* and they say the same unless the result is open: whatever failed, the   *)
(* record of the failure included, whoever interfered and however often it *)
(* was recovered.                                                          *)
THEOREM AccountsAreTruthful == Spec => []AccountsTruthful
<1>1. AccountInv => JournalTruthful /\ ResultsTruthful
  BY DEF AccountInv, Told, JournalTruthful, ResultsTruthful, StagedInv, Shape
<1>. QED
  BY <1>1, AccountInvHolds, AgreementHolds, PTL DEF AccountsTruthful

-----------------------------------------------------------------------------
RecTypes  == rec \in [Ops -> Records]

Fields(f) ==
  /\ "state" \in DOMAIN f => f.state \in States
  /\ "dest" \in DOMAIN f => f.dest \in 0 .. NoName
  /\ "rsv" \in DOMAIN f => f.rsv \in 0 .. NoName
  /\ "mark" \in DOMAIN f => f.mark \in 0 .. NoName
  /\ "staging" \in DOMAIN f => f.staging \in Kinds
  /\ "ident" \in DOMAIN f => f.ident \in Idents
  /\ "committed" \in DOMAIN f => f.committed \in BOOLEAN
  /\ "cons" \in DOMAIN f => f.cons \in BOOLEAN
  /\ "retained" \in DOMAIN f => f.retained \in BOOLEAN
  /\ "final" \in DOMAIN f => f.final \in BOOLEAN

LEMMA AppendedTypes ==
  ASSUME RecTypes, NEW o \in Ops, NEW fields, Append(o, fields), Fields(fields)
  PROVE  RecTypes'
<1>. DEFINE new == [k \in DOMAIN rec[o] |-> IF k \in DOMAIN fields THEN fields[k] ELSE rec[o][k]]
<1>1. DOMAIN rec[o] = {"state", "committed", "dest", "staging", "ident", "rsv", "mark", "cons",
              "retained", "final"}
  BY DEF RecTypes, Records
<1>2. new = [state |-> new.state, committed |-> new.committed, dest |-> new.dest,
      staging |-> new.staging, ident |-> new.ident, rsv |-> new.rsv, mark |-> new.mark,
      cons |-> new.cons, retained |-> new.retained, final |-> new.final]
  BY <1>1
<1>3. new \in Records
  BY <1>1, <1>2 DEF RecTypes, Records, Fields
<1>. QED
  BY <1>3 DEF RecTypes, Append

-----------------------------------------------------------------------------
Origins == {"path", "quarantine", "deleted", "user"}
LifeTypes ==
  /\ plan \in Plans
  /\ orig \in [Ops -> Origins]
  /\ proc \in {"up", "down", "opening"} /\ helper \in {"ok", "fatal"}
  /\ cancelled \subseteq Ops
  /\ alloc \in Ops \cup {NoOp} /\ counter \in 0 .. NoName
  /\ cache \in [Contents -> 0 .. NoName]
  /\ pc \in [Ops -> Labels]
DiskTypes ==
  /\ dst \in [Names -> Files]
  /\ file \in [Ops -> [part : Bytes, guard : Bytes]]
  /\ marker \in [Names -> Ops \cup {NoOp}]
  /\ objects \subseteq Contents

(* A call that has not published has not counted the link it will make.    *)
Spare(o)  == pc[o] \in Early => op[o].ident.links < MaxName + 3
Budget    == \A o \in Ops : Spare(o)
NumFields(o) ==
  /\ op[o].cursor \in 0 .. NoName /\ op[o].cand \in 0 .. NoName
  /\ op[o].staging \in Kinds /\ op[o].ident \in Idents
BoolFields(o) ==
  /\ op[o].held \in BOOLEAN /\ op[o].committed \in BOOLEAN /\ op[o].intent \in BOOLEAN
  /\ op[o].residue \in BOOLEAN /\ op[o].unknown \in BOOLEAN /\ op[o].retained \in BOOLEAN
Domains == DOMAIN op = Ops /\ \A o \in Ops : DOMAIN op[o] = OpFields
Calling == /\ Domains /\ Budget
           /\ \A o \in Ops : NumFields(o) /\ BoolFields(o)
OutTypes  == out \in [Ops -> Results]

Typed == LifeTypes /\ DiskTypes /\ RecTypes /\ Calling /\ OutTypes

Disturb(o) == Cancel(o) \/ AbortQueued(o) \/ LoseHelper(o)

LEMMA LinkCount ==
  ASSUME DiskTypes, NEW o \in Ops, NEW k \in {"part", "guard"}
  PROVE  /\ Links(o, k) \in 1 .. MaxName + 2
         /\ Identity(o, k) \in Idents /\ Identity(o, k).links < MaxName + 3
<1>. DEFINE mine == {n \in Names : dst[n].ino = <<o, k>>}
<1>1. IsFiniteSet(Names) /\ Cardinality(Names) = MaxName + 1
  BY BoundsAssumption, FS_Interval DEF Names
<1>2. mine \subseteq Names
  OBVIOUS
<1>3. Cardinality(mine) \in Nat /\ Cardinality(mine) <= MaxName + 1
  <2>. HIDE DEF mine
  <2>. QED
    BY <1>1, <1>2, FS_Subset, FS_CardinalityType
<1>4. Links(o, k) \in 1 .. MaxName + 2
  BY <1>3, BoundsAssumption DEF Links
<1>5. file[o][k] \in Bytes
  BY DEF DiskTypes
<1>. QED
  BY <1>4, <1>5, BoundsAssumption DEF Identity, Idents

LEMMA CursorThere ==
  ASSUME StagedInv, NEW o \in Ops, pc[o] \in {"mark", "recheck"}
  PROVE  op[o].cursor \in Names
  BY DEF StagedInv, OpInv
LEMMA MoreBytes ==
  /\ Contents \subseteq Bytes /\ Foreign \in Bytes /\ Nothing \in Bytes
  /\ Absent \in Files /\ \A b \in Bytes : [content |-> b, ino |-> <<NoOp, "own">>] \in Files
  /\ \A b \in Bytes, o \in Ops, k \in {"part", "guard"} : [content |-> b, ino |-> <<o, k>>] \in Files
  BY DEF Bytes, Absent, Files, Inodes
LEMMA FreshCall ==
  /\ NoIdentity \in Idents /\ NoIdentity.links < MaxName + 3
  /\ NoName \in 0 .. NoName /\ 0 \in 0 .. NoName
  BY BoundsAssumption DEF NoIdentity, Idents, Bytes, NoName
LEMMA NewIdent == \A c \in Contents : [made |-> c, links |-> 1] \in Idents
  BY BoundsAssumption DEF Idents, Bytes
LEMMA DeadFields ==
  ASSUME Calling, NEW o \in Ops, HelperDead(o) PROVE NumFields(o)' /\ BoolFields(o)'
  BY DEF Calling, Domains, OpFields, NumFields, BoolFields, HelperDead
LEMMA DeadSpare ==
  ASSUME LifeTypes, NEW o \in Ops, HelperDead(o) PROVE Spare(o)'
  BY DEF LifeTypes, HelperDead, Spare, Throw, Goto
LEMMA ResidueFields ==
  ASSUME Calling, NEW o \in Ops, NEW v \in BOOLEAN, op' = [op EXCEPT ![o].residue = v]
  PROVE  NumFields(o)' /\ BoolFields(o)'
  BY DEF Calling, Domains, OpFields, NumFields, BoolFields
LEMMA FileGone ==
  ASSUME DiskTypes, NEW o \in Ops, NEW k \in Kinds
  PROVE  WithoutFile(o, k) \in [Ops -> [part : Bytes, guard : Bytes]]
  BY MoreBytes DEF DiskTypes, WithoutFile, Kinds
LEMMA MarkerGone ==
  ASSUME DiskTypes, NEW o \in Ops, NEW n
  PROVE  WithoutMarker(o, n) \in [Names -> Ops \cup {NoOp}]
  BY DEF DiskTypes, WithoutMarker
LEMMA DeadDisk ==
  ASSUME NEW o, HelperDead(o) PROVE UNCHANGED <<orig, dst, file, marker, objects>>
  BY DEF HelperDead, disk
LEMMA Written ==
  ASSUME DiskTypes, NEW o \in Ops, NEW b \in Bytes
  PROVE  /\ [file EXCEPT ![o].part = b] \in [Ops -> [part : Bytes, guard : Bytes]]
         /\ [file EXCEPT ![o].guard = b] \in [Ops -> [part : Bytes, guard : Bytes]]
  BY DEF DiskTypes
LEMMA OutBytes == ASSUME LifeTypes, NEW o \in Ops
  PROVE  Content[o] \in Bytes /\ Out[o] \in Bytes /\ Foreign \in Bytes
  BY PlanAssumption DEF LifeTypes, Content, Bytes
LEMMA Relinked ==
  ASSUME LifeTypes, Calling, NEW o \in Ops, GuardOk(o)
  PROVE  [content |-> Out[o], ino |-> <<o, op[o].staging>>] \in Files
  BY OutBytes, MoreBytes DEF Calling, NumFields, GuardOk, Kinds
LEMMA LinkedFile ==
  ASSUME DiskTypes, NEW o \in Ops PROVE Linked(o) \in Files
  BY MoreBytes DEF DiskTypes, Linked


LEMMA LifeTyped ==
  ASSUME StagedInv, Typed, pc' \in [Ops -> Labels], orig' \in [Ops -> Origins],
         NEW o \in Ops, UNCHANGED plan, Execute(o) \/ Recover(o) \/ Disturb(o)
  PROVE  LifeTypes'
<1>. USE DEF Typed
<1>1. CASE Admit(o)
  <2>1. CASE Start(o) \/ Reserve(o) \/ Probe(o) \/ Mark(o)
    BY <2>1, BoundsAssumption, PlanAssumption, OpsAssumption DEF Start, Reserve, Probe,
       Mark, LifeTypes, Names, NoName, Content, At, Throw, Unlock, life, mem, Calling,
       NumFields, BoolFields, Advance, HelperDead
  <2>2. CASE Recheck(o)
    BY <2>2, BoundsAssumption, PlanAssumption, OpsAssumption, CursorThere DEF Recheck,
       LifeTypes, Names, NoName, Content, At, Throw, Unlock, life, mem, Calling,
       NumFields, BoolFields, Advance
  <2>. QED
    BY <1>1, <2>1, <2>2 DEF Admit
<1>2. CASE Prepare(o)
    BY <1>2, BoundsAssumption, PlanAssumption, OpsAssumption DEF Prepare, Stage, RecordStaged,
       RecordVerified, Transform, RecordTransformed, LifeTypes, Names, NoName, Content,
       At, Throw, Unlock, life, mem, Calling, NumFields, BoolFields, HelperDead
<1>3. CASE Commit(o)
    BY <1>3, BoundsAssumption, PlanAssumption, OpsAssumption DEF Commit, Publish,
       RecordCommitted, AfterCommit, RecordAbort, LifeTypes, Names, NoName, Content, At,
       Throw, Unlock, life, mem, Calling, NumFields, BoolFields, HelperDead
<1>4. CASE Remove(o)
  <2>1. CASE DelVerify(o) \/ DelIntent(o) \/ DelCheck(o) \/ Delete(o) \/ RecordDeleted(o)
           \/ Unguard(o) \/ Unguarded(o) \/ Finish(o)
    BY <2>1, BoundsAssumption, PlanAssumption, OpsAssumption DEF DelVerify, DelIntent,
       DelCheck, Delete, RecordDeleted, Unguard, Unguarded, Finish, LifeTypes, Names,
       NoName, Content, At, Throw, Unlock, life, mem, Calling, NumFields, BoolFields,
       HelperDead
  <2>2. CASE Restore(o)
    <3>1. /\ UNCHANGED <<life, counter, cache>>
          /\ alloc' = alloc \/ Unlock(o)
      BY <2>2 DEF Restore, RestoreFromGuard, HelperDead, Throw, mem
    <3>. QED
      BY <3>1 DEF LifeTypes, life, Unlock
  <2>3. CASE Release(o)
    <3>1. /\ UNCHANGED <<life, counter, cache>>
          /\ alloc' = alloc \/ Unlock(o)
      BY <2>3 DEF Release, RestoreFromGuard, HelperDead, Throw, mem
    <3>. QED
      BY <3>1 DEF LifeTypes, life, Unlock
  <2>. QED
    BY <1>4, <2>1, <2>2, <2>3 DEF Remove
<1>5. CASE Same(o)
    BY <1>5, BoundsAssumption, PlanAssumption, OpsAssumption DEF Same, Duplicate,
       RecordDuplicate, GuardStage, RecordGuard, LifeTypes, Names, NoName, Content, At,
       Throw, Unlock, life, mem, Calling, NumFields, BoolFields, HelperDead
<1>6. CASE Catch(o)
    BY <1>6, BoundsAssumption, PlanAssumption, OpsAssumption DEF Catch, CatchClean, CatchRecord,
       LifeTypes, Names, NoName, Content, At, Throw, Unlock, life, mem, Calling,
       NumFields, BoolFields
<1>7. CASE Recover(o)
    BY <1>7, BoundsAssumption, PlanAssumption, OpsAssumption DEF Recover, RecoverSkip,
       RecoverTerminal, RecoverPending, RecoverOther, RecoverRestore, RecoverClean,
       RecoverRecord, RecoverFail, RecoverDiscard, LifeTypes, Names, NoName, Content, At,
       Throw, Unlock, life, mem, Calling, NumFields, BoolFields
<1>8. CASE Disturb(o)
    BY <1>8, BoundsAssumption, PlanAssumption, OpsAssumption DEF Disturb, Cancel, AbortQueued,
       LoseHelper, LifeTypes, Names, NoName, Content, At, Throw, Unlock, life, mem,
       Calling, NumFields, BoolFields
<1>. QED
  BY <1>1, <1>2, <1>3, <1>4, <1>5, <1>6, <1>7, <1>8 DEF Execute

LEMMA FilesTyped ==
  ASSUME StagedInv, Typed, pc' \in [Ops -> Labels], orig' \in [Ops -> Origins],
         NEW o \in Ops, UNCHANGED plan, Execute(o) \/ Recover(o) \/ Disturb(o)
  PROVE  DiskTypes'
<1>. USE DEF Typed
<1>1. CASE Admit(o)
  <2>1. CASE Start(o) \/ Reserve(o) \/ Probe(o)
    BY <2>1, DeadDisk DEF Start, Reserve, Probe, DiskTypes, disk, Advance
  <2>2. CASE Mark(o)
    BY <2>2, DeadDisk DEF Mark, DiskTypes, disk, Advance
  <2>3. CASE Recheck(o)
    BY <2>3, DeadDisk, MarkerGone DEF Recheck, DiskTypes, disk, Advance
  <2>. QED
    BY <1>1, <2>1, <2>2, <2>3 DEF Admit
<1>2. CASE Prepare(o)
  <2>1. CASE Stage(o)
    <3>1. UNCHANGED <<dst, marker, objects>>
      BY <2>1, DeadDisk DEF Stage, disk
    <3>2. file' = file \/ \E b \in Bytes : file' = [file EXCEPT ![o].part = b]
      BY <2>1, DeadDisk, OutBytes DEF Stage, disk
    <3>3. file' \in [Ops -> [part : Bytes, guard : Bytes]]
      BY <3>2 DEF DiskTypes
    <3>. QED
      BY <3>1, <3>3 DEF DiskTypes
  <2>2. CASE RecordStaged(o) \/ RecordVerified(o) \/ RecordTransformed(o)
    BY <2>2, DeadDisk DEF RecordStaged, RecordVerified, RecordTransformed, DiskTypes, disk
  <2>3. CASE Transform(o)
    <3>1. UNCHANGED <<dst, marker, objects>>
      BY <2>3, DeadDisk DEF Transform, disk
    <3>2. file' = file \/ \E b \in Bytes : file' = [file EXCEPT ![o].part = b]
      BY <2>3, DeadDisk, OutBytes DEF Transform, disk
    <3>3. file' \in [Ops -> [part : Bytes, guard : Bytes]]
      BY <3>2 DEF DiskTypes
    <3>. QED
      BY <3>1, <3>3 DEF DiskTypes
  <2>. QED
    BY <1>2, <2>1, <2>2, <2>3 DEF Prepare
<1>3. CASE Commit(o)
  <2>1. CASE Publish(o)
    BY <2>1, DeadDisk, LinkedFile, MarkerGone DEF Publish, DiskTypes, disk
  <2>2. CASE RecordCommitted(o) \/ RecordAbort(o)
    BY <2>2, DeadDisk DEF RecordCommitted, RecordAbort, DiskTypes, disk
  <2>3. CASE AfterCommit(o)
    <3>1. CASE CleanStaging(o)
      <4>1. op[o].staging \in Kinds
        BY DEF Calling, NumFields
      <4>. QED
        BY <2>3, <3>1, <4>1, FileGone, MarkerGone DEF AfterCommit, CleanStaging, DiskTypes
    <3>2. CASE UNCHANGED <<file, marker>>
      BY <2>3, <3>2 DEF AfterCommit, DiskTypes
    <3>. QED
      BY <2>3, <3>1, <3>2 DEF AfterCommit
  <2>. QED
    BY <1>3, <2>1, <2>2, <2>3 DEF Commit
<1>4. CASE Remove(o)
  <2>1. CASE DelVerify(o)
    BY <2>1, DeadDisk, PlanAssumption DEF DelVerify, DiskTypes, disk, LifeTypes
  <2>2. CASE DelIntent(o) \/ DelCheck(o) \/ Delete(o) \/ RecordDeleted(o) \/ Finish(o)
    BY <2>2, DeadDisk DEF DelIntent, DelCheck, Delete, RecordDeleted, Finish, DiskTypes,
       disk
  <2>3. CASE Restore(o)
    BY <2>3, DeadDisk, Relinked DEF Restore, DiskTypes, disk, RestoreFromGuard
  <2>4. CASE Release(o)
    BY <2>4, DeadDisk, Relinked DEF Release, DiskTypes, disk, RestoreFromGuard
  <2>5. CASE Unguard(o)
    BY <2>5, DeadDisk, FileGone DEF Unguard, DiskTypes, disk, Calling, NumFields
  <2>6. CASE Unguarded(o)
    BY <2>6, DeadDisk, MarkerGone DEF Unguarded, DiskTypes, disk
  <2>. QED
    BY <1>4, <2>1, <2>2, <2>3, <2>4, <2>5, <2>6 DEF Remove
<1>5. CASE Same(o)
  <2>1. CASE Duplicate(o)
    BY <2>1, DeadDisk, FileGone DEF Duplicate, DiskTypes, disk, Kinds
  <2>2. CASE RecordDuplicate(o) \/ RecordGuard(o)
    BY <2>2, DeadDisk DEF RecordDuplicate, RecordGuard, DiskTypes, disk
  <2>3. CASE GuardStage(o)
    <3>1. UNCHANGED <<dst, marker, objects>>
      BY <2>3, DeadDisk DEF GuardStage, disk
    <3>2. file' = file \/ \E b \in Bytes : file' = [file EXCEPT ![o].guard = b]
      BY <2>3, DeadDisk, OutBytes DEF GuardStage, disk
    <3>3. file' \in [Ops -> [part : Bytes, guard : Bytes]]
      BY <3>2 DEF DiskTypes
    <3>. QED
      BY <3>1, <3>3 DEF DiskTypes
  <2>. QED
    BY <1>5, <2>1, <2>2, <2>3 DEF Same
<1>6. CASE Catch(o)
  <2>1. CASE CatchClean(o)
    BY <2>1, DeadDisk, MarkerGone, FileGone DEF CatchClean, DiskTypes, disk, Calling,
       NumFields
  <2>2. CASE CatchRecord(o)
    BY <2>2, DeadDisk DEF CatchRecord, DiskTypes, disk
  <2>. QED
    BY <1>6, <2>1, <2>2 DEF Catch
<1>7. CASE Recover(o)
  <2>1. CASE RecoverSkip(o) \/ RecoverPending(o) \/ RecoverOther(o) \/ RecoverRecord(o) \/
           RecoverFail(o)
    BY <2>1, DeadDisk DEF RecoverSkip, RecoverPending, RecoverOther, RecoverRecord,
       RecoverFail, DiskTypes, disk
  <2>2. CASE RecoverTerminal(o)
    BY <2>2, DeadDisk, FileGone DEF RecoverTerminal, DiskTypes, disk, RecTypes, Records
  <2>3. CASE RecoverRestore(o)
    BY <2>3, DeadDisk, PlanAssumption, MoreBytes DEF RecoverRestore, DiskTypes, disk,
       LifeTypes
  <2>4. CASE RecoverClean(o)
    BY <2>4, DeadDisk, FileGone DEF RecoverClean, DiskTypes, disk, RecTypes, Records,
       FreeMarker
  <2>5. CASE RecoverDiscard(o)
    BY <2>5, DeadDisk, FileGone DEF RecoverDiscard, DiskTypes, disk, RecTypes, Records,
       FreeMarker
  <2>. QED
    BY <1>7, <2>1, <2>2, <2>3, <2>4, <2>5 DEF Recover
<1>8. CASE Disturb(o)
  <2>1. CASE Cancel(o) \/ AbortQueued(o)
    BY <2>1, DeadDisk DEF Cancel, AbortQueued, DiskTypes, disk
  <2>2. CASE LoseHelper(o)
    <3>1. UNCHANGED <<marker, objects>>
      BY <2>2 DEF LoseHelper
    <3>2. \/ file' = file
          \/ \E b \in Bytes : file' = [file EXCEPT ![o].part = b] \/ file' = [file EXCEPT ![o].guard = b]
      BY <2>2, OutBytes DEF LoseHelper
    <3>3. file' \in [Ops -> [part : Bytes, guard : Bytes]]
      BY <3>2 DEF DiskTypes
    <3>4. dst' = dst \/ dst' = [dst EXCEPT ![op[o].cand] = Linked(o)]
      BY <2>2 DEF LoseHelper
    <3>. QED
      BY <3>1, <3>3, <3>4, LinkedFile DEF DiskTypes
  <2>. QED
    BY <1>8, <2>1, <2>2 DEF Disturb
<1>. QED
  BY <1>1, <1>2, <1>3, <1>4, <1>5, <1>6, <1>7, <1>8 DEF Execute

LEMMA RecordsTyped ==
  ASSUME StagedInv, Typed, pc' \in [Ops -> Labels], orig' \in [Ops -> Origins],
         NEW o \in Ops, UNCHANGED plan, Execute(o) \/ Recover(o) \/ Disturb(o)
  PROVE  RecTypes'
<1>. USE DEF Typed
<1>1. CASE Admit(o)
    BY <1>1, BoundsAssumption, AppendedTypes DEF Admit, Start, Reserve, Probe, Mark, Recheck,
       RecTypes, Fields, States, Kinds, Calling, NumFields, BoolFields, NoName, Advance,
       HelperDead
<1>2. CASE Prepare(o)
  <2>1. CASE Stage(o) \/ RecordStaged(o) \/ RecordVerified(o) \/ Transform(o)
    BY <2>1, BoundsAssumption, AppendedTypes DEF Stage, RecordStaged, RecordVerified,
       Transform, RecTypes, Fields, States, Kinds, Calling, NumFields, BoolFields, NoName,
       HelperDead
  <2>2. CASE RecordTransformed(o)
    BY <2>2, BoundsAssumption, AppendedTypes, LinkCount DEF RecordTransformed, RecTypes,
       Fields, States, Kinds, Calling, NumFields, BoolFields, NoName
  <2>. QED
    BY <1>2, <2>1, <2>2 DEF Prepare
<1>3. CASE Commit(o)
    BY <1>3, BoundsAssumption, AppendedTypes DEF Commit, Publish, RecordCommitted, AfterCommit,
       RecordAbort, RecTypes, Fields, States, Kinds, Calling, NumFields, BoolFields,
       NoName, HelperDead
<1>4. CASE Remove(o)
    BY <1>4, BoundsAssumption, AppendedTypes DEF Remove, DelVerify, DelIntent, DelCheck, Delete,
       Restore, RecordDeleted, Release, Unguard, Unguarded, Finish, RecTypes, Fields,
       States, Kinds, Calling, NumFields, BoolFields, NoName, HelperDead, RestoreFromGuard
<1>5. CASE Same(o)
    BY <1>5, BoundsAssumption, AppendedTypes DEF Same, Duplicate, RecordDuplicate, GuardStage,
       RecordGuard, RecTypes, Fields, States, Kinds, Calling, NumFields, BoolFields,
       NoName, HelperDead
<1>6. CASE Catch(o)
  <2>1. CASE CatchClean(o)
    BY <2>1, BoundsAssumption, AppendedTypes DEF CatchClean, RecTypes, Fields, States,
       Kinds, Calling, NumFields, BoolFields, NoName, SourceThere
  <2>2. CASE CatchRecord(o)
    <3>. DEFINE status == IF o \in cancelled THEN "cancelled" ELSE "failed"
               dest == IF op[o].cand = NoName THEN rec[o].dest ELSE op[o].cand
               staging == IF op[o].staging = "none" THEN rec[o].staging ELSE op[o].staging
               rsv == IF op[o].held THEN op[o].cand ELSE rec[o].rsv
    <3>1. rec[o].dest \in 0 .. NoName /\ rec[o].rsv \in 0 .. NoName /\ rec[o].staging \in Kinds
      BY DEF RecTypes, Records
    <3>2. NumFields(o) /\ BoolFields(o)
      BY DEF Calling
    <3>3. /\ status \in States /\ dest \in 0 .. NoName /\ staging \in Kinds /\ rsv \in 0 .. NoName
          /\ op[o].committed \in BOOLEAN /\ op[o].retained \in BOOLEAN
      BY <3>1, <3>2 DEF NumFields, BoolFields, States
    <3>4. \/ rec' = rec
          \/ Append(o, [state |-> status, committed |-> op[o].committed, retained |-> op[o].retained,
                        dest |-> dest, staging |-> staging, rsv |-> rsv])
      BY <2>2 DEF CatchRecord, AppendFailure, Status
    <3>. HIDE DEF status, dest, staging, rsv
    <3>. QED
      BY <3>3, <3>4, AppendedTypes DEF Fields, RecTypes
  <2>. QED
    BY <1>6, <2>1, <2>2 DEF Catch
<1>7. CASE Recover(o)
    BY <1>7, BoundsAssumption, AppendedTypes DEF Recover, RecoverSkip, RecoverTerminal,
       RecoverPending, RecoverOther, RecoverRestore, RecoverClean, RecoverRecord,
       RecoverFail, RecoverDiscard, RecTypes, Fields, States, Kinds, Calling, NumFields,
       BoolFields, NoName, SourceThere
<1>8. CASE Disturb(o)
    BY <1>8, BoundsAssumption, AppendedTypes DEF Disturb, Cancel, AbortQueued, LoseHelper,
       RecTypes, Fields, States, Kinds, Calling, NumFields, BoolFields, NoName
<1>. QED
  BY <1>1, <1>2, <1>3, <1>4, <1>5, <1>6, <1>7, <1>8 DEF Execute

LEMMA NumbersTyped ==
  ASSUME StagedInv, Typed, pc' \in [Ops -> Labels], orig' \in [Ops -> Origins],
         NEW o \in Ops, UNCHANGED plan, Execute(o) \/ Recover(o) \/ Disturb(o)
  PROVE  NumFields(o)'
<1>. USE DEF Typed
<1>1. CASE Admit(o)
  <2>1. CASE Start(o)
    BY <2>1, DeadFields DEF Start, Calling, OpFields, Domains, NumFields
  <2>2. CASE Reserve(o)
    BY <2>2, DeadFields, BoundsAssumption, PlanAssumption DEF Reserve, Calling, OpFields,
       Domains, NumFields, NoName, LifeTypes, Content
  <2>3. CASE Probe(o)
    BY <2>3, DeadFields, BoundsAssumption DEF Probe, Calling, OpFields, Domains,
       NumFields, NoName, Names, Advance
  <2>4. CASE Mark(o)
    BY <2>4, DeadFields, BoundsAssumption, CursorThere DEF Mark, Calling, OpFields,
       Domains, NumFields, NoName, Names, At, Advance
  <2>5. CASE Recheck(o)
    BY <2>5, DeadFields, BoundsAssumption, CursorThere DEF Recheck, Calling, OpFields,
       Domains, NumFields, NoName, Names, At, Advance
  <2>. QED
    BY <1>1, <2>1, <2>2, <2>3, <2>4, <2>5 DEF Admit
<1>2. CASE Prepare(o)
  <2>1. CASE Stage(o)
    BY <2>1, DeadFields, PlanAssumption, NewIdent DEF Stage, Calling, OpFields, Domains,
       NumFields, Content, LifeTypes, Kinds
  <2>2. CASE RecordStaged(o) \/ RecordVerified(o) \/ Transform(o)
    BY <2>2, DeadFields DEF RecordStaged, RecordVerified, Transform, Calling, OpFields,
       Domains, NumFields
  <2>3. CASE RecordTransformed(o)
    BY <2>3, DeadFields, LinkCount DEF RecordTransformed, Calling, OpFields, Domains,
       NumFields
  <2>. QED
    BY <1>2, <2>1, <2>2, <2>3 DEF Prepare
<1>3. CASE Commit(o)
  <2>1. CASE Publish(o)
    <3>1. CASE op' = [op EXCEPT ![o].ident.links = @ + 1, ![o].committed = TRUE]
      <4>1. pc[o] = "publish"
        BY <2>1 DEF Publish, At
      <4>2. op[o].ident \in Idents /\ op[o].ident.links < MaxName + 3
        BY <4>1 DEF Calling, NumFields, Budget, Spare
      <4>3. [op[o].ident EXCEPT !.links = @ + 1] \in Idents
        BY <4>2, BoundsAssumption DEF Idents
      <4>4. op'[o].ident = [op[o].ident EXCEPT !.links = @ + 1]
        BY <3>1 DEF Calling, Domains, OpFields
      <4>. QED
        BY <3>1, <4>3, <4>4 DEF Calling, Domains, OpFields, NumFields
    <3>2. CASE op' = op \/ op' = [op EXCEPT ![o].held = FALSE]
      BY <3>2 DEF Calling, Domains, OpFields, NumFields
    <3>. QED
      BY <2>1, <3>1, <3>2, DeadFields DEF Publish
  <2>2. CASE RecordCommitted(o)
    BY <2>2 DEF RecordCommitted, Calling, OpFields, Domains, NumFields
  <2>4. CASE AfterCommit(o)
    <3>1. op' = op \/ CleanStaging(o)
      BY <2>4 DEF AfterCommit
    <3>. QED
      BY <3>1 DEF Calling, OpFields, Domains, NumFields, CleanStaging
  <2>3. CASE RecordAbort(o)
    BY <2>3, DeadFields, FreshCall DEF RecordAbort, Calling, OpFields, Domains, NumFields,
       Fresh, Kinds, Return
  <2>. QED
    BY <1>3, <2>1, <2>2, <2>3, <2>4 DEF Commit
<1>4. CASE Remove(o)
  <2>1. CASE DelVerify(o) \/ DelIntent(o) \/ DelCheck(o) \/ Delete(o) \/ Restore(o) \/
           RecordDeleted(o) \/ Release(o) \/ Unguard(o) \/ Unguarded(o)
    BY <2>1, DeadFields DEF DelVerify, DelIntent, DelCheck, Delete, Restore,
       RecordDeleted, Release, Unguard, Unguarded, Calling, OpFields, Domains, NumFields,
       RestoreFromGuard
  <2>2. CASE Finish(o)
    BY <2>2, DeadFields, FreshCall DEF Finish, Calling, OpFields, Domains, NumFields,
       Fresh, Kinds, Return
  <2>. QED
    BY <1>4, <2>1, <2>2 DEF Remove
<1>5. CASE Same(o)
  <2>1. CASE Duplicate(o)
    <3>1. \/ op' = [op EXCEPT ![o].committed = TRUE]
          \/ \E v : op' = [op EXCEPT ![o].committed = TRUE, ![o].staging = "none", ![o].residue = v]
      BY <2>1 DEF Duplicate
    <3>. QED
      BY <3>1 DEF Calling, Domains, OpFields, NumFields, Kinds
  <2>2. CASE RecordDuplicate(o)
    BY <2>2, DeadFields, FreshCall DEF RecordDuplicate, Calling, OpFields, Domains,
       NumFields, Fresh, Kinds, Return
  <2>3. CASE GuardStage(o)
    BY <2>3, DeadFields, PlanAssumption, NewIdent DEF GuardStage, Calling, OpFields,
       Domains, NumFields, Content, LifeTypes, Kinds
  <2>4. CASE RecordGuard(o)
    BY <2>4, DeadFields DEF RecordGuard, Calling, OpFields, Domains, NumFields
  <2>. QED
    BY <1>5, <2>1, <2>2, <2>3, <2>4 DEF Same
<1>6. CASE Catch(o)
  <2>1. CASE CatchClean(o)
    BY <2>1, DeadFields DEF CatchClean, Calling, OpFields, Domains, NumFields
  <2>2. CASE CatchRecord(o)
    BY <2>2, DeadFields, FreshCall DEF CatchRecord, ReturnFailure, Calling, OpFields, Domains, NumFields,
       Fresh, Kinds, Return
  <2>. QED
    BY <1>6, <2>1, <2>2 DEF Catch
<1>7. CASE Recover(o)
  <2>1. CASE RecoverSkip(o) \/ RecoverTerminal(o) \/ RecoverPending(o) \/ RecoverOther(o)
           \/ RecoverRestore(o) \/ RecoverFail(o) \/ RecoverDiscard(o)
    BY <2>1, DeadFields DEF RecoverSkip, RecoverTerminal, RecoverPending, RecoverOther,
       RecoverRestore, RecoverFail, RecoverDiscard, Calling, OpFields, Domains, NumFields
  <2>2. CASE RecoverClean(o)
    BY <2>2, DeadFields DEF RecoverClean, Calling, OpFields, Domains, NumFields
  <2>3. CASE RecoverRecord(o)
    BY <2>3, DeadFields, FreshCall DEF RecoverRecord, Calling, OpFields, Domains,
       NumFields, Fresh, Kinds
  <2>. QED
    BY <1>7, <2>1, <2>2, <2>3 DEF Recover
<1>8. CASE Disturb(o)
  <2>1. CASE Cancel(o) \/ AbortQueued(o)
    BY <2>1, DeadFields DEF Cancel, AbortQueued, Calling, OpFields, Domains, NumFields
  <2>2. CASE LoseHelper(o)
    BY <2>2, DeadFields DEF LoseHelper, Calling, OpFields, Domains, NumFields, Kinds
  <2>. QED
    BY <1>8, <2>1, <2>2 DEF Disturb
<1>. QED
  BY <1>1, <1>2, <1>3, <1>4, <1>5, <1>6, <1>7, <1>8 DEF Execute

LEMMA FlagsTyped ==
  ASSUME StagedInv, Typed, pc' \in [Ops -> Labels], orig' \in [Ops -> Origins],
         NEW o \in Ops, UNCHANGED plan, Execute(o) \/ Recover(o) \/ Disturb(o)
  PROVE  BoolFields(o)'
<1>. USE DEF Typed
<1>1. CASE Admit(o)
    BY <1>1, DeadFields DEF Admit, Start, Reserve, Probe, Mark, Recheck, Calling, OpFields,
       Domains, BoolFields, Advance
<1>2. CASE Prepare(o)
    BY <1>2, DeadFields DEF Prepare, Stage, RecordStaged, RecordVerified, Transform,
       RecordTransformed, Calling, OpFields, Domains, BoolFields
<1>3. CASE Commit(o)
  <2>1. CASE Publish(o) \/ RecordCommitted(o)
    <3>1. CASE Publish(o)
      <4>1. \/ HelperDead(o) \/ op' = op
            \/ op' = [op EXCEPT ![o].ident.links = @ + 1, ![o].committed = TRUE]
            \/ op' = [op EXCEPT ![o].held = FALSE]
        BY <3>1 DEF Publish
      <4>2. CASE op' = [op EXCEPT ![o].ident.links = @ + 1, ![o].committed = TRUE]
        <5>1. op'[o] = [op[o] EXCEPT !.ident.links = @ + 1, !.committed = TRUE]
          BY <4>2 DEF Calling, Domains
        <5>. QED
          BY <5>1 DEF Calling, OpFields, Domains, BoolFields
      <4>3. CASE op' = op \/ op' = [op EXCEPT ![o].held = FALSE]
        BY <4>3 DEF Calling, OpFields, Domains, BoolFields
      <4>. QED
        BY <4>1, <4>2, <4>3, DeadFields
    <3>2. CASE RecordCommitted(o)
      BY <3>2 DEF RecordCommitted, Calling, OpFields, Domains, BoolFields
    <3>. QED
      BY <2>1, <3>1, <3>2
  <2>2. CASE AfterCommit(o)
    <3>1. CASE op' = op
      BY <3>1 DEF Calling, BoolFields
    <3>2. CASE CleanStaging(o)
      <4>1. \E v \in BOOLEAN : op' = [op EXCEPT ![o].residue = v]
        BY <3>2 DEF CleanStaging
      <4>. QED
        BY <4>1, ResidueFields
    <3>. QED
      BY <2>2, <3>1, <3>2 DEF AfterCommit
  <2>3. CASE RecordAbort(o)
    BY <2>3, DeadFields DEF RecordAbort, Calling, OpFields, Domains, BoolFields, Fresh,
       Return
  <2>. QED
    BY <1>3, <2>1, <2>2, <2>3 DEF Commit
<1>4. CASE Remove(o)
  <2>1. CASE DelVerify(o) \/ DelIntent(o) \/ DelCheck(o) \/ Delete(o) \/ Restore(o) \/
           RecordDeleted(o) \/ Release(o) \/ Unguard(o)
    BY <2>1, DeadFields DEF DelVerify, DelIntent, DelCheck, Delete, Restore,
       RecordDeleted, Release, Unguard, Calling, OpFields, Domains, BoolFields,
       RestoreFromGuard
  <2>2. CASE Unguarded(o)
    <3>1. \E v \in BOOLEAN : op' = [op EXCEPT ![o].residue = v]
      BY <2>2 DEF Unguarded
    <3>. QED
      BY <3>1, ResidueFields
  <2>3. CASE Finish(o)
    BY <2>3, DeadFields DEF Finish, Calling, OpFields, Domains, BoolFields, Fresh, Return
  <2>. QED
    BY <1>4, <2>1, <2>2, <2>3 DEF Remove
<1>5. CASE Same(o)
  <2>1. CASE Duplicate(o)
    <3>1. \/ op' = [op EXCEPT ![o].committed = TRUE]
          \/ \E v \in BOOLEAN : op' = [op EXCEPT ![o].committed = TRUE, ![o].staging = "none", ![o].residue = v]
      BY <2>1 DEF Duplicate
    <3>2. CASE op' = [op EXCEPT ![o].committed = TRUE]
      BY <3>2 DEF Calling, Domains, OpFields, BoolFields
    <3>3. ASSUME NEW v \in BOOLEAN, op' = [op EXCEPT ![o].committed = TRUE, ![o].staging = "none", ![o].residue = v]
          PROVE  BoolFields(o)'
      BY <3>3 DEF Calling, Domains, OpFields, BoolFields
    <3>. QED
      BY <3>1, <3>2, <3>3
  <2>2. CASE RecordDuplicate(o)
    BY <2>2, DeadFields DEF RecordDuplicate, Calling, OpFields, Domains, BoolFields,
       Fresh, Return
  <2>3. CASE GuardStage(o) \/ RecordGuard(o)
    BY <2>3, DeadFields DEF GuardStage, RecordGuard, Calling, OpFields, Domains,
       BoolFields
  <2>. QED
    BY <1>5, <2>1, <2>2, <2>3 DEF Same
<1>6. CASE Catch(o)
  <2>1. CASE CatchClean(o)
    BY <2>1, DeadFields DEF CatchClean, Calling, OpFields, Domains, BoolFields,
       SourceThere
  <2>2. CASE CatchRecord(o)
    <3>1. op' = [op EXCEPT ![o] = Fresh]
      BY <2>2 DEF CatchRecord, ReturnFailure, Return
    <3>. QED
      BY <3>1 DEF Calling, Domains, BoolFields, Fresh
  <2>. QED
    BY <1>6, <2>1, <2>2 DEF Catch
<1>7. CASE Recover(o)
  <2>1. CASE RecoverSkip(o) \/ RecoverTerminal(o) \/ RecoverPending(o) \/ RecoverOther(o)
           \/ RecoverRestore(o) \/ RecoverFail(o) \/ RecoverDiscard(o)
    BY <2>1, DeadFields DEF RecoverSkip, RecoverTerminal, RecoverPending, RecoverOther,
       RecoverRestore, RecoverFail, RecoverDiscard, Calling, OpFields, Domains,
       BoolFields, SourceThere
  <2>2. CASE RecoverClean(o)
    BY <2>2, DeadFields DEF RecoverClean, Calling, OpFields, Domains, BoolFields,
       SourceThere
  <2>3. CASE RecoverRecord(o)
    BY <2>3, DeadFields DEF RecoverRecord, Calling, OpFields, Domains, BoolFields, Fresh
  <2>. QED
    BY <1>7, <2>1, <2>2, <2>3 DEF Recover
<1>8. CASE Disturb(o)
  <2>1. CASE Cancel(o)
    BY <2>1 DEF Cancel, Calling, BoolFields
  <2>2. CASE AbortQueued(o)
    BY <2>2 DEF AbortQueued, Calling, BoolFields
  <2>3. CASE LoseHelper(o)
    BY <2>3 DEF LoseHelper, Calling, OpFields, Domains, BoolFields
  <2>. QED
    BY <1>8, <2>1, <2>2, <2>3 DEF Disturb
<1>. QED
  BY <1>1, <1>2, <1>3, <1>4, <1>5, <1>6, <1>7, <1>8 DEF Execute

LEMMA LinksTyped ==
  ASSUME StagedInv, Typed, pc' \in [Ops -> Labels], orig' \in [Ops -> Origins],
         NEW o \in Ops, UNCHANGED plan, Execute(o) \/ Recover(o) \/ Disturb(o)
  PROVE  Spare(o)'
<1>. USE DEF Typed
<1>1. CASE Admit(o)
    BY <1>1, DeadSpare DEF Admit, Start, Reserve, Probe, Mark, Recheck, LifeTypes, Calling,
       OpFields, Budget, Spare, At, Recovering, Goto, Throw, Domains, Advance
<1>2. CASE Prepare(o)
  <2>1. CASE Stage(o)
    BY <2>1, DeadSpare, BoundsAssumption DEF Stage, LifeTypes, Calling, OpFields, Budget,
       Spare, At, Recovering, Goto, Throw, Domains
  <2>2. CASE RecordStaged(o) \/ RecordVerified(o) \/ Transform(o)
    BY <2>2, DeadSpare DEF RecordStaged, RecordVerified, Transform, LifeTypes, Calling,
       OpFields, Budget, Spare, At, Recovering, Goto, Throw, Domains
  <2>3. CASE RecordTransformed(o)
    BY <2>3, DeadSpare, LinkCount DEF RecordTransformed, LifeTypes, Calling, OpFields,
       Budget, Spare, At, Recovering, Goto, Throw, Domains
  <2>. QED
    BY <1>2, <2>1, <2>2, <2>3 DEF Prepare
<1>3. CASE Commit(o)
  <2>1. CASE Publish(o) \/ RecordCommitted(o) \/ AfterCommit(o)
    <3>1. CASE Publish(o)
      BY <3>1, DeadSpare DEF Publish, LifeTypes, Calling, OpFields, Budget, Spare, At, Goto,
         Throw, Domains
    <3>2. CASE RecordCommitted(o)
      BY <3>2 DEF RecordCommitted, LifeTypes, Calling, Budget, Spare, At, Goto, Throw
    <3>3. CASE AfterCommit(o)
      BY <3>3 DEF AfterCommit, LifeTypes, Calling, Budget, Spare, At, Goto, Throw
    <3>. QED
      BY <2>1, <3>1, <3>2, <3>3
  <2>2. CASE RecordAbort(o)
    BY <2>2, DeadSpare, FreshCall DEF RecordAbort, LifeTypes, Calling, OpFields, Budget,
       Spare, At, Recovering, Goto, Throw, Domains, Fresh, Kinds, Return
  <2>. QED
    BY <1>3, <2>1, <2>2 DEF Commit
<1>4. CASE Remove(o)
  <2>1. CASE DelVerify(o) \/ DelIntent(o) \/ DelCheck(o) \/ Delete(o) \/ Restore(o) \/
           RecordDeleted(o) \/ Release(o) \/ Unguard(o) \/ Unguarded(o)
    BY <2>1, DeadSpare DEF DelVerify, DelIntent, DelCheck, Delete, Restore, RecordDeleted,
       Release, Unguard, Unguarded, LifeTypes, Calling, OpFields, Budget, Spare, At,
       Recovering, Goto, Throw, Domains, RestoreFromGuard
  <2>2. CASE Finish(o)
    BY <2>2, DeadSpare, FreshCall DEF Finish, LifeTypes, Calling, OpFields, Budget, Spare,
       At, Recovering, Goto, Throw, Domains, Fresh, Kinds, Return
  <2>. QED
    BY <1>4, <2>1, <2>2 DEF Remove
<1>5. CASE Same(o)
  <2>1. CASE Duplicate(o) \/ RecordGuard(o)
    BY <2>1, DeadSpare DEF Duplicate, RecordGuard, LifeTypes, Calling, OpFields, Budget,
       Spare, At, Recovering, Goto, Throw, Domains
  <2>2. CASE RecordDuplicate(o)
    BY <2>2, DeadSpare, FreshCall DEF RecordDuplicate, LifeTypes, Calling, OpFields,
       Budget, Spare, At, Recovering, Goto, Throw, Domains, Fresh, Kinds, Return
  <2>3. CASE GuardStage(o)
    BY <2>3, DeadSpare, BoundsAssumption DEF GuardStage, LifeTypes, Calling, OpFields,
       Budget, Spare, At, Recovering, Goto, Throw, Domains
  <2>. QED
    BY <1>5, <2>1, <2>2, <2>3 DEF Same
<1>6. CASE Catch(o)
  <2>1. CASE CatchClean(o)
    BY <2>1, DeadSpare DEF CatchClean, LifeTypes, Calling, OpFields, Budget, Spare, At,
       Recovering, Goto, Throw, Domains
  <2>2. CASE CatchRecord(o)
    BY <2>2, DeadSpare, FreshCall DEF CatchRecord, ReturnFailure, Fault, Trouble, LifeTypes, Calling, OpFields, Budget,
       Spare, At, Recovering, Goto, Throw, Domains, Fresh, Kinds, Return
  <2>. QED
    BY <1>6, <2>1, <2>2 DEF Catch
<1>7. CASE Recover(o)
  <2>1. CASE RecoverSkip(o) \/ RecoverTerminal(o) \/ RecoverPending(o) \/ RecoverOther(o)
           \/ RecoverRestore(o) \/ RecoverClean(o) \/ RecoverFail(o) \/ RecoverDiscard(o)
    BY <2>1, DeadSpare DEF RecoverSkip, RecoverTerminal, RecoverPending, RecoverOther,
       RecoverRestore, RecoverClean, RecoverFail, RecoverDiscard, LifeTypes, Calling,
       OpFields, Budget, Spare, At, Recovering, Goto, Throw, Domains
  <2>2. CASE RecoverRecord(o)
    BY <2>2, DeadSpare, FreshCall DEF RecoverRecord, LifeTypes, Calling, OpFields, Budget,
       Spare, At, Recovering, Goto, Throw, Domains, Fresh, Kinds
  <2>. QED
    BY <1>7, <2>1, <2>2 DEF Recover
<1>8. CASE Disturb(o)
    BY <1>8, DeadSpare DEF Disturb, Cancel, AbortQueued, LoseHelper, LifeTypes, Calling,
       OpFields, Budget, Spare, At, Recovering, Goto, Throw, Domains
<1>. QED
  BY <1>1, <1>2, <1>3, <1>4, <1>5, <1>6, <1>7, <1>8 DEF Execute

LEMMA ResultsTyped ==
  ASSUME StagedInv, Typed, pc' \in [Ops -> Labels], orig' \in [Ops -> Origins],
         NEW o \in Ops, UNCHANGED plan, Execute(o) \/ Recover(o) \/ Disturb(o)
  PROVE  OutTypes'
<1>. USE DEF Typed
<1>1. CASE Admit(o)
    BY <1>1 DEF Admit, Start, Reserve, Probe, Mark, Recheck, OutTypes, Results, Calling,
       NumFields, BoolFields, Terminal, Advance, HelperDead
<1>2. CASE Prepare(o)
    BY <1>2 DEF Prepare, Stage, RecordStaged, RecordVerified, Transform, RecordTransformed,
       OutTypes, Results, Calling, NumFields, BoolFields, Terminal, HelperDead
<1>3. CASE Commit(o)
  <2>1. CASE Publish(o) \/ RecordCommitted(o) \/ AfterCommit(o)
    BY <2>1 DEF Publish, RecordCommitted, AfterCommit, OutTypes, Results, Calling,
       NumFields, BoolFields, Terminal, HelperDead
  <2>2. CASE RecordAbort(o)
    BY <2>2 DEF RecordAbort, OutTypes, Results, Calling, NumFields, BoolFields, Terminal,
       Return
  <2>. QED
    BY <1>3, <2>1, <2>2 DEF Commit
<1>4. CASE Remove(o)
  <2>1. CASE DelVerify(o) \/ DelIntent(o) \/ DelCheck(o) \/ Delete(o) \/ Restore(o) \/
           RecordDeleted(o) \/ Release(o) \/ Unguard(o) \/ Unguarded(o)
    BY <2>1 DEF DelVerify, DelIntent, DelCheck, Delete, Restore, RecordDeleted, Release,
       Unguard, Unguarded, OutTypes, Results, Calling, NumFields, BoolFields, Terminal,
       HelperDead, RestoreFromGuard
  <2>2. CASE Finish(o)
    BY <2>2 DEF Finish, OutTypes, Results, Calling, NumFields, BoolFields, Terminal,
       Return
  <2>. QED
    BY <1>4, <2>1, <2>2 DEF Remove
<1>5. CASE Same(o)
  <2>1. CASE Duplicate(o) \/ GuardStage(o) \/ RecordGuard(o)
    BY <2>1 DEF Duplicate, GuardStage, RecordGuard, OutTypes, Results, Calling, NumFields,
       BoolFields, Terminal, HelperDead
  <2>2. CASE RecordDuplicate(o)
    BY <2>2 DEF RecordDuplicate, OutTypes, Results, Calling, NumFields, BoolFields,
       Terminal, Return
  <2>. QED
    BY <1>5, <2>1, <2>2 DEF Same
<1>6. CASE Catch(o)
  <2>1. CASE CatchClean(o)
    BY <2>1 DEF CatchClean, OutTypes, Results, Calling, NumFields, BoolFields, Terminal
  <2>2. CASE CatchRecord(o)
    <3>1. BoolFields(o) /\ Unknown(o) \in BOOLEAN /\ Status(o) \in Terminal
      BY DEF Calling, Unknown, Status, Terminal
    <3>2. \E open \in BOOLEAN : ReturnFailure(o, open)
      BY <2>2, <3>1 DEF CatchRecord, BoolFields
    <3>. QED
      BY <3>1, <3>2 DEF ReturnFailure, Return, BoolFields, OutTypes, Results
  <2>. QED
    BY <1>6, <2>1, <2>2 DEF Catch
<1>7. CASE Recover(o)
    BY <1>7 DEF Recover, RecoverSkip, RecoverTerminal, RecoverPending, RecoverOther,
       RecoverRestore, RecoverClean, RecoverRecord, RecoverFail, RecoverDiscard, OutTypes,
       Results, Calling, NumFields, BoolFields, Terminal
<1>8. CASE Disturb(o)
    BY <1>8 DEF Disturb, Cancel, AbortQueued, LoseHelper, OutTypes, Results, Calling,
       NumFields, BoolFields, Terminal
<1>. QED
  BY <1>1, <1>2, <1>3, <1>4, <1>5, <1>6, <1>7, <1>8 DEF Execute

LEMMA TypedStep ==
  ASSUME StagedInv, Typed, NEW o \in Ops, Kept(o), UNCHANGED plan,
         Execute(o) \/ Recover(o) \/ Disturb(o)
  PROVE  Typed'
<1>1. pc' \in [Ops -> Labels] /\ orig' \in [Ops -> Origins] /\ Domains'
  BY DEF Kept, Shape, Origins, Domains
<1>2. LifeTypes' /\ DiskTypes' /\ RecTypes' /\ OutTypes'
  BY <1>1, LifeTyped, FilesTyped, RecordsTyped, ResultsTyped
<1>3. NumFields(o)' /\ BoolFields(o)' /\ Spare(o)'
  BY <1>1, NumbersTyped, FlagsTyped, LinksTyped
<1>4. ASSUME NEW p \in Ops, p # o PROVE NumFields(p)' /\ BoolFields(p)' /\ Spare(p)'
  BY <1>4 DEF Kept, OthersStay, Typed, Calling, Budget, NumFields, BoolFields, Spare
<1>. QED
  BY <1>1, <1>2, <1>3, <1>4 DEF Typed, Calling, Budget

LEMMA TypedRest ==
  ASSUME StagedInv, Typed, UNCHANGED plan, StagedInv',
         Crash \/ Close \/ Meddle \/ Open \/ Sweep \/ UNCHANGED vars
  PROVE  Typed'
<1>1. pc' \in [Ops -> Labels] /\ orig' \in [Ops -> Origins] /\ Domains'
  BY DEF StagedInv, Shape, Origins, Domains
<1>2. CASE Crash \/ Close
  <2>1. Stopped
    BY <1>2 DEF Crash, Close
  <2>2. LifeTypes'
    BY <1>1, <2>1, BoundsAssumption DEF Stopped, Typed, LifeTypes, NoName
  <2>3. file' \in [Ops -> [part : Bytes, guard : Bytes]]
    <3>1. ASSUME NEW f, f = [o \in Ops |-> f[o]],
                 \A o \in Ops : \/ f[o] = file[o]
                                \/ f[o] = [file[o] EXCEPT !.part = Foreign]
                                \/ f[o] = [file[o] EXCEPT !.guard = Foreign]
          PROVE  f \in [Ops -> [part : Bytes, guard : Bytes]]
      BY <3>1, MoreBytes DEF Typed, DiskTypes
    <3>2. CASE UNCHANGED file
      BY <3>2 DEF Typed, DiskTypes
    <3>3. CASE Crash
      BY <3>1, <3>3 DEF Crash
    <3>. QED
      BY <1>2, <3>2, <3>3 DEF Close
  <2>4. DiskTypes'
    BY <2>1, <2>3 DEF Stopped, Typed, DiskTypes
  <2>5. RecTypes' /\ OutTypes'
    BY <2>1 DEF Stopped, Typed, RecTypes, OutTypes
  <2>6. Calling'
    BY <1>1, <2>1, FreshCall DEF Stopped, Calling, Budget, Spare, NumFields, BoolFields, Fresh, Kinds
  <2>. QED
    BY <2>2, <2>4, <2>5, <2>6 DEF Typed
<1>3. CASE Meddle \/ Open \/ Sweep \/ UNCHANGED vars
  <2>1. LifeTypes'
    BY <1>1, <1>3 DEF Meddle, Open, Sweep, vars, life, mem, Typed, LifeTypes
  <2>2. DiskTypes'
    <3>1. CASE Meddle
      BY <3>1, MoreBytes DEF Meddle, Typed, DiskTypes
    <3>2. CASE Open \/ Sweep \/ UNCHANGED vars
      BY <3>2 DEF Open, Sweep, vars, disk, Typed, DiskTypes
    <3>. QED
      BY <1>3, <3>1, <3>2
  <2>3. RecTypes' /\ OutTypes' /\ Calling'
    BY <1>3 DEF Meddle, Open, Sweep, vars, Typed, RecTypes, OutTypes, Calling, Domains, Budget, Spare,
       NumFields, BoolFields
  <2>. QED
    BY <2>1, <2>2, <2>3 DEF Typed
<1>. QED
  BY <1>2, <1>3

LEMMA TypedHolds == Spec => []Typed
<1>1. Init => Typed
  <2>. SUFFICES ASSUME Init PROVE Typed
    OBVIOUS
  <2>1. LifeTypes
    BY BoundsAssumption DEF Init, LifeTypes, Origins, Labels, NoName
  <2>2. DiskTypes
    BY MoreBytes DEF Init, DiskTypes, NoFiles
  <2>3. RecTypes
    BY FreshCall DEF Init, RecTypes, Records, NoRecord, States, Kinds
  <2>4. OutTypes
    BY DEF Init, OutTypes, Results, NoResult
  <2>5. Calling
    BY FreshCall DEF Init, Calling, Domains, Budget, Spare, NumFields, BoolFields, Fresh, Kinds,
       OpFields
  <2>. QED
    BY <2>1, <2>2, <2>3, <2>4, <2>5 DEF Typed
<1>2. StagedInv /\ StagedInv' /\ Typed /\ [Next]_vars => Typed'
  <2>. SUFFICES ASSUME StagedInv, StagedInv', Typed, [Next]_vars PROVE Typed'
    OBVIOUS
  <2>1. ASSUME NEW o \in Ops, Execute(o) \/ Recover(o) \/ Disturb(o), UNCHANGED plan
        PROVE  Typed'
    <3>1. Kept(o)
      BY <2>1, Admitting, Preparing, Committing, Removing, Duplicating, Catching, Recovered,
         Disturbed DEF Execute, Disturb
    <3>. QED
      BY <2>1, <3>1, TypedStep
  <2>2. CASE (Crash \/ Close \/ Meddle \/ Open \/ Sweep) /\ UNCHANGED plan
    BY <2>2, TypedRest
  <2>3. CASE UNCHANGED vars
    BY <2>3, TypedRest DEF vars
  <2>. QED
    BY <2>1, <2>2, <2>3 DEF Next, Step, Disturb
<1>. QED
  BY <1>1, <1>2, StagedInvHolds, PTL DEF Spec

(* Every call is a record of its ten fields and nothing else.               *)
Callable == /\ op = [o \in Ops |-> op[o]]
            /\ \A o \in Ops : op[o] = [k \in OpFields |-> op[o][k]]

LEMMA CallableHolds == Spec => []Callable
<1>. USE DEF Callable, OpFields
<1>1. Init => Callable
  <2>. SUFFICES ASSUME op = [o \in Ops |-> Fresh] PROVE Callable
    BY DEF Init
  <2>. QED
    BY DEF Fresh
<1>2. Callable /\ [Next]_vars => Callable'
  <2>. SUFFICES ASSUME Callable, [Next]_vars PROVE Callable'
    OBVIOUS
  <2>1. ASSUME NEW o \in Ops, Admit(o) PROVE Callable'
    BY <2>1 DEF Admit, Start, Reserve, Probe, Mark, Recheck, Advance, HelperDead
  <2>2. ASSUME NEW o \in Ops, Prepare(o) PROVE Callable'
    BY <2>2 DEF Prepare, Stage, RecordStaged, RecordVerified, Transform, RecordTransformed,
       HelperDead
  <2>3. ASSUME NEW o \in Ops, Commit(o) PROVE Callable'
    <3>1. CASE Publish(o)
      BY <3>1 DEF Publish, HelperDead
    <3>2. CASE RecordCommitted(o)
      BY <3>2 DEF RecordCommitted
    <3>3. CASE AfterCommit(o)
      <4>1. op' = op \/ CleanStaging(o)
        BY <3>3 DEF AfterCommit
      <4>2. \/ op' = op
            \/ \E v : op' = [op EXCEPT ![o].residue = v]
        BY <4>1 DEF CleanStaging
      <4>. QED
        BY <4>2
    <3>4. CASE RecordAbort(o)
      BY <3>4 DEF RecordAbort, Return, Fresh
    <3>. QED
      BY <2>3, <3>1, <3>2, <3>3, <3>4 DEF Commit
  <2>4. ASSUME NEW o \in Ops, Remove(o) PROVE Callable'
    <3>1. CASE DelVerify(o) \/ DelIntent(o) \/ DelCheck(o) \/ Delete(o)
      BY <3>1 DEF DelVerify, DelIntent, DelCheck, Delete, HelperDead
    <3>2. CASE Restore(o) \/ Release(o)
      BY <3>2 DEF Restore, Release, RestoreFromGuard, HelperDead
    <3>3. CASE RecordDeleted(o) \/ Unguard(o) \/ Unguarded(o)
      BY <3>3 DEF RecordDeleted, Unguard, Unguarded, HelperDead
    <3>4. CASE Finish(o)
      BY <3>4 DEF Finish, Return, Fresh
    <3>. QED
      BY <2>4, <3>1, <3>2, <3>3, <3>4 DEF Remove
  <2>5. ASSUME NEW o \in Ops, Same(o) \/ Catch(o) PROVE Callable'
    <3>1. CASE Duplicate(o)
      <4>1. \/ op' = [op EXCEPT ![o].committed = TRUE]
            \/ \E v : op' = [op EXCEPT ![o].committed = TRUE, ![o].staging = "none",
                                       ![o].residue = v]
        BY <3>1 DEF Duplicate
      <4>2. CASE op' = [op EXCEPT ![o].committed = TRUE]
        BY <4>2
      <4>3. ASSUME NEW v, op' = [op EXCEPT ![o].committed = TRUE, ![o].staging = "none",
                                           ![o].residue = v]
            PROVE  Callable'
        BY <4>3
      <4>. QED
        BY <4>1, <4>2, <4>3
    <3>2. CASE RecordDuplicate(o)
      BY <3>2 DEF RecordDuplicate, Return, Fresh
    <3>3. CASE GuardStage(o)
      BY <3>3 DEF GuardStage, HelperDead
    <3>4. CASE RecordGuard(o)
      BY <3>4 DEF RecordGuard
    <3>5. CASE CatchClean(o)
      BY <3>5 DEF CatchClean
    <3>6. CASE CatchRecord(o)
      BY <3>6 DEF CatchRecord, ReturnFailure, Return, Fresh
    <3>. QED
      BY <2>5, <3>1, <3>2, <3>3, <3>4, <3>5, <3>6 DEF Same, Catch
  <2>6. ASSUME NEW o \in Ops, Recover(o) PROVE Callable'
    <3>1. CASE RecoverSkip(o)
      BY <3>1 DEF RecoverSkip
    <3>2. CASE RecoverTerminal(o)
      BY <3>2 DEF RecoverTerminal
    <3>3. CASE RecoverPending(o)
      BY <3>3 DEF RecoverPending
    <3>4. CASE RecoverOther(o)
      BY <3>4 DEF RecoverOther
    <3>5. CASE RecoverRestore(o)
      BY <3>5 DEF RecoverRestore
    <3>6. CASE RecoverClean(o)
      BY <3>6 DEF RecoverClean
    <3>7. CASE RecoverRecord(o)
      BY <3>7 DEF RecoverRecord, Fresh
    <3>8. CASE RecoverFail(o)
      BY <3>8 DEF RecoverFail
    <3>9. CASE RecoverDiscard(o)
      BY <3>9 DEF RecoverDiscard
    <3>. QED
      BY <2>6, <3>1, <3>2, <3>3, <3>4, <3>5, <3>6, <3>7, <3>8, <3>9 DEF Recover
  <2>7. ASSUME NEW o \in Ops, Disturb(o) PROVE Callable'
    BY <2>7 DEF Disturb, Cancel, AbortQueued, LoseHelper, Signalled
  <2>8. CASE Crash \/ Close \/ Meddle \/ Open \/ Sweep \/ UNCHANGED vars
    BY <2>8 DEF Crash, Close, Stopped, Fresh, Meddle, Open, Sweep, vars
  <2>. QED
    BY <2>1, <2>2, <2>3, <2>4, <2>5, <2>6, <2>7, <2>8 DEF Next, Step, Execute, Disturb
<1>. QED
  BY <1>1, <1>2, PTL DEF Spec

LEMMA TypedIsTypeOK == Typed /\ Callable => TypeOK
<1>. SUFFICES ASSUME Typed, Callable PROVE TypeOK
  OBVIOUS
<1>1. ASSUME NEW o \in Ops PROVE op[o] \in Calls
  <2>1. op[o] = [k \in OpFields |-> op[o][k]]
    BY DEF Callable
  <2>2. op[o] = [cursor |-> op[o].cursor, cand |-> op[o].cand, held |-> op[o].held,
                 staging |-> op[o].staging, ident |-> op[o].ident,
                 committed |-> op[o].committed, intent |-> op[o].intent,
                 residue |-> op[o].residue, unknown |-> op[o].unknown,
                 retained |-> op[o].retained]
    BY <2>1 DEF OpFields
  <2>3. NumFields(o) /\ BoolFields(o)
    BY DEF Typed, Calling
  <2>. QED
    BY <2>2, <2>3 DEF NumFields, BoolFields, Calls
<1>2. op \in [Ops -> Calls]
  BY <1>1 DEF Callable
<1>. QED
  BY <1>2 DEF Typed, LifeTypes, DiskTypes, RecTypes, OutTypes, TypeOK, Origins

(* Every variable keeps its shape, and every call that relies on a         *)
(* reservation still has its marker, whatever races were lost, helpers     *)
(* died and processes were killed.                                         *)
THEOREM ReservationsHold == Spec => []ReservationInv
<1>1. Typed /\ Callable /\ AccountInv => ReservationInv
  BY TypedIsTypeOK DEF AccountInv, Reserved, ReservationInv, ReservationsExclusive
<1>. QED
  BY <1>1, TypedHolds, CallableHolds, AccountInvHolds, PTL

-----------------------------------------------------------------------------
(* RecoverySettles: what an undisturbed open leaves of each operation.     *)
(*                                                                         *)
(* A record is in doubt from the commit until the operation has ended.  As *)
(* long as nobody interferes its destination is there, what it remembers   *)
(* of the staged file is what the helper will compare, down to the number  *)
(* of links, and its marker is the one it names: so that recovery always   *)
(* finds its way to an end, but for a marker that another operation left.  *)
InDoubt  == {"committed", "source-delete-pending", "source-deleted"}
Unlinked(o)     == \A n \in Names : dst[n].ino # <<o, "part">>
Delivered(o, n) == n \in Names /\ dst[n].content = Out[o]
Once(c)         == [made |-> c, links |-> 1]
Twice(c)        == [made |-> c, links |-> 2]
Matches(o, k, n, ident) ==
  \/ k = "part" /\ ident = Twice(Out[o]) /\ dst[n].ino = <<o, "part">>
  \/ k = "guard" /\ ident = Once(Out[o])

(* The links of an operation's own files, and what others may know of it.  *)
LinkOk(o) ==
  /\ orig[o] # "user"
  /\ \A n \in Names : dst[n].ino # <<o, "guard">>
  /\ \A m, n \in Names : dst[m].ino = <<o, "part">> /\ dst[n].ino = <<o, "part">> => m = n
  /\ \A n \in Names : marker[n] = o => rec[o].state # "none"

RecordOk(o) ==
  /\ rec[o].committed => rec[o].state \in InDoubt \cup Reclaimable
  /\ rec[o].final => rec[o].state \in Terminal
  /\ rec[o].state \notin Terminal => rec[o].mark = rec[o].rsv
  /\ rec[o].state \in InDoubt =>
       /\ Delivered(o, rec[o].dest)
       /\ Matches(o, rec[o].staging, rec[o].dest, rec[o].ident)
       /\ file[o][rec[o].staging] \in {Nothing, Out[o]}
  /\ rec[o].state = "source-deleted" => orig[o] = "deleted"

(* What a call at each point has in hand.                                  *)
Guarding == {"committed", "del-verify", "del-intent", "del-check", "delete", "restore",
             "deleted", "release", "unguard"}
Copied   == {"staged", "verify", "transform", "transformed", "publish"}
Doubles  == {"duplicate", "guard-stage", "guard"}
CallOk(o) ==
  LET c == op[o].cand
      k == op[o].staging IN
  /\ pc[o] = "idle" => rec[o].state = "none" /\ k = "none"
  /\ pc[o] \in Early \ {"idle"} => rec[o].state # "none"
  /\ pc[o] \in Early => Unlinked(o) /\ ~op[o].committed /\ k \in {"none", "part"}
  /\ pc[o] \in Early \cup {"dup-record", "guard-stage", "guard"} => rec[o].state \notin InDoubt
  /\ pc[o] \in Copied => k = "part"
  /\ pc[o] \in {"staged", "verify", "transform"} =>
       file[o].part = Content[o] /\ op[o].ident = Once(Content[o])
  /\ pc[o] = "transformed" => file[o].part = Out[o]
  /\ pc[o] = "publish" \/ (pc[o] \in {"reserve", "probe", "mark", "recheck"} /\ k = "part") =>
       file[o].part = Out[o] /\ op[o].ident = Once(Out[o])
  /\ pc[o] \in Doubles => Delivered(o, c) /\ Out[o] = Content[o]
  /\ pc[o] \in {"guard-stage", "guard"} => o \in Moves
  /\ pc[o] = "linked" => k = "part" /\ Delivered(o, c)
  /\ pc[o] = "guard" => k = "guard"
  /\ pc[o] \in {"linked", "guard"} => Matches(o, k, c, op[o].ident) /\ file[o][k] = Out[o]
  /\ pc[o] \in Guarding \cup {"unguarded"} =>
       /\ rec[o].state \in InDoubt
       /\ c = rec[o].dest /\ k = rec[o].staging /\ op[o].ident = rec[o].ident
  /\ pc[o] \in Guarding => file[o][k] = Out[o]
  /\ pc[o] \in Ending /\ op[o].committed => o \in cancelled \/ (op[o].unknown /\ o \in Moves)

(* And recovery, up to what it leaves.                                     *)
LeftByOther(o) == rec[o].rsv \in Names /\ \E p \in Ops \ {o} : rec[p].state # "none"
Settled(o) ==
  \/ rec[o].state \in Terminal \cup {"none"}
  \/ /\ rec[o].state \in InDoubt /\ dst[rec[o].dest].content = Out[o]
     /\ rec[o].retained = (orig[o] = "path")
     /\ rec[o].state = "source-delete-pending" => orig[o] = "path"
     /\ LeftByOther(o)
RecoveryOk(o) ==
  /\ pc[o] \in {"r-restore", "r-clean", "r-record"} =>
       /\ rec[o].state \in InDoubt
       /\ rec[o].state = "source-delete-pending" => orig[o] = "path"
  /\ pc[o] = "r-record" /\ op[o].residue => LeftByOther(o)
  /\ pc[o] \in {"idle", "over"} => Settled(o)

InOrder(o) == LinkOk(o) /\ RecordOk(o) /\ CallOk(o) /\ RecoveryOk(o)
SettleInv ==
  spent.meddles = 0 => /\ proc # "up" => helper = "ok"
                       /\ \A o \in Ops : InOrder(o)

-----------------------------------------------------------------------------
(* What a step of one operation leaves of the others.                      *)
Apart(o) ==
  /\ \A p \in Ops \ {o} : file'[p] = file[p]
  /\ \/ dst' = dst
     \/ \E n \in Names : dst[n] = Absent /\ dst' = [dst EXCEPT ![n] = Linked(o)]
  /\ \A n \in Names : marker'[n] \in {marker[n], o, NoOp}
  /\ rec'[o].state = "none" => rec[o].state = "none"
  /\ cancelled \subseteq cancelled' /\ proc' = proc /\ (proc # "up" => helper' = helper)
  /\ spent'.meddles = spent.meddles

Steady == TypeOK /\ Counted /\ AccountInv /\ SettleInv /\ spent.meddles = 0

LEMMA NotAbsent ==
  ASSUME TypeOK, NEW o \in Ops
  PROVE  Out[o] \in Contents /\ Content[o] \in Contents /\ Out[o] # Nothing /\ Content[o] # Nothing
         /\ Out[o] # Foreign
  BY PlanAssumption, OpsAssumption DEF TypeOK, Content

LEMMA OthersInOrder ==
  ASSUME Steady, TypeOK', NEW o \in Ops, UNCHANGED plan, OthersStay(o), Apart(o),
         NEW p \in Ops, p # o
  PROVE  InOrder(p)'
<1>1. /\ orig'[p] = orig[p] /\ pc'[p] = pc[p] /\ op'[p] = op[p] /\ rec'[p] = rec[p]
      /\ file'[p] = file[p]
  BY DEF OthersStay, Apart
<1>2. InOrder(p)
  BY DEF Steady, SettleInv
<1>3. Out[p] # Nothing /\ Content[p] # Nothing /\ p # NoOp /\ Absent.content = Nothing
  BY NotAbsent, OpsAssumption DEF Steady, Absent
<1>4. /\ \A n \in Names : dst[n].content # Nothing => dst'[n] = dst[n]
      /\ \A n \in Names, k \in {"part", "guard"} :
           dst'[n].ino = <<p, k>> => dst[n].ino = <<p, k>>
  <2>1. CASE dst' = dst
    BY <2>1
  <2>2. ASSUME NEW n \in Names, dst[n] = Absent, dst' = [dst EXCEPT ![n] = Linked(o)]
        PROVE  <1>4
    BY <1>3, <2>2 DEF Linked, Steady, TypeOK
  <2>. QED
    BY <2>1, <2>2 DEF Apart
<1>5. \A n \in Names : marker'[n] = p => marker[n] = p
  BY <1>3 DEF Apart
<1>6. LinkOk(p)'
  BY <1>1, <1>2, <1>4, <1>5 DEF InOrder, LinkOk
<1>7. \A n : Delivered(p, n) => Delivered(p, n)' /\ dst'[n] = dst[n]
  BY <1>3, <1>4 DEF Delivered
<1>8. RecordOk(p)'
  BY <1>1, <1>2, <1>7 DEF InOrder, RecordOk, Matches, Delivered, Once, Twice
<1>9. CallOk(p)'
  <2>1. /\ (\A n \in Names : dst[n].ino # <<p, "part">>)
             => \A n \in Names : dst'[n].ino # <<p, "part">>
        /\ \A n \in Names : dst[n].content = Out[p] => dst'[n] = dst[n]
        /\ cancelled \subseteq cancelled' /\ plan' = plan
    BY <1>3, <1>4 DEF Apart
  <2>2. CallOk(p)
    BY <1>2 DEF InOrder
  <2>. QED
    BY <1>1, <2>1, <2>2 DEF CallOk, Once, Twice, Content, Unlinked, Delivered, Matches
<1>10. RecoveryOk(p)'
  <2>1. LeftByOther(p) => LeftByOther(p)'
    <3>1. \A q \in Ops : rec[q].state # "none" => rec'[q].state # "none"
      BY DEF OthersStay, Apart
    <3>. QED
      BY <1>1, <3>1 DEF LeftByOther
  <2>2. Settled(p) => Settled(p)'
    <3>1. CASE rec[p].state \in Terminal \cup {"none"}
      BY <1>1, <3>1 DEF Settled
    <3>2. CASE rec[p].state \in InDoubt
      BY <1>1, <1>2, <1>7, <2>1, <3>2 DEF Settled, InOrder, RecordOk, Delivered
    <3>. QED
      BY <3>1, <3>2 DEF Settled
  <2>. QED
    BY <1>1, <1>2, <2>1, <2>2 DEF InOrder, RecoveryOk
<1>. QED
  BY <1>6, <1>8, <1>9, <1>10 DEF InOrder


(* The links the helper counts.                                            *)
LEMMA LinksCounted ==
  ASSUME Steady, NEW o \in Ops
  PROVE  /\ Links(o, "guard") = 1
         /\ Unlinked(o) => Links(o, "part") = 1
         /\ \A n \in Names : dst[n].ino = <<o, "part">> => Links(o, "part") = 2
<1>1. LinkOk(o)
  BY DEF Steady, SettleInv, InOrder
<1>2. {n \in Names : dst[n].ino = <<o, "guard">>} = {}
  BY <1>1 DEF LinkOk
<1>3. Unlinked(o) => {n \in Names : dst[n].ino = <<o, "part">>} = {}
  BY DEF Unlinked
<1>4. ASSUME NEW n \in Names, dst[n].ino = <<o, "part">>
      PROVE  Links(o, "part") = 2
  <2>1. {m \in Names : dst[m].ino = <<o, "part">>} = {n}
    BY <1>1, <1>4 DEF LinkOk
  <2>2. Cardinality({m \in Names : dst[m].ino = <<o, "part">>}) = 1
    BY <2>1, FS_Singleton
  <2>. QED
    BY <2>2 DEF Links
<1>5. Cardinality({}) = 0
  BY FS_EmptySet
<1>6. Links(o, "guard") = 1
  <2>1. Cardinality({n \in Names : dst[n].ino = <<o, "guard">>}) = 0
    BY <1>2, <1>5
  <2>. QED
    BY <2>1 DEF Links
<1>7. Unlinked(o) => Links(o, "part") = 1
  <2>1. Unlinked(o) => Cardinality({n \in Names : dst[n].ino = <<o, "part">>}) = 0
    BY <1>3, <1>5
  <2>. QED
    BY <2>1 DEF Links
<1>. QED
  BY <1>4, <1>6, <1>7

(* A file that matches its record is removed when it is asked for.         *)
LEMMA MatchIsRemovable ==
  ASSUME Steady, NEW o \in Ops, NEW k, NEW n \in Names, NEW i, Matches(o, k, n, i),
         file[o][k] = Out[o]
  PROVE  Identity(o, k) = i
  BY LinksCounted DEF Identity, Matches, Once, Twice

Forth(o) == InOrder(o)' /\ Apart(o)

(* A throw: what the catch block relies on.                                *)
LEMMA ThrowKeeps ==
  ASSUME Steady, NEW o \in Ops, UNCHANGED <<plan, orig, dst, file, marker, rec, life>>,
         pc'[o] = "catch", proc = "up", pc[o] # "catch-record", pc[o] \in Running,
         op'[o].committed = op[o].committed,
         op[o].committed => o \in cancelled \/ (op'[o].unknown /\ o \in Moves)
  PROVE  Forth(o)
<1>1. InOrder(o)
  BY DEF Steady, SettleInv
<1>2. LinkOk(o)'
  BY <1>1 DEF InOrder, LinkOk
<1>3. RecordOk(o)'
  BY <1>1 DEF InOrder, RecordOk, Delivered, Matches, Once, Twice
<1>4. CallOk(o)'
  BY <1>1 DEF InOrder, CallOk, life, Doubles, Guarding, Copied
<1>5. RecoveryOk(o)'
  BY DEF RecoveryOk
<1>6. Apart(o)
  BY DEF Apart, life
<1>. QED
  BY <1>2, <1>3, <1>4, <1>5, <1>6 DEF InOrder, Forth

LEMMA DeadKeeps ==
  ASSUME Steady, NEW o \in Ops, UNCHANGED plan, HelperDead(o), proc = "up",
         pc[o] \in Running \ {"catch-record"}, pc[o] \in Early \/ o \in Moves
  PROVE  Forth(o)
<1>1. /\ UNCHANGED <<orig, dst, file, marker, rec, life>>
      /\ pc'[o] = "catch" /\ op'[o].unknown = TRUE
      /\ op'[o].committed = op[o].committed
  BY DEF HelperDead, Throw, Goto, disk, Steady, TypeOK, Calls
<1>2. pc[o] \in Early => ~op[o].committed
  BY DEF Steady, SettleInv, InOrder, CallOk
<1>. QED
  BY <1>1, <1>2, ThrowKeeps

(* A step on the way that leaves source, files, markers and record alone.  *)
LEMMA StillKeeps ==
  ASSUME Steady, NEW o \in Ops, UNCHANGED <<plan, orig, dst, rec, life>>, proc = "up",
         rec[o].state \notin InDoubt \/ file'[o] = file[o]
           \/ \E k : file' = WithoutFile(o, k),
         \A p \in Ops \ {o} : file'[p] = file[p],
         \A n \in Names : marker'[n] \in {marker[n], o, NoOp},
         rec[o].state # "none" \/ marker' = marker,
         CallOk(o)', pc'[o] \in Running \cup {"done"}, pc'[o] # "idle"
  PROVE  Forth(o)
<1>1. InOrder(o)
  BY DEF Steady, SettleInv
<1>2. LinkOk(o)'
  BY <1>1, OpsAssumption DEF InOrder, LinkOk
<1>3. RecordOk(o)'
  <2>1. rec[o].state \notin InDoubt \/ \A k \in {"part", "guard"} : file'[o][k] \in {Nothing, file[o][k]}
    BY DEF WithoutFile, Steady, TypeOK
  <2>. QED
    BY <1>1, <2>1 DEF InOrder, RecordOk, Delivered, Matches, Once, Twice
<1>5. RecoveryOk(o)'
  BY DEF RecoveryOk
<1>6. Apart(o)
  BY DEF Apart, life
<1>. QED
  BY <1>2, <1>3, <1>5, <1>6 DEF InOrder, Forth


-----------------------------------------------------------------------------
LEMMA AdmittingSettles ==
  ASSUME Steady, NEW o \in Ops, UNCHANGED plan, Admit(o)
  PROVE  Forth(o)
<1>. USE DEF Goto
<1>1. /\ InOrder(o) /\ CallOk(o) /\ RecordOk(o) /\ LinkOk(o)
      /\ DOMAIN pc = Ops /\ DOMAIN op = Ops /\ op[o] \in Calls /\ rec[o] \in Records
      /\ DOMAIN marker = Names /\ proc = "up"
  BY DEF Steady, SettleInv, InOrder, TypeOK, Admit, Start, Reserve, Probe, Mark, Recheck, At
<1>2. CASE Start(o)
  <2>1. pc[o] = "idle" /\ UNCHANGED <<orig, dst, file, marker, op, life>>
    BY <1>2 DEF Start, At, disk
  <2>2. CASE Throw(o) /\ UNCHANGED rec
    <3>1. pc'[o] = "catch" /\ op'[o].committed = op[o].committed /\ ~op[o].committed
      BY <1>1, <2>1, <2>2 DEF Throw, CallOk
    <3>. QED
      BY <1>1, <2>1, <2>2, <3>1, ThrowKeeps
  <2>3. CASE Append(o, [state |-> "planned"]) /\ Goto(o, "reserve")
    <3>1. /\ rec'[o].state = "planned" /\ pc'[o] = "reserve"
          /\ \A k \in RecFields \ {"state"} : rec'[o][k] = rec[o][k]
      BY <1>1, <2>3, Appended DEF Steady, AccountInv, StagedInv, RecFields
    <3>2. LinkOk(o)'
      BY <1>1, <2>1, <3>1 DEF LinkOk
    <3>3. RecordOk(o)'
      BY <1>1, <2>1, <3>1 DEF RecordOk, CallOk, RecFields, Terminal, Reclaimable, InDoubt
    <3>4. CallOk(o)'
      BY <1>1, <2>1, <3>1 DEF CallOk, InDoubt, Unlinked, Doubles, Guarding, Copied
    <3>5. RecoveryOk(o)'
      BY <3>1 DEF RecoveryOk
    <3>6. Apart(o)
      BY <2>1, <3>1 DEF Apart, life
    <3>. QED
      BY <3>2, <3>3, <3>4, <3>5, <3>6 DEF Forth, InOrder
  <2>. QED
    BY <1>2, <2>2, <2>3 DEF Start
<1>3. CASE Reserve(o)
  <2>1. pc[o] = "reserve" /\ UNCHANGED <<orig, dst, file, marker, rec, life>>
    BY <1>3 DEF Reserve, At, disk
  <2>2. CASE /\ o \notin Transformed /\ cache[Content[o]] # NoName
             /\ dst[cache[Content[o]]].content = Content[o]
             /\ op' = [op EXCEPT ![o].cand = cache[Content[o]], ![o].held = FALSE]
             /\ Goto(o, "duplicate")
    <3>1. /\ pc'[o] = "duplicate" /\ op'[o].cand = cache[Content[o]]
          /\ op'[o].staging = op[o].staging /\ op'[o].committed = op[o].committed
      BY <1>1, <2>2 DEF Calls
    <3>2. Out[o] = Content[o] /\ cache[Content[o]] \in Names
      BY <2>2, NotAbsent, BoundsAssumption DEF Transformed, Steady, TypeOK, NoName, Names
    <3>3. CallOk(o)'
      BY <1>1, <2>1, <2>2, <3>1, <3>2 DEF CallOk, Unlinked, Doubles, Guarding, Copied, Delivered, Content
    <3>. QED
      BY <1>1, <2>1, <3>1, <3>3, StillKeeps
  <2>3. CASE op' = [op EXCEPT ![o].cursor = IF o \in Exact THEN 0 ELSE counter] /\ Goto(o, "probe")
    <3>1. /\ pc'[o] = "probe" /\ op'[o].ident = op[o].ident
          /\ op'[o].staging = op[o].staging /\ op'[o].committed = op[o].committed
      BY <1>1, <2>3 DEF Calls
    <3>2. CallOk(o)'
      BY <1>1, <2>1, <3>1 DEF CallOk, Unlinked, Doubles, Guarding, Copied
    <3>. QED
      BY <1>1, <2>1, <3>1, <3>2, StillKeeps
  <2>. QED
    BY <1>3, <2>2, <2>3 DEF Reserve
<1>4. ASSUME Advance(o), pc[o] \in {"probe", "mark", "recheck"},
             UNCHANGED <<orig, dst, file, rec, life>>,
             \A n \in Names : marker'[n] \in {marker[n], o, NoOp}
      PROVE  Forth(o)
  <2>1. CASE Throw(o) /\ UNCHANGED op
    <3>1. /\ pc'[o] = "catch" /\ op' = op
      BY <1>1, <1>4, <2>1 DEF Throw
    <3>2. CallOk(o)'
      BY <1>1, <1>4, <3>1 DEF CallOk, Doubles, Guarding, Copied
    <3>. QED
      BY <1>1, <1>4, <3>1, <3>2, StillKeeps DEF CallOk
  <2>2. CASE op' = [op EXCEPT ![o].cursor = @ + 1] /\ Goto(o, "probe")
    <3>1. /\ pc'[o] = "probe" /\ op'[o].ident = op[o].ident
          /\ op'[o].staging = op[o].staging /\ op'[o].committed = op[o].committed
      BY <1>1, <2>2 DEF Calls
    <3>2. CallOk(o)'
      BY <1>1, <1>4, <3>1 DEF CallOk, Unlinked, Doubles, Guarding, Copied
    <3>. QED
      BY <1>1, <1>4, <3>1, <3>2, StillKeeps DEF CallOk
  <2>. QED
    BY <1>4, <2>1, <2>2 DEF Advance
<1>5. CASE Probe(o)
  <2>1. pc[o] = "probe" /\ UNCHANGED <<orig, dst, file, marker, rec, life>> /\ op[o].cursor \in Names
    BY <1>5 DEF Probe, At, disk
  <2>2. CASE /\ o \notin Transformed /\ dst[op[o].cursor].content = Content[o]
             /\ op' = [op EXCEPT ![o].cand = op[o].cursor, ![o].held = FALSE]
             /\ Goto(o, "duplicate")
    <3>1. /\ pc'[o] = "duplicate" /\ op'[o].cand = op[o].cursor
          /\ op'[o].staging = op[o].staging /\ op'[o].committed = op[o].committed
      BY <1>1, <2>2 DEF Calls
    <3>2. Out[o] = Content[o]
      BY <2>2 DEF Transformed
    <3>3. CallOk(o)'
      BY <1>1, <2>1, <2>2, <3>1, <3>2 DEF CallOk, Unlinked, Doubles, Guarding, Copied, Delivered, Content
    <3>. QED
      BY <1>1, <2>1, <3>1, <3>3, StillKeeps
  <2>3. CASE Advance(o)
    BY <1>4, <2>1, <2>3
  <2>4. CASE Goto(o, "mark") /\ UNCHANGED op
    <3>1. pc'[o] = "mark"
      BY <1>1, <2>4
    <3>2. CallOk(o)'
      BY <1>1, <2>1, <2>4, <3>1 DEF CallOk, Unlinked, Doubles, Guarding, Copied
    <3>. QED
      BY <1>1, <2>1, <3>1, <3>2, StillKeeps
  <2>. QED
    BY <1>5, <2>2, <2>3, <2>4 DEF Probe
<1>6. CASE Mark(o)
  <2>1. pc[o] = "mark"
    BY <1>6 DEF Mark, At
  <2>2. CASE HelperDead(o)
    BY <1>1, <2>1, <2>2, DeadKeeps
  <2>3. CASE Advance(o) /\ UNCHANGED <<disk, rec, life>>
    BY <1>4, <2>1, <2>3 DEF disk
  <2>4. CASE /\ marker' = [marker EXCEPT ![op[o].cursor] = o] /\ Goto(o, "recheck")
             /\ UNCHANGED <<orig, dst, file, op, rec, life>>
    <3>1. pc'[o] = "recheck"
      BY <1>1, <2>4
    <3>2. CallOk(o)' /\ rec[o].state # "none"
      BY <1>1, <2>1, <2>4, <3>1 DEF CallOk, Unlinked, Doubles, Guarding, Copied
    <3>. QED
      BY <1>1, <2>1, <2>4, <3>1, <3>2, StillKeeps
  <2>. QED
    BY <1>6, <2>2, <2>3, <2>4 DEF Mark
<1>7. CASE Recheck(o)
  <2>1. pc[o] = "recheck" /\ op[o].cursor \in Names /\ UNCHANGED <<orig, dst, file, life>>
        /\ \A n \in Names : marker'[n] \in {marker[n], o, NoOp}
    <3>1. op[o].cursor \in Names
      BY <1>7 DEF Recheck, At, Steady, AccountInv, StagedInv, OpInv
    <3>. QED
      BY <1>1, <1>7, <3>1 DEF Recheck, At, WithoutMarker
  <2>2. CASE Advance(o) /\ UNCHANGED rec
    BY <1>4, <2>1, <2>2
  <2>3. CASE /\ op' = [op EXCEPT ![o].cand = op[o].cursor, ![o].held = TRUE]
             /\ op[o].staging = "none"
             /\ Append(o, [state |-> "reserved", dest |-> op[o].cursor,
                           rsv |-> op[o].cursor, mark |-> op[o].cursor])
             /\ Goto(o, "stage") /\ UNCHANGED marker
    <3>1. /\ rec'[o].state = "reserved" /\ pc'[o] = "stage" /\ rec'[o].rsv = rec'[o].mark
          /\ \A k \in RecFields \ {"state", "dest", "rsv", "mark"} : rec'[o][k] = rec[o][k]
      BY <1>1, <2>3, Appended DEF Steady, AccountInv, StagedInv, RecFields
    <3>2. LinkOk(o)'
      BY <1>1, <2>1, <2>3, <3>1 DEF LinkOk
    <3>3. ~rec[o].committed /\ ~rec[o].final
      BY <2>1 DEF Steady, AccountInv, StagedInv, OpInv
    <3>4. RecordOk(o)'
      BY <1>1, <2>1, <3>1, <3>3 DEF RecordOk, RecFields, InDoubt
    <3>5. op'[o].staging = "none" /\ op'[o].committed = op[o].committed
      BY <1>1, <2>3 DEF Calls
    <3>6. CallOk(o)'
      BY <1>1, <2>1, <3>1, <3>5 DEF CallOk, InDoubt, Unlinked, Doubles, Guarding, Copied
    <3>7. RecoveryOk(o)'
      BY <3>1 DEF RecoveryOk
    <3>8. Apart(o)
      BY <1>1, <2>1, <3>1 DEF Apart, life
    <3>. QED
      BY <3>2, <3>4, <3>6, <3>7, <3>8 DEF Forth, InOrder
  <2>4. CASE /\ op' = [op EXCEPT ![o].cand = op[o].cursor, ![o].held = TRUE]
             /\ op[o].staging # "none" /\ Goto(o, "publish") /\ UNCHANGED <<rec, marker>>
    <3>1. /\ pc'[o] = "publish" /\ op'[o].ident = op[o].ident
          /\ op'[o].staging = op[o].staging /\ op'[o].committed = op[o].committed
      BY <1>1, <2>4 DEF Calls
    <3>2. CallOk(o)'
      BY <1>1, <2>1, <2>4, <3>1 DEF CallOk, Unlinked, Doubles, Guarding, Copied
    <3>. QED
      BY <1>1, <2>1, <2>4, <3>1, <3>2, StillKeeps
  <2>. QED
    BY <1>7, <2>2, <2>3, <2>4 DEF Recheck
<1>. QED
  BY <1>2, <1>3, <1>5, <1>6, <1>7 DEF Admit


LEMMA PreparingSettles ==
  ASSUME Steady, NEW o \in Ops, UNCHANGED plan, Prepare(o)
  PROVE  Forth(o)
<1>. USE DEF Goto
<1>1. /\ InOrder(o) /\ CallOk(o) /\ RecordOk(o) /\ LinkOk(o)
      /\ DOMAIN pc = Ops /\ DOMAIN op = Ops /\ op[o] \in Calls /\ rec[o] \in Records
      /\ DOMAIN file = Ops /\ DOMAIN file[o] = {"part", "guard"}
      /\ pc[o] \in Early \ {"idle"} /\ proc = "up" /\ ~op[o].committed
  BY DEF Steady, SettleInv, InOrder, TypeOK, Prepare, Stage, RecordStaged, RecordVerified,
     Transform, RecordTransformed, At, CallOk
<1>2. ASSUME UNCHANGED <<orig, dst, file, marker, rec, op, life>>, Throw(o) PROVE Forth(o)
  <2>1. pc'[o] = "catch"
    BY <1>1, <1>2 DEF Throw
  <2>. QED
    BY <1>1, <1>2, <2>1, ThrowKeeps
<1>3. CASE Stage(o)
  <2>1. pc[o] = "stage"
    BY <1>3 DEF Stage, At
  <2>2. CASE HelperDead(o)
    BY <1>1, <2>2, DeadKeeps
  <2>3. CASE Throw(o) /\ UNCHANGED <<disk, rec, life, op>>
    BY <1>2, <2>3 DEF disk
  <2>4. CASE /\ file' = [file EXCEPT ![o].part = Content[o]]
             /\ op' = [op EXCEPT ![o].staging = "part", ![o].ident = Once(Content[o])]
             /\ Goto(o, "staged") /\ UNCHANGED <<orig, dst, marker, rec, life>>
    <3>1. /\ pc'[o] = "staged" /\ op'[o].ident = Once(Content[o]) /\ file'[o].part = Content[o]
          /\ op'[o].staging = "part" /\ op'[o].committed = op[o].committed
      BY <1>1, <2>4 DEF Calls
    <3>2. CallOk(o)'
      BY <1>1, <2>1, <2>4, <3>1 DEF CallOk, Unlinked, Doubles, Guarding, Copied, Once, Content
    <3>. QED
      BY <1>1, <2>1, <2>4, <3>1, <3>2, StillKeeps DEF CallOk
  <2>. QED
    BY <1>3, <2>2, <2>3, <2>4 DEF Stage, Once
<1>4. ASSUME NEW s \in {"staged", "verified", "transformed"}, rec'[o].state = s,
             \A k \in RecFields \ {"state", "staging", "ident"} : rec'[o][k] = rec[o][k],
             UNCHANGED <<orig, dst, file, marker, life>>
      PROVE LinkOk(o)' /\ RecordOk(o)' /\ Apart(o) /\ rec'[o].state \notin InDoubt \cup {"none"}
  <2>1. ~rec[o].committed /\ ~rec[o].final
    BY <1>1 DEF Steady, AccountInv, StagedInv, OpInv
  <2>2. rec[o].mark = rec[o].rsv
    BY <1>1 DEF Steady, AccountInv, Told, RecordOk
  <2>3. LinkOk(o)'
    BY <1>1, <1>4 DEF LinkOk
  <2>4. RecordOk(o)'
    BY <1>4, <2>1, <2>2 DEF RecordOk, RecFields, InDoubt
  <2>. QED
    BY <1>1, <1>4, <2>3, <2>4 DEF Apart, life, InDoubt
<1>5. CASE RecordStaged(o)
  <2>1. pc[o] = "staged" /\ UNCHANGED <<orig, dst, file, marker, life, op>>
        /\ pc'[o] \in {"catch", "verify"}
    BY <1>1, <1>5 DEF RecordStaged, At, disk, Throw
  <2>2. /\ rec'[o].state = "staged"
        /\ \A k \in RecFields \ {"state", "staging", "ident"} : rec'[o][k] = rec[o][k]
    BY <1>5, Appended DEF RecordStaged, Steady, AccountInv, StagedInv, RecFields
  <2>3. CallOk(o)'
    BY <1>1, <1>4, <2>1, <2>2 DEF CallOk, Unlinked, Doubles, Guarding, Copied, Once, Content
  <2>4. RecoveryOk(o)'
    BY <2>1 DEF RecoveryOk
  <2>. QED
    BY <1>4, <2>1, <2>2, <2>3, <2>4 DEF Forth, InOrder
<1>6. CASE RecordVerified(o)
  <2>1. pc[o] = "verify" /\ UNCHANGED <<orig, dst, file, marker, life, op>>
    BY <1>6 DEF RecordVerified, At, disk
  <2>2. CASE UNCHANGED rec /\ Throw(o)
    BY <1>2, <2>1, <2>2
  <2>3. CASE /\ Append(o, [state |-> "verified"])
             /\ \/ Throw(o)
                \/ o \in Transformed /\ Goto(o, "transform")
                \/ o \notin Transformed /\ Goto(o, "publish")
    <3>1. /\ rec'[o].state = "verified"
          /\ \A k \in RecFields \ {"state", "staging", "ident"} : rec'[o][k] = rec[o][k]
      BY <2>3, Appended DEF Steady, AccountInv, StagedInv, RecFields
    <3>2. \/ pc'[o] \in {"catch", "transform"}
          \/ pc'[o] = "publish" /\ Out[o] = Content[o]
      BY <1>1, <2>3 DEF Throw, Transformed
    <3>3. CallOk(o)'
      BY <1>1, <1>4, <2>1, <3>1, <3>2
         DEF CallOk, Unlinked, Doubles, Guarding, Copied, Once, Content
    <3>4. RecoveryOk(o)'
      BY <3>2 DEF RecoveryOk
    <3>. QED
      BY <1>4, <2>1, <3>1, <3>3, <3>4 DEF Forth, InOrder
  <2>. QED
    BY <1>6, <2>2, <2>3 DEF RecordVerified
<1>7. CASE Transform(o)
  <2>1. /\ pc[o] = "transform" /\ UNCHANGED <<orig, dst, marker, op, rec, life>>
        /\ \A p \in Ops \ {o} : file'[p] = file[p]
        /\ pc'[o] = "catch" \/ (pc'[o] = "transformed" /\ file'[o].part = Out[o])
    BY <1>1, <1>7 DEF Transform, At, Throw
  <2>2. CallOk(o)'
    BY <1>1, <2>1 DEF CallOk, Unlinked, Doubles, Guarding, Copied
  <2>. QED
    BY <1>1, <2>1, <2>2, StillKeeps DEF CallOk
<1>8. CASE RecordTransformed(o)
  <2>1. pc[o] = "transformed" /\ UNCHANGED <<orig, dst, file, marker, life>>
    BY <1>8 DEF RecordTransformed, At, disk
  <2>2. CASE UNCHANGED <<op, rec>> /\ Throw(o)
    BY <1>2, <2>1, <2>2
  <2>3. CASE /\ op' = [op EXCEPT ![o].ident = Identity(o, "part")]
             /\ Append(o, [state |-> "transformed", ident |-> Identity(o, "part")])
             /\ Goto(o, "publish")
    <3>1. /\ rec'[o].state = "transformed" /\ pc'[o] = "publish"
          /\ \A k \in RecFields \ {"state", "staging", "ident"} : rec'[o][k] = rec[o][k]
      BY <1>1, <2>3, Appended DEF Steady, AccountInv, StagedInv, RecFields
    <3>2. Identity(o, "part") = Once(Out[o])
      BY <1>1, <2>1, LinksCounted DEF CallOk, Identity, Once
    <3>3. /\ op'[o].ident = Once(Out[o])
          /\ op'[o].staging = op[o].staging /\ op'[o].committed = op[o].committed
      BY <1>1, <2>3, <3>2 DEF Calls
    <3>4. CallOk(o)'
      BY <1>1, <1>4, <2>1, <3>1, <3>3
         DEF CallOk, Unlinked, Doubles, Guarding, Copied, Once, Content
    <3>5. RecoveryOk(o)'
      BY <3>1 DEF RecoveryOk
    <3>. QED
      BY <1>4, <2>1, <3>1, <3>4, <3>5 DEF Forth, InOrder
  <2>. QED
    BY <1>8, <2>2, <2>3 DEF RecordTransformed
<1>. QED
  BY <1>3, <1>5, <1>6, <1>7, <1>8 DEF Prepare

LEMMA CommittingSettles ==
  ASSUME Steady, NEW o \in Ops, UNCHANGED plan, Commit(o)
  PROVE  Forth(o)
<1>. USE DEF Goto
<1>1. /\ InOrder(o) /\ CallOk(o) /\ RecordOk(o) /\ LinkOk(o)
      /\ DOMAIN pc = Ops /\ DOMAIN op = Ops /\ op[o] \in Calls /\ rec[o] \in Records
      /\ DOMAIN file = Ops /\ DOMAIN file[o] = {"part", "guard"} /\ DOMAIN dst = Names
      /\ DOMAIN marker = Names /\ proc = "up"
  BY DEF Steady, SettleInv, InOrder, TypeOK, Commit, Publish, RecordCommitted, AfterCommit,
     RecordAbort, At
<1>2. CASE Publish(o)
  <2>1. pc[o] = "publish" /\ op[o].cand \in Names /\ ~op[o].committed
    BY <1>1, <1>2 DEF Publish, At, Steady, AccountInv, StagedInv, OpInv, CallOk
  <2>2. CASE HelperDead(o)
    BY <1>1, <2>1, <2>2, DeadKeeps
  <2>3. CASE /\ dst[op[o].cand] = Absent
             /\ dst' = [dst EXCEPT ![op[o].cand] = Linked(o)]
             /\ op' = [op EXCEPT ![o].ident.links = @ + 1, ![o].committed = TRUE]
             /\ Goto(o, "linked")
             /\ UNCHANGED <<orig, file, marker, rec, life>>
    <3>1. /\ pc'[o] = "linked" /\ op'[o].staging = op[o].staging
          /\ op'[o].committed /\ op'[o].cand = op[o].cand
          /\ op'[o].ident = [op[o].ident EXCEPT !.links = @ + 1]
      BY <1>1, <2>3 DEF Calls
    <3>2. op[o].ident = Once(Out[o]) /\ file[o].part = Out[o] /\ op[o].staging = "part" /\ Unlinked(o)
          /\ rec[o].state \notin InDoubt
      BY <1>1, <2>1 DEF CallOk, Copied
    <3>3. op'[o].ident = Twice(Out[o])
      BY <3>1, <3>2 DEF Once, Twice
    <3>4. /\ dst'[op[o].cand].ino = <<o, "part">> /\ dst'[op[o].cand].content = Out[o]
          /\ \A n \in Names \ {op[o].cand} : dst'[n] = dst[n]
      BY <1>1, <2>1, <2>3, <3>2 DEF Linked
    <3>5. LinkOk(o)'
      BY <1>1, <2>3, <3>2, <3>4 DEF LinkOk, Unlinked
    <3>6. RecordOk(o)'
      BY <1>1, <2>3, <3>2 DEF RecordOk
    <3>7. CallOk(o)'
      BY <1>1, <2>1, <2>3, <3>1, <3>2, <3>3, <3>4
         DEF CallOk, Doubles, Guarding, Copied, Delivered, Matches, Twice
    <3>8. RecoveryOk(o)'
      BY <3>1 DEF RecoveryOk
    <3>9. Apart(o)
      BY <2>1, <2>3 DEF Apart, life
    <3>. QED
      BY <3>5, <3>6, <3>7, <3>8, <3>9 DEF Forth, InOrder
  <2>4. CASE Throw(o) /\ UNCHANGED <<disk, rec, life, op>>
    <3>1. pc'[o] = "catch"
      BY <1>1, <2>4 DEF Throw
    <3>. QED
      BY <1>1, <2>1, <2>4, <3>1, ThrowKeeps DEF disk
  <2>5. CASE /\ marker' = WithoutMarker(o, op[o].cand)
             /\ op' = [op EXCEPT ![o].held = FALSE]
             /\ Goto(o, "reserve")
             /\ UNCHANGED <<orig, dst, file, rec, life>>
    <3>1. /\ pc'[o] = "reserve" /\ op'[o].staging = op[o].staging
          /\ op'[o].committed = op[o].committed /\ op'[o].ident = op[o].ident
      BY <1>1, <2>5 DEF Calls
    <3>2. \A n \in Names : marker'[n] \in {marker[n], o, NoOp}
      BY <1>1, <2>1, <2>5 DEF WithoutMarker
    <3>3. CallOk(o)'
      BY <1>1, <2>1, <2>5, <3>1 DEF CallOk, Doubles, Guarding, Copied, Unlinked
    <3>. QED
      BY <1>1, <2>1, <2>5, <3>1, <3>2, <3>3, StillKeeps DEF CallOk
  <2>. QED
    BY <1>2, <2>2, <2>3, <2>4, <2>5 DEF Publish
<1>3. CASE RecordCommitted(o)
  <2>1. pc[o] = "linked" /\ UNCHANGED <<orig, dst, file, marker, life, op>>
    BY <1>3 DEF RecordCommitted, At, disk
  <2>2. /\ DestOk(o) /\ op[o].staging = "part" /\ op[o].cand \in Names
        /\ dst[op[o].cand].content = Out[o] /\ dst[op[o].cand].ino = <<o, "part">>
        /\ op[o].ident = Twice(Out[o]) /\ file[o].part = Out[o]
    BY <1>1, <2>1 DEF CallOk, Delivered, Matches, DestOk
  <2>3. /\ Append(o, [state |-> "committed", committed |-> TRUE, dest |-> op[o].cand,
                          staging |-> "part", ident |-> op[o].ident,
                          rsv |-> op[o].cand, mark |-> op[o].cand])
        /\ pc'[o] = "committed"
    BY <1>1, <1>3, <2>2 DEF RecordCommitted
  <2>4. /\ rec'[o].state = "committed" /\ rec'[o].committed /\ rec'[o].dest = op[o].cand
        /\ rec'[o].staging = "part" /\ rec'[o].ident = op[o].ident
        /\ rec'[o].rsv = rec'[o].mark /\ rec'[o].final = rec[o].final
    BY <2>3, Appended DEF Steady, AccountInv, StagedInv, RecFields
  <2>5. ~rec[o].final
    BY <2>1 DEF Steady, AccountInv, StagedInv, OpInv
  <2>6. LinkOk(o)'
    BY <1>1, <2>1, <2>4 DEF LinkOk
  <2>7. RecordOk(o)'
    BY <2>1, <2>2, <2>4, <2>5 DEF RecordOk, InDoubt, Delivered, Matches, Twice
  <2>8. CallOk(o)'
    BY <2>1, <2>2, <2>3, <2>4 DEF CallOk, Doubles, Guarding, Copied, InDoubt
  <2>9. RecoveryOk(o)'
    BY <2>3 DEF RecoveryOk
  <2>10. Apart(o)
    BY <2>1, <2>4 DEF Apart, life
  <2>. QED
    BY <2>6, <2>7, <2>8, <2>9, <2>10 DEF Forth, InOrder
<1>4. CASE AfterCommit(o)
  <2>1. pc[o] = "committed" /\ UNCHANGED <<orig, dst, rec, life>> /\ rec[o].state # "none"
    BY <1>1, <1>4 DEF AfterCommit, At, CallOk, Guarding, InDoubt
  <2>2. CASE Goto(o, "del-verify") /\ UNCHANGED <<file, marker, op>>
    <3>1. pc'[o] = "del-verify"
      BY <1>1, <2>2
    <3>2. CallOk(o)'
      BY <1>1, <2>1, <2>2, <3>1 DEF CallOk, Doubles, Guarding, Copied
    <3>. QED
      BY <1>1, <2>1, <2>2, <3>1, <3>2, StillKeeps
  <2>3. CASE CleanStaging(o) /\ (Goto(o, "abort") \/ Goto(o, "finish"))
    <3>1. pc'[o] \in {"abort", "finish"}
      BY <1>1, <2>3
    <3>2. /\ file' = file \/ file' = WithoutFile(o, op[o].staging)
          /\ \A n \in Names : marker'[n] \in {marker[n], o, NoOp}
      BY <1>1, <2>3 DEF CleanStaging, WithoutMarker
    <3>3. \A p \in Ops \ {o} : file'[p] = file[p]
      BY <1>1, <3>2 DEF WithoutFile
    <3>4. CallOk(o)'
      BY <3>1 DEF CallOk, Doubles, Guarding, Copied
    <3>. QED
      BY <1>1, <2>1, <3>1, <3>2, <3>3, <3>4, StillKeeps
  <2>. QED
    BY <1>4, <2>2, <2>3 DEF AfterCommit
<1>5. CASE RecordAbort(o)
  <2>1. pc[o] = "abort" /\ UNCHANGED <<orig, dst, file, marker, life>> /\ pc'[o] = "done"
    BY <1>1, <1>5 DEF RecordAbort, At, disk, Return
  <2>2. CallOk(o)'
    BY <2>1 DEF CallOk, Doubles, Guarding, Copied
  <2>3. CASE UNCHANGED rec
    BY <1>1, <2>1, <2>2, <2>3, StillKeeps
  <2>4. CASE Append(o, [state |-> "cancelled", committed |-> TRUE, retained |-> TRUE])
    <3>1. /\ rec'[o].state = "cancelled"
          /\ \A k \in RecFields \ {"state", "committed", "retained"} : rec'[o][k] = rec[o][k]
      BY <2>4, Appended DEF Steady, AccountInv, StagedInv, RecFields
    <3>2. LinkOk(o)'
      BY <1>1, <2>1, <3>1 DEF LinkOk
    <3>3. RecordOk(o)'
      BY <1>1, <2>1, <3>1 DEF RecordOk, Reclaimable, Terminal, InDoubt
    <3>4. RecoveryOk(o)'
      BY <2>1 DEF RecoveryOk
    <3>5. Apart(o)
      BY <2>1, <3>1 DEF Apart, life
    <3>. QED
      BY <2>2, <3>2, <3>3, <3>4, <3>5 DEF Forth, InOrder
  <2>. QED
    BY <1>5, <2>3, <2>4 DEF RecordAbort
<1>. QED
  BY <1>2, <1>3, <1>4, <1>5 DEF Commit


LEMMA RemovingSettles ==
  ASSUME Steady, NEW o \in Ops, UNCHANGED plan, Remove(o)
  PROVE  Forth(o)
<1>. USE DEF Goto
<1>1. /\ InOrder(o) /\ CallOk(o) /\ RecordOk(o) /\ LinkOk(o)
      /\ DOMAIN pc = Ops /\ DOMAIN op = Ops /\ op[o] \in Calls /\ rec[o] \in Records
      /\ DOMAIN file = Ops /\ DOMAIN file[o] = {"part", "guard"} /\ DOMAIN orig = Ops
      /\ DOMAIN marker = Names /\ proc = "up"
  BY DEF Steady, SettleInv, InOrder, TypeOK, Remove, DelVerify, DelIntent, DelCheck, Delete,
     Restore, RecordDeleted, Release, Unguard, Unguarded, Finish, At
<1>2. pc[o] \in Guarding \cup {"unguarded", "finish"}
  BY DEF Remove, DelVerify, DelIntent, DelCheck, Delete, Restore, RecordDeleted, Release,
     Unguard, Unguarded, Finish, At, Guarding
<1>3. pc[o] \in Guarding \cup {"unguarded"} =>
        /\ rec[o].state \in InDoubt /\ rec[o].state # "none"
        /\ DestOk(o) /\ op[o].cand \in Names
        /\ Matches(o, op[o].staging, op[o].cand, op[o].ident)
  BY <1>1, <1>2 DEF CallOk, RecordOk, InDoubt, Delivered, DestOk
<1>4. pc[o] \in Guarding => GuardOk(o)
  BY <1>1, <1>3 DEF CallOk, GuardOk, Matches
<1>5. pc[o] \in Deleting => o \in Moves
  BY DEF Steady, AccountInv, StagedInv, OpInv
<1>6. pc[o] \in {"del-verify", "del-intent", "del-check", "delete"} => SourceThere(o)
  BY <1>1 DEF Steady, AccountInv, Told, LinkOk, SourceThere, TypeOK
<1>7. pc[o] \in {"del-verify", "del-check"} => Protected(o)
  BY <1>3, <1>4, <1>6 DEF Protected, Guarding
<1>8. ASSUME pc[o] \in Deleting, HelperDead(o) PROVE Forth(o)
  BY <1>1, <1>5, <1>8, DeadKeeps
<1>9. ASSUME UNCHANGED <<orig, dst, file, marker, rec, op, life>>, Throw(o), o \in cancelled
      PROVE  Forth(o)
  <2>1. pc'[o] = "catch"
    BY <1>1, <1>9 DEF Throw
  <2>. QED
    BY <1>1, <1>2, <1>9, <2>1, ThrowKeeps DEF Guarding
<1>10. ASSUME pc[o] \in Guarding, NEW l \in Guarding, Goto(o, l),
              UNCHANGED <<orig, dst, file, marker, rec, op, life>>
       PROVE  Forth(o)
  <2>1. pc'[o] = l
    BY <1>1, <1>10
  <2>2. CallOk(o)'
    BY <1>1, <1>10, <2>1 DEF CallOk, Doubles, Guarding, Copied
  <2>. QED
    BY <1>1, <1>10, <2>1, <2>2, StillKeeps DEF Guarding
<1>11. CASE DelVerify(o)
  <2>1. pc[o] = "del-verify" /\ Protected(o)
    BY <1>7, <1>11 DEF DelVerify, At
  <2>. QED
    BY <1>8, <1>9, <1>10, <1>11, <2>1 DEF DelVerify, Guarding, disk
<1>12. CASE DelIntent(o)
  <2>1. /\ pc[o] = "del-intent" /\ pc'[o] = "del-check"
        /\ UNCHANGED <<orig, dst, file, marker, life>>
        /\ op' = [op EXCEPT ![o].intent = TRUE]
    BY <1>1, <1>12 DEF DelIntent, At, disk
  <2>2. /\ op'[o].cand = op[o].cand /\ op'[o].staging = op[o].staging
        /\ op'[o].ident = op[o].ident
    BY <1>1, <2>1 DEF Calls
  <2>3. /\ rec'[o].state = "source-delete-pending" /\ rec'[o].committed
        /\ rec'[o].dest = op[o].cand /\ rec'[o].staging = op[o].staging
        /\ \A k \in {"ident", "rsv", "mark", "final"} : rec'[o][k] = rec[o][k]
    BY <1>12, Appended DEF DelIntent, Steady, AccountInv, StagedInv, RecFields
  <2>4. rec[o].dest = op[o].cand /\ rec[o].staging = op[o].staging /\ rec[o].state \notin Terminal
        /\ file[o][op[o].staging] = Out[o] /\ op[o].ident = rec[o].ident /\ ~rec[o].final
    BY <1>1, <2>1 DEF CallOk, Guarding, RecordOk, InDoubt, Terminal
  <2>5. LinkOk(o)'
    BY <1>1, <2>1, <2>3 DEF LinkOk
  <2>6. RecordOk(o)'
    BY <1>1, <1>3, <2>1, <2>3, <2>4
       DEF RecordOk, Guarding, InDoubt, DestOk, Delivered, Matches, Once, Twice
  <2>7. CallOk(o)'
    BY <2>1, <2>2, <2>3, <2>4 DEF CallOk, Guarding, Doubles, Copied, InDoubt
  <2>8. RecoveryOk(o)'
    BY <2>1 DEF RecoveryOk
  <2>9. Apart(o)
    BY <2>1, <2>3 DEF Apart, life
  <2>. QED
    BY <2>5, <2>6, <2>7, <2>8, <2>9 DEF Forth, InOrder
<1>13. CASE DelCheck(o)
  <2>1. pc[o] = "del-check" /\ Protected(o)
    BY <1>7, <1>13 DEF DelCheck, At
  <2>. QED
    BY <1>9, <1>10, <1>13, <2>1 DEF DelCheck, Guarding, disk
<1>14. CASE Delete(o)
  <2>1. pc[o] = "delete" /\ SourceThere(o) /\ o \in Moves
    BY <1>5, <1>6, <1>14 DEF Delete, At
  <2>2. CASE HelperDead(o)
    BY <1>8, <2>1, <2>2
  <2>3. CASE /\ orig' = [orig EXCEPT ![o] = "deleted"] /\ Goto(o, "restore")
             /\ UNCHANGED <<dst, file, marker, rec, life, op>>
    <3>1. pc'[o] = "restore" /\ orig'[o] = "deleted"
      BY <1>1, <2>3
    <3>2. LinkOk(o)'
      BY <1>1, <2>3, <3>1 DEF LinkOk
    <3>3. RecordOk(o)'
      BY <1>1, <2>3, <3>1 DEF RecordOk, Delivered, Matches, Once, Twice
    <3>4. CallOk(o)'
      BY <1>1, <2>1, <2>3, <3>1 DEF CallOk, Guarding, Doubles, Copied
    <3>5. RecoveryOk(o)'
      BY <3>1 DEF RecoveryOk
    <3>6. Apart(o)
      BY <2>3 DEF Apart, life
    <3>. QED
      BY <3>2, <3>3, <3>4, <3>5, <3>6 DEF Forth, InOrder
  <2>. QED
    BY <1>14, <2>1, <2>2, <2>3 DEF Delete
<1>15. CASE Restore(o) \/ Release(o)
  <2>1. PICK l \in Guarding, b \in BOOLEAN : pc[o] \in Guarding /\ RestoreFromGuard(o, l, b)
    BY <1>15 DEF Restore, Release, At, Guarding
  <2>2. DestOk(o) /\ GuardOk(o) /\ dst[op[o].cand] # Absent
    BY <1>3, <1>4, <2>1, NotAbsent DEF DestOk, Absent, Steady
  <2>. QED
    BY <1>10, <2>1, <2>2 DEF RestoreFromGuard, disk
<1>16. CASE RecordDeleted(o)
  <2>1. /\ pc[o] = "deleted" /\ pc'[o] = "release"
        /\ UNCHANGED <<orig, dst, file, marker, life, op>>
    BY <1>1, <1>16 DEF RecordDeleted, At, disk
  <2>2. /\ rec'[o].state = "source-deleted"
        /\ \A k \in RecFields \ {"state"} : rec'[o][k] = rec[o][k]
    BY <1>16, Appended DEF RecordDeleted, Steady, AccountInv, StagedInv, RecFields
  <2>3. orig[o] = "deleted"
    BY <2>1 DEF Steady, AccountInv, Told
  <2>4. LinkOk(o)'
    BY <1>1, <2>1, <2>2 DEF LinkOk
  <2>5. RecordOk(o)'
    BY <1>1, <1>3, <2>1, <2>2, <2>3
       DEF RecordOk, RecFields, Guarding, InDoubt, Terminal, Delivered, Matches, Once, Twice
  <2>6. CallOk(o)'
    BY <1>1, <2>1, <2>2 DEF CallOk, Guarding, Doubles, Copied, InDoubt, RecFields
  <2>7. RecoveryOk(o)'
    BY <2>1 DEF RecoveryOk
  <2>8. Apart(o)
    BY <2>1, <2>2 DEF Apart, life
  <2>. QED
    BY <2>4, <2>5, <2>6, <2>7, <2>8 DEF Forth, InOrder
<1>17. CASE Unguard(o)
  <2>1. pc[o] = "unguard" /\ Identity(o, op[o].staging) = op[o].ident
    <3>1. pc[o] = "unguard" /\ file[o][op[o].staging] = Out[o]
      BY <1>1, <1>17 DEF Unguard, At, CallOk, Guarding
    <3>. QED
      BY <1>3, <3>1, MatchIsRemovable DEF Guarding
  <2>2. CASE HelperDead(o)
    BY <1>8, <2>1, <2>2
  <2>3. CASE /\ file' = WithoutFile(o, op[o].staging) /\ Goto(o, "unguarded")
             /\ UNCHANGED <<orig, dst, marker, rec, op, life>>
    <3>1. pc'[o] = "unguarded" /\ \A p \in Ops \ {o} : file'[p] = file[p]
      BY <1>1, <2>3 DEF WithoutFile
    <3>2. CallOk(o)'
      BY <1>1, <2>1, <2>3, <3>1 DEF CallOk, Guarding, Doubles, Copied
    <3>. QED
      BY <1>1, <2>3, <3>1, <3>2, StillKeeps
  <2>. QED
    BY <1>17, <2>1, <2>2, <2>3 DEF Unguard
<1>18. CASE Unguarded(o)
  <2>1. /\ pc[o] = "unguarded" /\ UNCHANGED <<orig, dst, file, rec, life>>
        /\ pc'[o] = "finish" /\ marker' = WithoutMarker(o, Held(o)) /\ rec[o].state # "none"
    BY <1>1, <1>3, <1>18 DEF Unguarded, At
  <2>2. \A n \in Names : marker'[n] \in {marker[n], o, NoOp}
    BY <1>1, <2>1 DEF WithoutMarker
  <2>3. CallOk(o)'
    BY <2>1 DEF CallOk, Guarding, Doubles, Copied
  <2>. QED
    BY <1>1, <2>1, <2>2, <2>3, StillKeeps
<1>19. CASE Finish(o)
  <2>1. pc[o] = "finish" /\ pc'[o] = "done" /\ UNCHANGED <<orig, dst, file, marker, life>>
    BY <1>1, <1>19 DEF Finish, At, disk, Return
  <2>2. rec'[o].state = "completed" /\ rec'[o].final = rec[o].final
    BY <1>19, Appended DEF Finish, Steady, AccountInv, StagedInv, RecFields
  <2>3. LinkOk(o)'
    BY <1>1, <2>1, <2>2 DEF LinkOk
  <2>4. RecordOk(o)'
    BY <2>2 DEF RecordOk, Reclaimable, Terminal, InDoubt
  <2>5. CallOk(o)' /\ RecoveryOk(o)'
    BY <2>1 DEF CallOk, RecoveryOk, Guarding, Doubles, Copied
  <2>6. Apart(o)
    BY <2>1, <2>2 DEF Apart, life
  <2>. QED
    BY <2>3, <2>4, <2>5, <2>6 DEF Forth, InOrder
<1>. QED
  BY <1>11, <1>12, <1>13, <1>14, <1>15, <1>16, <1>17, <1>18, <1>19 DEF Remove


LEMMA DuplicatingSettles ==
  ASSUME Steady, NEW o \in Ops, UNCHANGED plan, Same(o)
  PROVE  Forth(o)
<1>. USE DEF Goto
<1>1. /\ InOrder(o) /\ CallOk(o) /\ RecordOk(o) /\ LinkOk(o)
      /\ DOMAIN pc = Ops /\ DOMAIN op = Ops /\ op[o] \in Calls /\ rec[o] \in Records
      /\ DOMAIN file = Ops /\ DOMAIN file[o] = {"part", "guard"} /\ proc = "up"
  BY DEF Steady, SettleInv, InOrder, TypeOK, Same, Duplicate, RecordDuplicate, GuardStage,
     RecordGuard, At
<1>2. CASE Duplicate(o)
  <2>1. /\ pc[o] = "duplicate" /\ UNCHANGED <<orig, dst, marker, rec, life>>
        /\ \/ pc'[o] = "guard-stage" /\ o \in Moves
           \/ pc'[o] = "dup-record"
    BY <1>1, <1>2 DEF Duplicate, At
  <2>2. op'[o].cand = op[o].cand
    <3>1. \/ op' = [op EXCEPT ![o].committed = TRUE]
          \/ \E v : op' = [op EXCEPT ![o].committed = TRUE, ![o].staging = "none",
                                     ![o].residue = v]
      BY <1>2 DEF Duplicate
    <3>. QED
      BY <1>1, <3>1 DEF Calls
  <2>3. \A p \in Ops \ {o} : file'[p] = file[p]
    BY <1>1, <1>2 DEF Duplicate, WithoutFile
  <2>4. CallOk(o)'
    BY <1>1, <2>1, <2>2 DEF CallOk, Doubles, Guarding, Copied, Delivered, Content
  <2>. QED
    BY <1>1, <2>1, <2>3, <2>4, StillKeeps DEF CallOk
<1>3. CASE RecordDuplicate(o)
  <2>1. /\ pc[o] = "dup-record" /\ UNCHANGED <<orig, dst, file, marker, life>>
        /\ pc'[o] = "done"
    BY <1>1, <1>3 DEF RecordDuplicate, At, disk, Return
  <2>2. rec'[o].state = "duplicate" /\ rec'[o].final = rec[o].final
    BY <1>3, Appended DEF RecordDuplicate, Steady, AccountInv, StagedInv, RecFields
  <2>3. LinkOk(o)'
    BY <1>1, <2>1, <2>2 DEF LinkOk
  <2>4. RecordOk(o)'
    BY <2>2 DEF RecordOk, Reclaimable, Terminal, InDoubt
  <2>5. CallOk(o)' /\ RecoveryOk(o)'
    BY <2>1 DEF CallOk, RecoveryOk, Guarding, Doubles, Copied
  <2>6. Apart(o)
    BY <2>1, <2>2 DEF Apart, life
  <2>. QED
    BY <2>3, <2>4, <2>5, <2>6 DEF Forth, InOrder
<1>4. CASE GuardStage(o)
  <2>1. pc[o] = "guard-stage" /\ o \in Moves /\ SourceThere(o)
    BY <1>1, <1>4 DEF GuardStage, At, CallOk, Steady, AccountInv, Told, LinkOk, SourceThere, TypeOK
  <2>2. CASE HelperDead(o)
    BY <1>1, <2>1, <2>2, DeadKeeps
  <2>3. CASE /\ file' = [file EXCEPT ![o].guard = Content[o]]
             /\ op' = [op EXCEPT ![o].staging = "guard", ![o].ident = Once(Content[o])]
             /\ Goto(o, "guard") /\ UNCHANGED <<orig, dst, marker, rec, life>>
    <3>1. /\ pc'[o] = "guard" /\ op'[o].ident = Once(Content[o]) /\ file'[o].guard = Content[o]
          /\ op'[o].staging = "guard" /\ op'[o].cand = op[o].cand
      BY <1>1, <2>3 DEF Calls
    <3>2. CallOk(o)'
      BY <1>1, <2>1, <2>3, <3>1
         DEF CallOk, Doubles, Guarding, Copied, Delivered, Matches, Once, Content
    <3>. QED
      BY <1>1, <2>1, <2>3, <3>1, <3>2, StillKeeps DEF CallOk
  <2>. QED
    BY <1>4, <2>1, <2>2, <2>3 DEF GuardStage, Once
<1>5. CASE RecordGuard(o)
  <2>1. /\ pc[o] = "guard" /\ pc'[o] = "committed"
        /\ UNCHANGED <<orig, dst, file, marker, life, op>>
    BY <1>1, <1>5 DEF RecordGuard, At, disk
  <2>2. /\ rec'[o].state = "committed" /\ rec'[o].committed /\ rec'[o].dest = op[o].cand
        /\ rec'[o].staging = "guard" /\ rec'[o].ident = op[o].ident
        /\ \A k \in {"rsv", "mark", "final"} : rec'[o][k] = rec[o][k]
    BY <1>5, Appended DEF RecordGuard, Steady, AccountInv, StagedInv, RecFields
  <2>3. /\ op[o].staging = "guard" /\ Delivered(o, op[o].cand) /\ op[o].ident = Once(Out[o])
        /\ file[o].guard = Out[o]
    BY <1>1, <2>1 DEF CallOk, Doubles, Matches
  <2>4. ~rec[o].final /\ rec[o].mark = rec[o].rsv
    BY <1>1, <2>1 DEF Steady, AccountInv, StagedInv, OpInv, Told, RecordOk
  <2>5. LinkOk(o)'
    BY <1>1, <2>1, <2>2 DEF LinkOk
  <2>6. RecordOk(o)'
    BY <2>1, <2>2, <2>3, <2>4 DEF RecordOk, InDoubt, Delivered, Matches, Once
  <2>7. CallOk(o)'
    BY <2>1, <2>2, <2>3 DEF CallOk, Doubles, Guarding, Copied, InDoubt
  <2>8. RecoveryOk(o)'
    BY <2>1 DEF RecoveryOk
  <2>9. Apart(o)
    BY <2>1, <2>2 DEF Apart, life
  <2>. QED
    BY <2>5, <2>6, <2>7, <2>8, <2>9 DEF Forth, InOrder
<1>. QED
  BY <1>2, <1>3, <1>4, <1>5 DEF Same

LEMMA CatchingSettles ==
  ASSUME Steady, NEW o \in Ops, UNCHANGED plan, Catch(o)
  PROVE  Forth(o)
<1>. USE DEF Goto
<1>1. /\ InOrder(o) /\ CallOk(o) /\ RecordOk(o) /\ LinkOk(o)
      /\ DOMAIN pc = Ops /\ DOMAIN op = Ops /\ op[o] \in Calls /\ rec[o] \in Records
      /\ DOMAIN file = Ops /\ DOMAIN marker = Names /\ proc = "up"
      /\ op[o].cand \in Places
  BY DEF Steady, SettleInv, InOrder, TypeOK, Catch, CatchClean, CatchRecord, At, AccountInv,
     StagedInv, Shape
<1>2. CASE CatchClean(o)
  <2>1. /\ pc[o] = "catch" /\ pc'[o] = "catch-record" /\ UNCHANGED <<orig, dst, rec, life>>
        /\ file' = file \/ file' = WithoutFile(o, op[o].staging)
        /\ marker' = WithoutMarker(o, Held(o))
    BY <1>1, <1>2 DEF CatchClean, At
  <2>2. op'[o].committed = op[o].committed /\ op'[o].unknown = op[o].unknown
    BY <1>1, <1>2 DEF CatchClean, Calls
  <2>3. \A p \in Ops \ {o} : file'[p] = file[p]
    BY <1>1, <2>1 DEF WithoutFile
  <2>4. \A n \in Names : marker'[n] \in {marker[n], o, NoOp}
    BY <1>1, <2>1 DEF WithoutMarker
  <2>5. LinkOk(o)'
    BY <1>1, <2>1, OpsAssumption DEF LinkOk, WithoutMarker
  <2>6. RecordOk(o)'
    <3>1. \A k \in {"part", "guard"} : file'[o][k] \in {Nothing, file[o][k]}
      BY <2>1 DEF WithoutFile, Steady, TypeOK
    <3>. QED
      BY <1>1, <2>1, <3>1 DEF RecordOk, Delivered, Matches, Once, Twice
  <2>7. CallOk(o)' /\ RecoveryOk(o)'
    BY <1>1, <2>1, <2>2 DEF CallOk, RecoveryOk, Doubles, Guarding, Copied, life
  <2>8. Apart(o)
    BY <2>1, <2>3, <2>4 DEF Apart, life
  <2>. QED
    BY <2>5, <2>6, <2>7, <2>8 DEF Forth, InOrder
<1>3. CASE CatchRecord(o)
  <2>1. /\ pc[o] = "catch-record" /\ pc'[o] = "done"
        /\ UNCHANGED <<orig, dst, file, marker, proc, helper, cancelled>>
        /\ spent'.meddles = spent.meddles
    BY <1>1, <1>3 DEF CatchRecord, ReturnFailure, At, disk, Return, Fault, Steady, Counted
  <2>2. CallOk(o)' /\ RecoveryOk(o)'
    BY <2>1 DEF CallOk, RecoveryOk, Doubles, Guarding, Copied
  <2>3. CASE UNCHANGED rec
    <3>1. LinkOk(o)' /\ RecordOk(o)'
      BY <1>1, <2>1, <2>3 DEF LinkOk, RecordOk, Delivered, Matches, Once, Twice
    <3>2. Apart(o)
      BY <2>1, <2>3 DEF Apart, life
    <3>. QED
      BY <2>2, <3>1, <3>2 DEF Forth, InOrder
  <2>4. ASSUME ~(op[o].unknown /\ op[o].committed /\ o \in Moves),
               NEW d, NEW k, NEW r, NEW b,
               Append(o, [state |-> IF o \in cancelled THEN "cancelled" ELSE "failed",
                          committed |-> op[o].committed, retained |-> b,
                          dest |-> d, staging |-> k, rsv |-> r])
        PROVE  Forth(o)
    <3>1. /\ rec'[o].state = IF o \in cancelled THEN "cancelled" ELSE "failed"
          /\ rec'[o].committed = op[o].committed
      BY <2>4, Appended DEF Steady, AccountInv, StagedInv, RecFields
    <3>2. op[o].committed => o \in cancelled
      BY <1>1, <2>1, <2>4 DEF CallOk
    <3>3. LinkOk(o)'
      BY <1>1, <2>1, <3>1 DEF LinkOk
    <3>4. RecordOk(o)'
      BY <3>1, <3>2 DEF RecordOk, Reclaimable, Terminal, InDoubt
    <3>5. Apart(o)
      BY <2>1, <3>1 DEF Apart, life
    <3>. QED
      BY <2>2, <3>3, <3>4, <3>5 DEF Forth, InOrder
  <2>. QED
    BY <1>3, <2>3, <2>4 DEF CatchRecord, AppendFailure, Silent, Unknown, Status
<1>. QED
  BY <1>2, <1>3 DEF Catch

-----------------------------------------------------------------------------
(* Recovery writes the record of one operation at a time.                  *)
LEMMA RecoveringSettles ==
  ASSUME Steady, NEW o \in Ops, UNCHANGED plan, Recover(o)
  PROVE  Forth(o)
<1>. USE DEF Goto
<1>1. /\ InOrder(o) /\ RecoveryOk(o) /\ RecordOk(o) /\ LinkOk(o)
      /\ DOMAIN pc = Ops /\ DOMAIN op = Ops /\ op[o] \in Calls /\ rec[o] \in Records
      /\ DOMAIN file = Ops /\ DOMAIN file[o] = {"part", "guard"} /\ DOMAIN orig = Ops
      /\ DOMAIN marker = Names /\ proc = "opening" /\ helper = "ok"
  BY DEF Steady, SettleInv, InOrder, TypeOK, Recover, RecoverSkip, RecoverTerminal,
     RecoverPending, RecoverOther, RecoverRestore, RecoverClean, RecoverRecord, RecoverFail,
     RecoverDiscard, Recovering
<1>2. ASSUME pc'[o] \in {"over", "r-restore", "r-clean", "r-record", "r-discard"} PROVE CallOk(o)'
  BY <1>2 DEF CallOk, Doubles, Guarding, Copied
(* A step that leaves the record alone.                                    *)
<1>3. ASSUME UNCHANGED <<orig, dst, rec, life>>,
             pc'[o] \in {"over", "r-restore", "r-clean", "r-record", "r-discard"},
             file' = file \/ \E k : file' = WithoutFile(o, k),
             \A n \in Names : marker'[n] \in {marker[n], NoOp},
             RecoveryOk(o)'
      PROVE  Forth(o)
  <2>1. LinkOk(o)'
    BY <1>1, <1>3, OpsAssumption DEF LinkOk
  <2>2. /\ \A k \in {"part", "guard"} : file'[o][k] \in {Nothing, file[o][k]}
        /\ \A p \in Ops \ {o} : file'[p] = file[p]
    BY <1>1, <1>3 DEF WithoutFile
  <2>3. RecordOk(o)'
    BY <1>1, <1>3, <2>2 DEF RecordOk, Delivered, Matches, Once, Twice
  <2>4. Apart(o)
    BY <1>3, <2>2 DEF Apart, life
  <2>. QED
    BY <1>2, <1>3, <2>1, <2>3, <2>4 DEF Forth, InOrder
<1>4. CASE RecoverSkip(o)
  <2>1. pc'[o] = "over" /\ UNCHANGED <<orig, dst, file, marker, rec, life>>
        /\ (rec[o].final \/ rec[o].state = "none")
    BY <1>1, <1>4 DEF RecoverSkip, disk
  <2>2. RecoveryOk(o)'
    BY <1>1, <2>1 DEF RecoveryOk, Settled, RecordOk
  <2>. QED
    BY <1>3, <2>1, <2>2
<1>5. CASE RecoverTerminal(o)
  <2>1. /\ pc'[o] = "over" /\ UNCHANGED <<orig, dst, rec, life>> /\ rec[o].state \in Reclaimable
        /\ file' = file \/ file' = WithoutFile(o, rec[o].staging)
        /\ \A n \in Names : marker'[n] \in {marker[n], NoOp}
    BY <1>1, <1>5 DEF RecoverTerminal
  <2>2. RecoveryOk(o)'
    BY <2>1 DEF RecoveryOk, Settled, Terminal, Reclaimable
  <2>. QED
    BY <1>3, <2>1, <2>2
<1>6. CASE RecoverPending(o)
  <2>1. /\ rec[o].state = "source-delete-pending" /\ UNCHANGED <<dst, file, marker, life>>
        /\ orig[o] \in {"path", "quarantine", "deleted"}
    BY <1>1, <1>6 DEF RecoverPending, LinkOk, Steady, TypeOK
  <2>2. CASE orig[o] = "path" /\ pc'[o] = "r-restore" /\ UNCHANGED <<orig, rec>>
    <3>1. RecoveryOk(o)'
      BY <2>1, <2>2 DEF RecoveryOk, InDoubt
    <3>. QED
      BY <1>3, <2>1, <2>2, <3>1
  <2>3. CASE /\ orig' = [orig EXCEPT ![o] = "deleted"] /\ pc'[o] = "r-restore"
             /\ Append(o, [state |-> "source-deleted", retained |-> FALSE])
    <3>1. /\ rec'[o].state = "source-deleted" /\ orig'[o] = "deleted"
          /\ \A k \in RecFields \ {"state", "retained"} : rec'[o][k] = rec[o][k]
      BY <1>1, <2>3, Appended DEF Steady, AccountInv, StagedInv, RecFields
    <3>2. LinkOk(o)'
      BY <1>1, <2>1, <3>1 DEF LinkOk
    <3>3. RecordOk(o)'
      BY <1>1, <2>1, <3>1
         DEF RecordOk, RecFields, InDoubt, Terminal, Delivered, Matches, Once, Twice
    <3>4. RecoveryOk(o)'
      BY <2>3, <3>1 DEF RecoveryOk, InDoubt
    <3>5. Apart(o)
      BY <2>1, <3>1 DEF Apart, life
    <3>. QED
      BY <1>2, <2>3, <3>2, <3>3, <3>4, <3>5 DEF Forth, InOrder
  <2>. QED
    BY <1>1, <1>6, <2>1, <2>2, <2>3 DEF RecoverPending
<1>7. CASE RecoverOther(o)
  <2>1. /\ rec[o].state \notin Reclaimable \cup {"none", "source-delete-pending"}
        /\ UNCHANGED <<orig, dst, file, marker, rec, life>>
        /\ \/ rec[o].committed /\ pc'[o] = "r-restore"
           \/ pc'[o] = "r-discard"
    BY <1>1, <1>7 DEF RecoverOther, disk
  <2>2. RecoveryOk(o)'
    BY <1>1, <2>1 DEF RecoveryOk, RecordOk
  <2>. QED
    BY <1>3, <2>1, <2>2
<1>8. ASSUME pc[o] \in {"r-restore", "r-clean", "r-record"}
      PROVE  /\ rec[o].state \in InDoubt /\ rec[o].dest \in Names
             /\ dst[rec[o].dest].content = Out[o] /\ dst[rec[o].dest] # Absent
             /\ rec[o].state = "source-delete-pending" => orig[o] = "path"
  BY <1>1, <1>8, NotAbsent DEF RecoveryOk, RecordOk, Delivered, Absent, Steady
<1>9. CASE RecoverRestore(o)
  <2>1. pc'[o] = "r-clean" /\ UNCHANGED <<orig, dst, file, marker, rec, life>>
        /\ pc[o] = "r-restore"
    BY <1>1, <1>8, <1>9 DEF RecoverRestore, Recovering
  <2>2. RecoveryOk(o)'
    BY <1>8, <2>1 DEF RecoveryOk
  <2>. QED
    BY <1>3, <2>1, <2>2
<1>10. CASE RecoverClean(o)
  <2>1. /\ pc'[o] = "r-record" /\ pc[o] = "r-clean" /\ UNCHANGED <<orig, dst, rec, life>>
        /\ file' = file \/ file' = WithoutFile(o, rec[o].staging)
        /\ FreeMarker(o)
    BY <1>1, <1>10 DEF RecoverClean, Recovering
  <2>2. \A n \in Names : marker'[n] \in {marker[n], NoOp}
    BY <1>1, <2>1 DEF FreeMarker
  <2>3. Cleaned(o, rec[o].staging, rec[o].ident, TRUE)
    <3>1. /\ Matches(o, rec[o].staging, rec[o].dest, rec[o].ident) /\ rec[o].dest \in Names
          /\ file[o][rec[o].staging] \in {Nothing, Out[o]}
      BY <1>1, <1>8, <2>1 DEF RecordOk
    <3>2. file[o][rec[o].staging] = Out[o] => Identity(o, rec[o].staging) = rec[o].ident
      BY <3>1, MatchIsRemovable
    <3>. QED
      BY <1>1, <3>1, <3>2 DEF Cleaned, Removable
  <2>4. op'[o].residue => MarkerStays(o)
    <3>1. op' = [op EXCEPT ![o].retained = SourceThere(o),
                   ![o].residue = ~Cleaned(o, rec[o].staging, rec[o].ident, TRUE) \/ MarkerStays(o)]
      BY <1>10 DEF RecoverClean
    <3>2. op'[o].residue = (~Cleaned(o, rec[o].staging, rec[o].ident, TRUE) \/ MarkerStays(o))
      <4>. DEFINE v == ~Cleaned(o, rec[o].staging, rec[o].ident, TRUE) \/ MarkerStays(o)
                  w == SourceThere(o)
      <4>1. op' = [op EXCEPT ![o].retained = w, ![o].residue = v]
        BY <3>1
      <4>. HIDE DEF v, w
      <4>2. op'[o].residue = v
        BY <1>1, <4>1 DEF Calls
      <4>. QED
        BY <4>2, Zenon DEF v
    <3>. QED
      BY <2>3, <3>2, Zenon
  <2>5. MarkerStays(o) => LeftByOther(o)
    <3>1. rec[o].mark = rec[o].rsv
      BY <1>1, <1>8, <2>1 DEF RecordOk, InDoubt, Terminal
    <3>2. SUFFICES ASSUME MarkerStays(o)
                   PROVE  rec[o].rsv \in Names /\ \E p \in Ops \ {o} : rec[p].state # "none"
      BY DEF LeftByOther
    <3>3. rec[o].rsv \in Names /\ marker[rec[o].rsv] \in Ops \ {o}
      BY <3>1, <3>2 DEF MarkerStays, RecordedMarker, Steady, TypeOK
    <3>4. LinkOk(marker[rec[o].rsv])
      BY <3>3 DEF Steady, SettleInv, InOrder
    <3>. QED
      BY <3>3, <3>4 DEF LinkOk
  <2>6. RecoveryOk(o)'
    BY <1>8, <2>1, <2>4, <2>5 DEF RecoveryOk, LeftByOther
  <2>. QED
    BY <1>3, <2>1, <2>2, <2>6
<1>11. CASE RecoverRecord(o)
  <2>1. /\ pc[o] = "r-record" /\ pc'[o] = "over"
        /\ UNCHANGED <<orig, dst, file, marker, life>>
    BY <1>1, <1>11 DEF RecoverRecord, Recovering, disk
  <2>2. /\ rec'[o].committed /\ rec'[o].final = ~op[o].residue
        /\ rec'[o].retained = (o \notin Moves \/ op[o].retained)
        /\ rec'[o].state = IF op[o].residue
             THEN IF rec[o].state \in {"source-delete-pending", "source-deleted"}
                    THEN rec[o].state ELSE "committed"
             ELSE IF o \notin Moves \/ ~op[o].retained THEN "completed" ELSE "cancelled"
        /\ \A k \in RecFields \ {"committed", "final", "retained", "state"} :
             rec'[o][k] = rec[o][k]
    BY <1>11, Appended DEF RecoverRecord, Steady, AccountInv, StagedInv, RecFields
  <2>3. LinkOk(o)'
    BY <1>1, <2>1, <2>2 DEF LinkOk
  <2>4. CASE ~op[o].residue
    <3>1. rec'[o].state \in {"completed", "cancelled"}
      BY <2>2, <2>4
    <3>2. RecordOk(o)' /\ RecoveryOk(o)'
      BY <2>1, <3>1 DEF RecordOk, RecoveryOk, Settled, Reclaimable, Terminal, InDoubt
    <3>3. Apart(o)
      BY <2>1, <3>1 DEF Apart, life
    <3>. QED
      BY <1>2, <2>1, <2>3, <3>2, <3>3 DEF Forth, InOrder
  <2>5. CASE op[o].residue
    <3>1. /\ rec'[o].state = rec[o].state /\ rec[o].state \in InDoubt /\ rec'[o].final = FALSE
      BY <1>1, <1>8, <2>1, <2>2, <2>5 DEF InDoubt, Calls
    <3>2. RecordOk(o)'
      BY <1>1, <2>1, <2>2, <3>1
         DEF RecordOk, RecFields, InDoubt, Terminal, Delivered, Matches, Once, Twice
    <3>3. (o \notin Moves \/ op[o].retained) = (orig[o] = "path")
      <4>1. op[o].retained => ~Taken(o)
        BY <2>1 DEF Steady, AccountInv, Told
      <4>2. op[o].retained \/ orig[o] # "path"
        BY <2>1 DEF Steady, AccountInv, Told
      <4>3. Taken(o) => o \in Moves
        BY DEF Steady, AccountInv, StagedInv, OpInv
      <4>4. Taken(o) \/ orig[o] = "path"
        BY <1>1 DEF LinkOk, Steady, TypeOK
      <4>. QED
        BY <4>1, <4>2, <4>3, <4>4
    <3>4. LeftByOther(o)'
      <4>1. \A p \in Ops : rec'[p].state = rec[p].state
        BY <1>11, <3>1, Appended DEF RecoverRecord, Steady, AccountInv, StagedInv
      <4>. QED
        BY <1>1, <2>1, <2>2, <2>5, <4>1 DEF RecoveryOk, LeftByOther, RecFields
    <3>5. Settled(o)'
      BY <1>8, <2>1, <2>2, <3>1, <3>3, <3>4 DEF Settled, RecFields
    <3>6. RecoveryOk(o)'
      BY <2>1, <3>5 DEF RecoveryOk
    <3>7. Apart(o)
      BY <2>1, <3>1 DEF Apart, life, InDoubt
    <3>. QED
      BY <1>2, <2>1, <2>3, <3>2, <3>6, <3>7 DEF Forth, InOrder
  <2>. QED
    BY <2>4, <2>5
<1>12. CASE RecoverFail(o)
  BY <1>8, <1>12 DEF RecoverFail, Recovering
<1>13. CASE RecoverDiscard(o)
  <2>1. /\ pc[o] = "r-discard" /\ pc'[o] = "over" /\ UNCHANGED <<orig, dst, life>>
        /\ file' = file \/ file' = WithoutFile(o, rec[o].staging)
        /\ FreeMarker(o)
    BY <1>1, <1>13 DEF RecoverDiscard, Recovering
  <2>2. \A n \in Names : marker'[n] \in {marker[n], NoOp}
    BY <1>1, <2>1 DEF FreeMarker
  <2>3. CASE rec[o].state = "failed" /\ UNCHANGED rec
    <3>1. RecoveryOk(o)'
      BY <2>1, <2>3 DEF RecoveryOk, Settled, Terminal
    <3>. QED
      BY <1>3, <2>1, <2>2, <2>3, <3>1
  <2>4. CASE Append(o, [state |-> "cancelled", committed |-> FALSE])
    <3>1. rec'[o].state = "cancelled"
      BY <2>4, Appended DEF Steady, AccountInv, StagedInv, RecFields
    <3>2. LinkOk(o)'
      BY <1>1, <2>1, <2>2, <3>1, OpsAssumption DEF LinkOk
    <3>3. RecordOk(o)' /\ RecoveryOk(o)'
      BY <2>1, <3>1 DEF RecordOk, RecoveryOk, Settled, Reclaimable, Terminal, InDoubt
    <3>4. Apart(o)
      BY <1>1, <2>1, <2>2, <3>1 DEF Apart, life, WithoutFile
    <3>. QED
      BY <1>2, <2>1, <3>2, <3>3, <3>4 DEF Forth, InOrder
  <2>. QED
    BY <1>13, <2>3, <2>4 DEF RecoverDiscard
<1>. QED
  BY <1>4, <1>5, <1>6, <1>7, <1>9, <1>10, <1>11, <1>12, <1>13 DEF Recover


-----------------------------------------------------------------------------
LEMMA DisturbingSettles ==
  ASSUME Steady, NEW o \in Ops, UNCHANGED plan, Disturb(o)
  PROVE  Forth(o)
<1>. USE DEF Goto
<1>1. /\ InOrder(o) /\ CallOk(o) /\ RecordOk(o) /\ LinkOk(o) /\ RecoveryOk(o)
      /\ DOMAIN pc = Ops /\ DOMAIN op = Ops /\ op[o] \in Calls /\ rec[o] \in Records
      /\ DOMAIN file = Ops /\ DOMAIN file[o] = {"part", "guard"} /\ DOMAIN orig = Ops
      /\ DOMAIN dst = Names /\ proc = "up"
  BY DEF Steady, SettleInv, InOrder, TypeOK, Disturb, Cancel, AbortQueued, LoseHelper, At
<1>2. pc[o] \in Signalled => pc[o] \in Early \ {"idle"} \/ pc[o] \in {"delete", "guard-stage"}
  BY DEF Signalled
<1>3. pc[o] \in {"delete", "guard-stage"} => o \in Moves
  BY <1>1 DEF Steady, AccountInv, StagedInv, OpInv, CallOk
<1>4. pc[o] \in Early => ~op[o].committed
  BY <1>1 DEF CallOk
<1>5. CASE Cancel(o)
  <2>1. /\ UNCHANGED <<orig, dst, file, marker, rec, proc, helper, spent, pc, op>>
        /\ cancelled \subseteq cancelled'
    BY <1>5 DEF Cancel, disk
  <2>2. LinkOk(o)' /\ RecordOk(o)'
    BY <1>1, <2>1 DEF LinkOk, RecordOk, Delivered, Matches, Once, Twice
  <2>3. CallOk(o)'
    BY <1>1, <2>1
       DEF CallOk, Doubles, Guarding, Copied, Unlinked, Delivered, Matches, Once, Twice, Content
  <2>4. RecoveryOk(o)'
    BY <1>1, <2>1 DEF RecoveryOk, Settled, LeftByOther
  <2>5. Apart(o)
    BY <2>1 DEF Apart
  <2>. QED
    BY <2>2, <2>3, <2>4, <2>5 DEF Forth, InOrder
<1>6. CASE AbortQueued(o)
  <2>1. /\ pc'[o] = "catch" /\ o \in cancelled /\ pc[o] \in Signalled
        /\ UNCHANGED <<orig, dst, file, marker, rec, op, life>>
    BY <1>1, <1>6 DEF AbortQueued, Throw, disk
  <2>. QED
    BY <1>1, <1>2, <2>1, ThrowKeeps
<1>7. CASE LoseHelper(o)
  <2>1. /\ pc'[o] = "catch" /\ pc[o] \in Signalled
        /\ UNCHANGED <<marker, rec, proc, cancelled>> /\ spent'.meddles = spent.meddles
        /\ op' = [op EXCEPT ![o].unknown = TRUE,
                            ![o].staging = IF pc[o] = "stage" THEN "part" ELSE @]
    BY <1>1, <1>7 DEF LoseHelper, Fault, Throw, Steady, Counted
  <2>2. op'[o].unknown /\ op'[o].committed = op[o].committed
    BY <1>1, <2>1 DEF Calls
  <2>3. CallOk(o)' /\ RecoveryOk(o)'
    BY <1>2, <1>3, <1>4, <2>1, <2>2 DEF CallOk, RecoveryOk, Doubles, Guarding, Copied
  <2>4. pc[o] # "delete" => rec[o].state \notin InDoubt
    BY <1>1, <1>2, <2>1 DEF CallOk
  <2>5. \A p \in Ops \ {o} : file'[p] = file[p]
    BY <1>1, <1>7 DEF LoseHelper
  <2>6. CASE dst' = dst
    <3>1. orig'[o] # "user" /\ (orig'[o] = orig[o] \/ SourceThere(o))
      BY <1>1, <1>7 DEF LoseHelper, LinkOk
    <3>2. LinkOk(o)'
      BY <1>1, <2>1, <2>6, <3>1 DEF LinkOk
    <3>3. pc[o] = "delete" => file' = file
      BY <1>7 DEF LoseHelper
    <3>4. RecordOk(o)'
      BY <1>1, <2>1, <2>4, <2>6, <3>1, <3>3
         DEF RecordOk, Delivered, Matches, Once, Twice, SourceThere, InDoubt
    <3>5. Apart(o)
      BY <1>1, <2>1, <2>5, <2>6 DEF Apart
    <3>. QED
      BY <2>3, <3>2, <3>4, <3>5 DEF Forth, InOrder
  <2>7. CASE /\ pc[o] = "publish" /\ dst[op[o].cand] = Absent
             /\ dst' = [dst EXCEPT ![op[o].cand] = Linked(o)] /\ UNCHANGED <<orig, file>>
    <3>1. op[o].cand \in Names /\ Unlinked(o)
      BY <1>1, <2>7 DEF Steady, AccountInv, StagedInv, OpInv, CallOk
    <3>2. /\ dst'[op[o].cand].ino = <<o, "part">>
          /\ \A n \in Names \ {op[o].cand} : dst'[n] = dst[n]
      BY <1>1, <2>7, <3>1 DEF Linked
    <3>3. LinkOk(o)'
      BY <1>1, <2>1, <2>4, <2>7, <3>1, <3>2 DEF LinkOk, Unlinked
    <3>4. RecordOk(o)'
      BY <1>1, <2>1, <2>4, <2>7 DEF RecordOk
    <3>5. Apart(o)
      BY <1>1, <2>1, <2>5, <2>7, <3>1 DEF Apart
    <3>. QED
      BY <2>3, <3>3, <3>4, <3>5 DEF Forth, InOrder
  <2>. QED
    BY <1>7, <2>6, <2>7 DEF LoseHelper
<1>. QED
  BY <1>5, <1>6, <1>7 DEF Disturb


(* The end of the process forgets the calls; what it tears is not recorded.*)
LEMMA StoppingSettles ==
  ASSUME Steady, UNCHANGED plan, Crash \/ Close
  PROVE  proc' = "down" /\ helper' = "ok" /\ \A o \in Ops : InOrder(o)'
<1>. SUFFICES ASSUME NEW o \in Ops PROVE InOrder(o)'
  BY DEF Crash, Close, Stopped
<1>1. /\ InOrder(o) /\ CallOk(o) /\ RecordOk(o) /\ LinkOk(o) /\ RecoveryOk(o)
      /\ DOMAIN file = Ops /\ DOMAIN file[o] = {"part", "guard"} /\ DOMAIN orig = Ops
  BY DEF Steady, SettleInv, InOrder, TypeOK
<1>2. /\ UNCHANGED <<dst, marker, rec>> /\ op'[o] = Fresh
      /\ pc'[o] = IF pc[o] = "idle" THEN "idle" ELSE "todo"
  BY DEF Crash, Close, Stopped
<1>3. /\ orig'[o] = orig[o] \/ (SourceThere(o) /\ orig'[o] = "quarantine")
      /\ file'[o] = file[o] \/ pc[o] \in {"stage", "guard-stage"}
  BY <1>1 DEF Crash, Close
<1>4. LinkOk(o)'
  BY <1>1, <1>2, <1>3 DEF LinkOk
<1>5. pc[o] \in {"stage", "guard-stage"} => rec[o].state \notin InDoubt
  BY <1>1 DEF CallOk
<1>6. RecordOk(o)'
  BY <1>1, <1>2, <1>3, <1>5
     DEF RecordOk, Delivered, Matches, Once, Twice, SourceThere, InDoubt
<1>7. CallOk(o)'
  BY <1>1, <1>2 DEF CallOk, Fresh, Doubles, Guarding, Copied, Unlinked, InDoubt
<1>8. RecoveryOk(o)'
  BY <1>1, <1>2 DEF RecoveryOk, CallOk, Settled
<1>. QED
  BY <1>4, <1>6, <1>7, <1>8 DEF InOrder

(* Opening and sweeping leave the records as they are.                     *)
LEMMA OpeningSettles ==
  ASSUME Steady, UNCHANGED plan, Open \/ Sweep \/ UNCHANGED vars, NEW o \in Ops
  PROVE  InOrder(o)'
<1>1. /\ InOrder(o) /\ CallOk(o) /\ RecordOk(o) /\ LinkOk(o) /\ RecoveryOk(o)
      /\ DOMAIN marker = Names
  BY DEF Steady, SettleInv, InOrder, TypeOK
<1>2. /\ UNCHANGED <<orig, dst, file, rec, pc, op, cancelled>>
      /\ \A n \in Names : marker'[n] \in {marker[n], NoOp}
  BY <1>1 DEF Open, Sweep, vars, disk, life
<1>3. LinkOk(o)'
  BY <1>1, <1>2, OpsAssumption DEF LinkOk
<1>4. RecordOk(o)'
  BY <1>1, <1>2 DEF RecordOk, Delivered, Matches, Once, Twice
<1>5. CallOk(o)'
  BY <1>1, <1>2
     DEF CallOk, Doubles, Guarding, Copied, Unlinked, Delivered, Matches, Once, Twice, Content
<1>6. RecoveryOk(o)'
  BY <1>1, <1>2 DEF RecoveryOk, Settled, LeftByOther
<1>. QED
  BY <1>3, <1>4, <1>5, <1>6 DEF InOrder

LEMMA InitSettles == Init => SettleInv
<1>. SUFFICES ASSUME Init, NEW o \in Ops PROVE InOrder(o)
  BY DEF Init, SettleInv
<1>1. /\ orig[o] = "path" /\ rec[o] = NoRecord /\ pc[o] = "idle" /\ op[o] = Fresh
      /\ \A n \in Names : dst[n] = Absent /\ marker[n] = NoOp
  BY DEF Init
<1>2. Absent.ino = <<NoOp, "none">> /\ o # NoOp
  BY OpsAssumption DEF Absent
<1>3. LinkOk(o)
  BY <1>1, <1>2 DEF LinkOk
<1>4. RecordOk(o) /\ CallOk(o) /\ RecoveryOk(o)
  BY <1>1, <1>2 DEF RecordOk, CallOk, RecoveryOk, NoRecord, Fresh, InDoubt, Terminal, Unlinked,
     Doubles, Guarding, Copied, Settled
<1>. QED
  BY <1>3, <1>4 DEF InOrder

(* Who meddled once has meddled for good.                                  *)
LEMMA SettleStep ==
  ASSUME TypeOK, TypeOK', Counted, AccountInv, SettleInv, [Next]_vars
  PROVE  SettleInv'
<1>. SUFFICES ASSUME spent'.meddles = 0
              PROVE  (proc' # "up" => helper' = "ok") /\ \A o \in Ops : InOrder(o)'
  BY DEF SettleInv
<1>1. ASSUME NEW o \in Ops, UNCHANGED plan, Execute(o) \/ Recover(o) \/ Disturb(o)
      PROVE  (proc' # "up" => helper' = "ok") /\ \A p \in Ops : InOrder(p)'
  <2>1. spent.meddles = 0
    BY <1>1, ExecuteKeepsSpent DEF Disturb, Cancel, AbortQueued, LoseHelper, Fault, Counted, life
  <2>2. Steady
    BY <2>1 DEF Steady
  <2>3. Forth(o)
    BY <1>1, <2>2, AdmittingSettles, PreparingSettles, CommittingSettles, RemovingSettles,
       DuplicatingSettles, CatchingSettles, RecoveringSettles, DisturbingSettles DEF Execute
  <2>4. OthersStay(o)
    <3>1. Kept(o)
      BY <1>1, Admitting, Preparing, Committing, Removing, Duplicating, Catching, Recovered,
         Disturbed DEF Execute, Disturb, AccountInv
    <3>. QED
      BY <3>1 DEF Kept
  <2>5. \A p \in Ops \ {o} : InOrder(p)'
    BY <1>1, <2>2, <2>3, <2>4, OthersInOrder DEF Forth
  <2>6. proc' # "up" => helper' = "ok"
    BY <2>1, <2>3 DEF Forth, Apart, SettleInv
  <2>. QED
    BY <2>3, <2>5, <2>6 DEF Forth
<1>2. CASE Meddle
  BY <1>2 DEF Meddle, Counted
<1>3. ASSUME Crash \/ Close \/ Open \/ Sweep \/ UNCHANGED vars, UNCHANGED plan
      PROVE  (proc' # "up" => helper' = "ok") /\ \A o \in Ops : InOrder(o)'
  <2>1. spent.meddles = 0
    BY <1>3 DEF Crash, Close, Stopped, Open, Sweep, vars, life, Counted
  <2>2. Steady
    BY <2>1 DEF Steady
  <2>3. CASE Crash \/ Close
    BY <1>3, <2>2, <2>3, StoppingSettles
  <2>4. CASE Open \/ Sweep \/ UNCHANGED vars
    <3>1. proc' # "up" => helper' = "ok"
      BY <2>1, <2>4 DEF Open, Sweep, vars, life, SettleInv
    <3>. QED
      BY <1>3, <2>2, <2>4, <3>1, OpeningSettles
  <2>. QED
    BY <1>3, <2>3, <2>4
<1>. QED
  BY <1>1, <1>2, <1>3 DEF Next, Step, Disturb, vars

LEMMA TypeOKHolds == Spec => []TypeOK
  BY TypedIsTypeOK, TypedHolds, CallableHolds, PTL

LEMMA SettleInvHolds == Spec => []SettleInv
<1>1. TypeOK /\ TypeOK' /\ Counted /\ AccountInv /\ SettleInv /\ [Next]_vars => SettleInv'
  BY SettleStep
<1>. QED
  BY InitSettles, <1>1, TypeOKHolds, CountedHolds, AccountInvHolds, PTL DEF Spec

(* After an open that nobody interfered with, whatever crashed before it   *)
(* and how often, no operation is in doubt: its record is terminal, or its *)
(* bytes are at its destination, the record is right about its source and  *)
(* only a marker under the name of another operation keeps it open.        *)
THEOREM RecoveryAlwaysSettles == Spec => RecoverySettles
<1>. DEFINE Ended(o) ==
       \/ rec[o].state \in Terminal \cup {"none"}
       \/ /\ dst[rec[o].dest].content = Out[o]
          /\ rec[o].retained = (orig[o] = "path")
          /\ rec[o].state = "source-delete-pending" => orig[o] = "path"
          /\ rec[o].rsv \in Names /\ \E p \in Ops \ {o} : rec[p].state # "none"
<1>1. SettleInv => [Sweep /\ spent.meddles = 0 => \A o \in Ops : Ended(o)]_vars
  <2>. SUFFICES ASSUME SettleInv, Sweep, spent.meddles = 0, NEW o \in Ops PROVE Ended(o)
    OBVIOUS
  <2>1. pc[o] \in {"idle", "over"} /\ RecoveryOk(o)
    BY DEF Sweep, SettleInv, InOrder
  <2>. QED
    BY <2>1 DEF RecoveryOk, Settled, LeftByOther
<1>. QED
  BY <1>1, SettleInvHolds, PTL DEF Spec, RecoverySettles
=============================================================================
