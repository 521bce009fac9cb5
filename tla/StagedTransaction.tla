-------------------------- MODULE StagedTransaction --------------------------
(***************************************************************************)
(* TransactionalFileCore: copies and moves through a staged copy, for      *)
(* several operations that want the same destination name, in one core.    *)
(* Admission, reservation, staging, publication by hard link, source       *)
(* deletion behind a durable intent, the catch block, process death at any *)
(* step and recoverInterruptedOperations on the next open.                 *)
(*                                                                         *)
(* Contents stand for SHA-256 digests.  An inode is the pair of operation  *)
(* and staging name that created it, so that link counts, which the helper *)
(* compares before it unlinks or links anything, are those of the code.    *)
(* Deleting the source is the abstract promise of SourceDelete: the path   *)
(* keeps the original, or the quarantine holds it, or it is gone.          *)
(***************************************************************************)
EXTENDS Naturals, FiniteSets

CONSTANTS
  Ops,            \* operations of the job
  Contents,       \* digests
  Plans,          \* the plans the job may have: see PlanAssumption
  Nothing, NoOp,  \* "no file" and "nobody"
  Foreign,        \* the digest of a file that is none of the operations'
  MaxName,        \* candidates are 0 (the name itself) .. MaxName (suffixed)
  MaxCrashes, MaxFaults, MaxMeddles,   \* bounds on what goes wrong
  MaxTroubles     \* and on all of it together, cancellations of the session included

(* A plan says which operations move (the others copy), which are bound to *)
(* the exact previewed destination, and the digests of each source and of  *)
(* what is to be published for it.                                         *)
ASSUME PlanAssumption ==
  Plans \subseteq [moves : SUBSET Ops, exact : SUBSET Ops,
                   content : [Ops -> Contents], out : [Ops -> Contents]]
ASSUME OpsAssumption ==
  /\ NoOp \notin Ops
  /\ Nothing \notin Contents /\ Foreign \notin Contents /\ Foreign # Nothing
ASSUME BoundsAssumption ==
  /\ MaxName \in Nat /\ MaxCrashes \in Nat /\ MaxFaults \in Nat
  /\ MaxMeddles \in Nat /\ MaxTroubles \in Nat

Names       == 0 .. MaxName
NoName      == MaxName + 1

VARIABLES
  plan,      \* the plan of the job
  orig,      \* where the source's original is
  dst,       \* the file under each candidate name
  file,      \* <op>.part and <op>.duplicate-guard in the staging root
  marker,    \* reservation markers
  objects,   \* conservation objects
  rec,       \* the journal, folded per operation
  proc,      \* the process: "up", "down" or "opening"
  helper,    \* the helper channel: "ok" or "fatal"
  cancelled, \* operations whose signal is aborted
  alloc,     \* the allocation lock
  counter,   \* nextCounters for the target
  cache,     \* committedByHash for the target
  pc, op,    \* control point and locals of each execute call
  out,       \* the TransactionResult of each call
  spent      \* crashes, faults and external changes so far

disk == <<orig, dst, file, marker, objects>>
mem  == <<alloc, counter, cache>>
life == <<proc, helper, cancelled, spent>>
vars == <<plan, disk, rec, life, mem, pc, op, out>>

Moves       == plan.moves
Exact       == plan.exact
Content     == plan.content
Out         == plan.out
Transformed == {o \in Ops : Out[o] # Content[o]}

Absent == [content |-> Nothing, ino |-> <<NoOp, "none">>]
NoFiles == [part |-> Nothing, guard |-> Nothing]

(* A native identity: what the file holds and how many links it has.       *)
NoIdentity == [made |-> Nothing, links |-> 0]
Links(o, k) == 1 + Cardinality({n \in Names : dst[n].ino = <<o, k>>})
Identity(o, k) == [made |-> file[o][k], links |-> Links(o, k)]

Fresh == [cursor |-> 0, cand |-> NoName, held |-> FALSE, staging |-> "none",
          ident |-> NoIdentity, committed |-> FALSE, intent |-> FALSE,
          residue |-> FALSE, unknown |-> FALSE, retained |-> FALSE]

NoRecord == [state |-> "none", committed |-> FALSE, dest |-> NoName,
             staging |-> "none", ident |-> NoIdentity, rsv |-> NoName,
             mark |-> NoName, cons |-> FALSE, retained |-> FALSE, final |-> FALSE]

NoResult == [status |-> "none", committed |-> FALSE, retained |-> FALSE, open |-> FALSE]

Init ==
  /\ plan \in Plans
  /\ orig = [o \in Ops |-> "path"]
  /\ dst = [n \in Names |-> Absent]
  /\ file = [o \in Ops |-> NoFiles]
  /\ marker = [n \in Names |-> NoOp]
  /\ objects = {}
  /\ rec = [o \in Ops |-> NoRecord]
  /\ proc = "up" /\ helper = "ok" /\ cancelled = {}
  /\ spent = [crashes |-> 0, faults |-> 0, meddles |-> 0]
  /\ alloc = NoOp /\ counter = 0 /\ cache = [c \in Contents |-> NoName]
  /\ pc = [o \in Ops |-> "idle"]
  /\ op = [o \in Ops |-> Fresh]
  /\ out = [o \in Ops |-> NoResult]

-----------------------------------------------------------------------------
(* Helpers of the actions.                                                 *)
Trouble ==
  spent.crashes + spent.faults + spent.meddles + Cardinality(cancelled) < MaxTroubles
Fault == /\ spent.faults < MaxFaults /\ Trouble
         /\ spent' = [spent EXCEPT !.faults = @ + 1]
At(o, l)    == proc = "up" /\ pc[o] = l
Goto(o, l)  == pc' = [pc EXCEPT ![o] = l]
Unlock(o)   == alloc' = IF alloc = o THEN NoOp ELSE alloc
Throw(o)    == Goto(o, "catch") /\ Unlock(o)
SourceThere(o) == orig[o] = "path"
DestOk(o)   == op[o].cand \in Names /\ dst[op[o].cand].content = Out[o]
GuardOk(o)  == op[o].staging # "none" /\ file[o][op[o].staging] = Out[o]

(* journal.append: a record is folded over the ones before it; fields that *)
(* are undefined in the code keep what the earlier records said.           *)
Append(o, fields) ==
  rec' = [rec EXCEPT ![o] = [k \in DOMAIN rec[o] |->
            IF k \in DOMAIN fields THEN fields[k] ELSE rec[o][k]]]

(* Mutant: the requests queued for a dead helper are dropped, not rejected.*)
HelperDeadSilent(o) == o \notin Ops /\ UNCHANGED vars

(* A request to a dead helper is rejected with outcome "unknown".          *)
HelperDead(o) ==
  /\ helper = "fatal"
  /\ op' = [op EXCEPT ![o].unknown = TRUE]
  /\ Throw(o)
  /\ UNCHANGED <<disk, rec, life, counter, cache, out>>

(* removeManagedExact under an identity; with a digest at hand the code    *)
(* accepts the loss of exactly one link (isOneLinkRemovalOfSameIdentity).  *)
Removable(o, k, ident, hashed) ==
  \/ Identity(o, k) = ident
  \/ /\ hashed /\ file[o][k] = Out[o] /\ ident.made = Out[o]
     /\ ident.links = Links(o, k) + 1

Cleaned(o, k, ident, hashed) ==
  k = "none" \/ file[o][k] = Nothing
             \/ (helper = "ok" /\ Removable(o, k, ident, hashed))

WithoutFile(o, k) ==
  IF k = "none" THEN file ELSE [file EXCEPT ![o][k] = Nothing]

(* Markers are removed under the identity of the operation that wrote them.*)
MarkerCleaned(o, n)  == n = NoName \/ marker[n] = NoOp
                           \/ (helper = "ok" /\ marker[n] = o)
WithoutMarker(o, n)  == IF n # NoName /\ marker[n] = o /\ helper = "ok"
                        THEN [marker EXCEPT ![n] = NoOp] ELSE marker
Held(o) == IF op[o].held THEN op[o].cand ELSE NoName

-----------------------------------------------------------------------------
(* execute: checks of the request and of the source, hash, `planned`.      *)
Start(o) ==
  /\ At(o, "idle")
  /\ IF o \in cancelled \/ ~SourceThere(o)
       THEN Throw(o) /\ UNCHANGED rec
       ELSE /\ Append(o, [state |-> "planned"])
            /\ Goto(o, "reserve") /\ UNCHANGED alloc
  /\ UNCHANGED <<disk, life, counter, cache, op, out>>

(* reserveCandidate: a digest committed before is a duplicate; otherwise   *)
(* the candidates are probed under the allocation lock.                    *)
Reserve(o) ==
  /\ At(o, "reserve") /\ alloc = NoOp
  /\ LET hit == cache[Content[o]] IN
     IF o \notin Transformed /\ hit # NoName /\ dst[hit].content = Content[o]
       THEN /\ op' = [op EXCEPT ![o].cand = hit, ![o].held = FALSE]
            /\ Goto(o, "duplicate") /\ UNCHANGED alloc
       ELSE /\ op' = [op EXCEPT ![o].cursor = IF o \in Exact THEN 0 ELSE counter]
            /\ alloc' = o /\ Goto(o, "probe")
  /\ UNCHANGED <<disk, rec, life, counter, cache, out>>

(* The next candidate, or the end of an operation bound to one name.       *)
Advance(o) ==
  IF o \in Exact
    THEN Throw(o) /\ UNCHANGED op
    ELSE /\ op' = [op EXCEPT ![o].cursor = @ + 1]
         /\ Goto(o, "probe") /\ UNCHANGED alloc

Probe(o) ==
  LET c == op[o].cursor IN
  /\ At(o, "probe") /\ c \in Names
  /\ \/ /\ o \notin Transformed /\ dst[c].content = Content[o]
        /\ cache' = [cache EXCEPT ![Content[o]] = c]
        /\ counter' = c + 1 /\ alloc' = NoOp
        /\ op' = [op EXCEPT ![o].cand = c, ![o].held = FALSE]
        /\ Goto(o, "duplicate")
     \/ /\ dst[c] # Absent /\ (o \in Transformed \/ dst[c].content # Content[o])
        /\ Advance(o) /\ UNCHANGED <<counter, cache>>
     \/ /\ dst[c] = Absent
        /\ Goto(o, "mark") /\ UNCHANGED <<op, mem>>
  /\ UNCHANGED <<disk, rec, life, out>>

(* Mutant: the marker is written whether or not one exists.                *)
MarkAnyway(o) ==
  LET c == op[o].cursor IN
  /\ At(o, "mark")
  /\ \/ HelperDead(o)
     \/ /\ helper = "ok" /\ marker' = [marker EXCEPT ![c] = o]
        /\ Goto(o, "recheck") /\ UNCHANGED <<orig, dst, file, objects, op, mem, rec, life, out>>

(* writeMarkerNew: creating the marker is what reserves the name.          *)
Mark(o) ==
  LET c == op[o].cursor IN
  /\ At(o, "mark")
  /\ \/ HelperDead(o)
     \/ /\ helper = "ok" /\ marker[c] # NoOp
        /\ Advance(o) /\ UNCHANGED <<disk, rec, life, counter, cache, out>>
     \/ /\ helper = "ok" /\ marker[c] = NoOp
        /\ marker' = [marker EXCEPT ![c] = o]
        /\ Goto(o, "recheck")
        /\ UNCHANGED <<orig, dst, file, objects, op, mem, rec, life, out>>

(* The name is looked at again under the marker.  The first reservation is *)
(* journaled; one made after a lost publication race is not.               *)
Recheck(o) ==
  LET c == op[o].cursor IN
  /\ At(o, "recheck")
  /\ IF dst[c] # Absent
       THEN /\ marker' = WithoutMarker(o, c)
            /\ Advance(o) /\ UNCHANGED <<counter, rec>>
       ELSE /\ counter' = c + 1 /\ alloc' = NoOp
            /\ op' = [op EXCEPT ![o].cand = c, ![o].held = TRUE]
            /\ IF op[o].staging = "none"
                 THEN /\ Append(o, [state |-> "reserved", dest |-> c,
                                  rsv |-> c, mark |-> c])
                      /\ Goto(o, "stage")
                 ELSE Goto(o, "publish") /\ UNCHANGED rec
            /\ UNCHANGED marker
  /\ UNCHANGED <<orig, dst, file, objects, life, cache, out>>

-----------------------------------------------------------------------------
(* Staging, verification and transformation.                               *)
Stage(o) ==
  /\ At(o, "stage")
  /\ \/ HelperDead(o)
     \/ /\ helper = "ok" /\ ~SourceThere(o)
        /\ Throw(o) /\ UNCHANGED <<disk, rec, life, counter, cache, op, out>>
     \/ /\ helper = "ok" /\ SourceThere(o)
        /\ file' = [file EXCEPT ![o].part = Content[o]]
        /\ op' = [op EXCEPT ![o].staging = "part",
                            ![o].ident = [made |-> Content[o], links |-> 1]]
        /\ Goto(o, "staged")
        /\ UNCHANGED <<orig, dst, marker, objects, rec, life, mem, out>>

RecordStaged(o) ==
  /\ At(o, "staged")
  /\ Append(o, [state |-> "staged", staging |-> "part", ident |-> op[o].ident])
  /\ IF o \in cancelled THEN Throw(o) ELSE Goto(o, "verify") /\ UNCHANGED alloc
  /\ UNCHANGED <<disk, life, counter, cache, op, out>>

RecordVerified(o) ==
  /\ At(o, "verify")
  /\ IF SourceThere(o) THEN Append(o, [state |-> "verified"]) ELSE UNCHANGED rec
  /\ IF o \in cancelled \/ ~SourceThere(o)
       THEN Throw(o)
       ELSE /\ Goto(o, IF o \in Transformed THEN "transform" ELSE "publish")
            /\ UNCHANGED alloc
  /\ UNCHANGED <<disk, life, counter, cache, op, out>>

(* transformStaging rewrites the staged copy in place; it may give up with *)
(* the copy half written.                                                  *)
Transform(o) ==
  /\ At(o, "transform")
  /\ \/ /\ file' = [file EXCEPT ![o].part = Out[o]]
        /\ Goto(o, "transformed") /\ UNCHANGED alloc
     \/ file' = [file EXCEPT ![o].part = Foreign] /\ Throw(o)
  /\ UNCHANGED <<orig, dst, marker, objects, rec, life, counter, cache, op, out>>

RecordTransformed(o) ==
  /\ At(o, "transformed")
  /\ IF o \in cancelled \/ ~SourceThere(o)
       THEN Throw(o) /\ UNCHANGED <<op, rec>>
       ELSE /\ op' = [op EXCEPT ![o].ident = Identity(o, "part")]
            /\ Append(o, [state |-> "transformed", ident |-> Identity(o, "part")])
            /\ Goto(o, "publish") /\ UNCHANGED alloc
  /\ UNCHANGED <<disk, life, counter, cache, out>>

-----------------------------------------------------------------------------
(* Publication: a hard link that never replaces.  Whoever lost the race for*)
(* the name gives the marker back and reserves another.                    *)
Linked(o) == [content |-> file[o].part, ino |-> <<o, "part">>]

(* Mutant: the link replaces whatever is at the destination.               *)
PublishReplacing(o) ==
  LET c == op[o].cand IN
  /\ At(o, "publish")
  /\ \/ HelperDead(o)
     \/ /\ helper = "ok"
        /\ dst' = [dst EXCEPT ![c] = Linked(o)]
        /\ op' = [op EXCEPT ![o].ident.links = @ + 1, ![o].committed = TRUE]
        /\ Goto(o, "linked")
        /\ UNCHANGED <<orig, file, marker, objects, rec, life, mem, out>>

Publish(o) ==
  LET c == op[o].cand IN
  /\ At(o, "publish")
  /\ \/ HelperDead(o)
     \/ /\ helper = "ok" /\ dst[c] = Absent
        /\ dst' = [dst EXCEPT ![c] = Linked(o)]
        /\ op' = [op EXCEPT ![o].ident.links = @ + 1, ![o].committed = TRUE]
        /\ Goto(o, "linked")
        /\ UNCHANGED <<orig, file, marker, objects, rec, life, mem, out>>
     \/ /\ helper = "ok" /\ dst[c] # Absent /\ o \in Exact
        /\ Throw(o) /\ UNCHANGED <<disk, rec, life, counter, cache, op, out>>
     \/ /\ helper = "ok" /\ dst[c] # Absent /\ o \notin Exact
        /\ marker' = WithoutMarker(o, c)
        /\ op' = [op EXCEPT ![o].held = FALSE]
        /\ Goto(o, "reserve")
        /\ UNCHANGED <<orig, dst, file, objects, rec, life, mem, out>>

(* The destination is hashed before `committed` is journaled.              *)
RecordCommitted(o) ==
  LET c == op[o].cand IN
  /\ At(o, "linked")
  /\ IF DestOk(o)
       THEN /\ cache' = [cache EXCEPT ![Out[o]] = c]
            /\ Append(o, [state |-> "committed", committed |-> TRUE, dest |-> c,
                          staging |-> "part", ident |-> op[o].ident,
                          rsv |-> c, mark |-> c])
            /\ Goto(o, "committed") /\ UNCHANGED alloc
       ELSE Throw(o) /\ UNCHANGED <<cache, rec>>
  /\ UNCHANGED <<disk, life, counter, op, out>>

(* After the commit point: an abort keeps both files, a move goes on to    *)
(* delete its source, a copy to tidy up.                                   *)
CleanStaging(o) ==
  LET k == op[o].staging
      gone == Cleaned(o, k, op[o].ident, FALSE) IN
  /\ file' = IF gone THEN WithoutFile(o, k) ELSE file
  /\ marker' = WithoutMarker(o, Held(o))
  /\ op' = [op EXCEPT ![o].residue = @ \/ ~gone \/ ~MarkerCleaned(o, Held(o))]

AfterCommit(o) ==
  /\ At(o, "committed")
  /\ IF o \notin cancelled /\ o \in Moves
       THEN Goto(o, "del-verify") /\ UNCHANGED <<file, marker, op>>
       ELSE /\ CleanStaging(o)
            /\ Goto(o, IF o \in cancelled THEN "abort" ELSE "finish")
  /\ UNCHANGED <<orig, dst, objects, rec, life, mem, out>>

(* A result is open when it tells of residue, or its error of an unknown   *)
(* outcome.                                                                *)
Return(o, status, committed, retained, open) ==
  /\ out' = [out EXCEPT ![o] = [status |-> status, committed |-> committed,
                                retained |-> retained, open |-> open]]
  /\ op' = [op EXCEPT ![o] = Fresh]
  /\ Goto(o, "done")

RecordAbort(o) ==
  /\ At(o, "abort")
  /\ IF op[o].residue
       THEN UNCHANGED rec
       ELSE Append(o, [state |-> "cancelled", committed |-> TRUE, retained |-> TRUE])
  /\ Return(o, "cancelled", TRUE, TRUE, op[o].residue)
  /\ UNCHANGED <<disk, life, mem>>

-----------------------------------------------------------------------------
(* deleteSourceAfterCommit.                                                *)
Protected(o) == SourceThere(o) /\ DestOk(o) /\ GuardOk(o)

(* Mutant: the intent is journaled without a conservation object.          *)
DelVerifyWithoutObject(o) ==
  /\ At(o, "del-verify")
  /\ IF o \in cancelled \/ ~Protected(o)
       THEN Throw(o) ELSE Goto(o, "del-intent") /\ UNCHANGED alloc
  /\ UNCHANGED <<disk, rec, life, counter, cache, op, out>>

DelVerify(o) ==
  /\ At(o, "del-verify")
  /\ \/ /\ o \in cancelled \/ ~Protected(o)
        /\ Throw(o) /\ UNCHANGED <<disk, rec, life, counter, cache, op, out>>
     \/ /\ o \notin cancelled /\ Protected(o)
        /\ HelperDead(o)
     \/ /\ o \notin cancelled /\ Protected(o) /\ helper = "ok"
        /\ objects' = objects \cup {Out[o]}
        /\ Goto(o, "del-intent")
        /\ UNCHANGED <<orig, dst, file, marker, op, mem, rec, life, out>>

DelIntent(o) ==
  /\ At(o, "del-intent")
  /\ Append(o, [state |-> "source-delete-pending", committed |-> TRUE,
                dest |-> op[o].cand, staging |-> op[o].staging,
                cons |-> TRUE, retained |-> FALSE])
  /\ op' = [op EXCEPT ![o].intent = TRUE]
  /\ Goto(o, "del-check")
  /\ UNCHANGED <<disk, life, mem, out>>

DelCheck(o) ==
  /\ At(o, "del-check")
  /\ IF o \in cancelled \/ ~Protected(o)
       THEN Throw(o) ELSE Goto(o, "delete") /\ UNCHANGED alloc
  /\ UNCHANGED <<disk, rec, life, counter, cache, op, out>>

Delete(o) ==
  /\ At(o, "delete")
  /\ \/ HelperDead(o)
     \/ /\ helper = "ok" /\ ~SourceThere(o)
        /\ Throw(o) /\ UNCHANGED <<disk, rec, life, counter, cache, op, out>>
     \/ /\ helper = "ok" /\ SourceThere(o)
        /\ orig' = [orig EXCEPT ![o] = "deleted"]
        /\ Goto(o, "restore")
        /\ UNCHANGED <<dst, file, marker, objects, rec, life, mem, op, out>>

(* restoreDestinationFromGuard: a destination that vanished is linked again*)
(* from the guard, under the identity the core remembers for the guard.    *)
RestoreFromGuard(o, next, failure) ==
  LET k == op[o].staging
      c == op[o].cand
      refused == \/ ~GuardOk(o)
                 \/ dst[c] # Absent /\ ~DestOk(o)
                 \/ dst[c] = Absent /\ Identity(o, k) # op[o].ident IN
  \/ /\ DestOk(o) /\ GuardOk(o)
     /\ Goto(o, next) /\ UNCHANGED <<disk, rec, life, mem, op, out>>
  \/ /\ refused
     /\ op' = [op EXCEPT ![o].residue = @ \/ failure]
     /\ Throw(o) /\ UNCHANGED <<disk, rec, life, counter, cache, out>>
  \/ /\ dst[c] = Absent /\ GuardOk(o)
     /\ HelperDead(o)
  \/ /\ ~refused /\ dst[c] = Absent /\ helper = "ok"
     /\ dst' = [dst EXCEPT ![c] = [content |-> Out[o], ino |-> <<o, k>>]]
     /\ Goto(o, next)
     /\ UNCHANGED <<orig, file, marker, objects, rec, life, mem, op, out>>

Restore(o) == At(o, "restore") /\ RestoreFromGuard(o, "deleted", FALSE)

RecordDeleted(o) ==
  /\ At(o, "deleted")
  /\ Append(o, [state |-> "source-deleted"])
  /\ Goto(o, "release")
  /\ UNCHANGED <<disk, life, mem, op, out>>

(* releaseProtectedGuard, and the confirmation after the guard is gone.    *)
Release(o) == At(o, "release") /\ RestoreFromGuard(o, "unguard", TRUE)

Unguard(o) ==
  LET k == op[o].staging IN
  /\ At(o, "unguard")
  /\ \/ HelperDead(o)
     \/ /\ helper = "ok" /\ Identity(o, k) = op[o].ident
        /\ file' = WithoutFile(o, k)
        /\ Goto(o, "unguarded") /\ UNCHANGED <<alloc, op>>
        /\ UNCHANGED <<orig, dst, marker, objects, rec, life, counter, cache, out>>
     \/ /\ helper = "ok" /\ Identity(o, k) # op[o].ident
        /\ op' = [op EXCEPT ![o].residue = TRUE]
        /\ Throw(o) /\ UNCHANGED <<disk, rec, life, counter, cache, out>>

Unguarded(o) ==
  /\ At(o, "unguarded")
  /\ IF DestOk(o)
       THEN /\ marker' = WithoutMarker(o, Held(o))
            /\ op' = [op EXCEPT ![o].residue = @ \/ ~MarkerCleaned(o, Held(o))]
            /\ Goto(o, "finish") /\ UNCHANGED alloc
       ELSE /\ op' = [op EXCEPT ![o].residue = TRUE]
            /\ Throw(o) /\ UNCHANGED marker
  /\ UNCHANGED <<orig, dst, file, objects, rec, life, counter, cache, out>>

Finish(o) ==
  /\ At(o, "finish")
  /\ Append(o, [state |-> "completed", committed |-> TRUE, dest |-> op[o].cand,
                retained |-> o \notin Moves])
  /\ Return(o, IF o \in Moves THEN "moved" ELSE "copied", TRUE, o \notin Moves,
            op[o].residue)
  /\ UNCHANGED <<disk, life, mem>>

-----------------------------------------------------------------------------
(* finishDuplicate: the bytes are already there.  A copy only says so; a   *)
(* move copies the source again as a guard before it deletes it.           *)
Duplicate(o) ==
  /\ At(o, "duplicate")
  /\ IF op[o].staging = "part"
       THEN /\ file' = IF Cleaned(o, "part", op[o].ident, FALSE)
                         THEN WithoutFile(o, "part") ELSE file
            /\ op' = [op EXCEPT ![o].committed = TRUE, ![o].staging = "none",
                 ![o].residue = @ \/ ~Cleaned(o, "part", op[o].ident, FALSE)]
       ELSE op' = [op EXCEPT ![o].committed = TRUE] /\ UNCHANGED file
  /\ cache' = [cache EXCEPT ![Content[o]] = op[o].cand]
  /\ Goto(o, IF o \in Moves THEN "guard-stage" ELSE "dup-record")
  /\ UNCHANGED <<orig, dst, marker, objects, rec, life, alloc, counter, out>>

RecordDuplicate(o) ==
  /\ At(o, "dup-record")
  /\ Append(o, [state |-> "duplicate", committed |-> TRUE, dest |-> op[o].cand,
                retained |-> TRUE])
  /\ Return(o, "duplicate", TRUE, TRUE, FALSE)
  /\ UNCHANGED <<disk, life, mem>>

GuardStage(o) ==
  /\ At(o, "guard-stage")
  /\ \/ HelperDead(o)
     \/ /\ helper = "ok" /\ ~SourceThere(o)
        /\ Throw(o) /\ UNCHANGED <<disk, rec, life, counter, cache, op, out>>
     \/ /\ helper = "ok" /\ SourceThere(o)
        /\ file' = [file EXCEPT ![o].guard = Content[o]]
        /\ op' = [op EXCEPT ![o].staging = "guard",
                            ![o].ident = [made |-> Content[o], links |-> 1]]
        /\ Goto(o, "guard")
        /\ UNCHANGED <<orig, dst, marker, objects, rec, life, mem, out>>

RecordGuard(o) ==
  /\ At(o, "guard")
  /\ Append(o, [state |-> "committed", committed |-> TRUE, dest |-> op[o].cand,
                staging |-> "guard", ident |-> op[o].ident])
  /\ Goto(o, "committed")
  /\ UNCHANGED <<disk, life, mem, op, out>>

-----------------------------------------------------------------------------
(* The catch block of execute.  What is staged goes when nothing was       *)
(* committed, when the destination is verified and the source kept, or,    *)
(* after an abort, when it is a second link of the destination.            *)
CatchClean(o) ==
  LET k == op[o].staging
      kept == SourceThere(o)
      verified == op[o].committed /\ kept /\ op[o].intent /\ DestOk(o)
      twin == op[o].cand \in Names /\ dst[op[o].cand].ino = <<o, k>>
      due == \/ ~op[o].committed
             \/ verified
             \/ op[o].committed /\ o \in cancelled /\ kept /\ twin
      ident == IF verified THEN op[o].ident ELSE Identity(o, k)
      gone == Cleaned(o, k, ident, TRUE) IN
  /\ At(o, "catch")
  /\ file' = IF due /\ gone THEN WithoutFile(o, k) ELSE file
  /\ marker' = WithoutMarker(o, Held(o))
  /\ op' = [op EXCEPT ![o].retained = kept,
       ![o].residue = @ \/ (due /\ ~gone) \/ ~MarkerCleaned(o, Held(o))]
  /\ Goto(o, "catch-record")
  /\ UNCHANGED <<orig, dst, objects, rec, life, mem, out>>

(* What the catch block has to say of the call.                            *)
Status(o)  == IF o \in cancelled THEN "cancelled" ELSE "failed"
Unknown(o) == op[o].unknown /\ op[o].committed /\ o \in Moves
Silent(o)  == Unknown(o) \/ (op[o].committed /\ op[o].retained /\ op[o].residue)
AppendFailure(o) ==
  LET l == op[o] IN
  Append(o, [state |-> Status(o), committed |-> l.committed, retained |-> l.retained,
     dest |-> IF l.cand = NoName THEN rec[o].dest ELSE l.cand,
     staging |-> IF l.staging = "none" THEN rec[o].staging ELSE l.staging,
     rsv |-> IF l.held THEN l.cand ELSE rec[o].rsv])
ReturnFailure(o, open) == Return(o, Status(o), op[o].committed, op[o].retained, open)

(* Mutant: a failure of the append is swallowed, not added to the residue. *)
CatchRecordSwallows(o) ==
  /\ At(o, "catch-record")
  /\ \/ Silent(o) /\ UNCHANGED <<rec, spent>>
     \/ ~Silent(o) /\ AppendFailure(o) /\ UNCHANGED spent
     \/ ~Silent(o) /\ Fault /\ UNCHANGED rec
  /\ ReturnFailure(o, op[o].residue \/ Unknown(o))
  /\ UNCHANGED <<disk, proc, helper, cancelled, mem>>

(* Nothing is journaled when the outcome of a committed move is unknown,   *)
(* or when residue of a committed operation is left for the next open.     *)
(* An append that fails, with or without its line in the file, does not    *)
(* fail the call: it becomes residue of the result.                        *)
CatchRecord(o) ==
  /\ At(o, "catch-record")
  /\ \/ /\ Silent(o)
        /\ ReturnFailure(o, op[o].residue \/ Unknown(o)) /\ UNCHANGED <<rec, spent>>
     \/ /\ ~Silent(o) /\ AppendFailure(o)
        /\ ReturnFailure(o, op[o].residue) /\ UNCHANGED spent
     \/ /\ ~Silent(o) /\ Fault /\ (UNCHANGED rec \/ AppendFailure(o))
        /\ ReturnFailure(o, TRUE)
  /\ UNCHANGED <<disk, proc, helper, cancelled, mem>>

-----------------------------------------------------------------------------
(* Cancellation, which the catch block asks about only as it begins, and   *)
(* what becomes of a request that never answers.                           *)
Cancel(o) ==
  /\ proc = "up" /\ o \notin cancelled /\ pc[o] \notin {"catch-record", "done", "over"}
  /\ Trouble
  /\ cancelled' = cancelled \cup {o}
  /\ UNCHANGED <<disk, rec, proc, helper, spent, mem, pc, op, out>>

Signalled == {"stage", "publish", "delete", "guard-stage"}

(* Aborted while queued: the request is never sent.                        *)
AbortQueued(o) ==
  /\ At(o, pc[o]) /\ pc[o] \in Signalled /\ o \in cancelled
  /\ Throw(o)
  /\ UNCHANGED <<disk, rec, life, counter, cache, op, out>>

(* Aborted or failed while in flight: the helper is killed and never       *)
(* replaced in this core; the request may have taken effect, or half of it.*)
LoseHelper(o) ==
  /\ helper = "ok" /\ At(o, pc[o]) /\ pc[o] \in Signalled
  /\ \/ o \in cancelled /\ UNCHANGED spent
     \/ Fault
  /\ helper' = "fatal"
  /\ op' = [op EXCEPT ![o].unknown = TRUE,
              ![o].staging = IF pc[o] = "stage" THEN "part" ELSE @]
  /\ \/ UNCHANGED <<orig, dst, file>>
     \/ /\ pc[o] = "stage" /\ SourceThere(o)
        /\ \E c \in {Foreign, Content[o]} : file' = [file EXCEPT ![o].part = c]
        /\ UNCHANGED <<orig, dst>>
     \/ /\ pc[o] = "guard-stage" /\ SourceThere(o)
        /\ \E c \in {Foreign, Content[o]} : file' = [file EXCEPT ![o].guard = c]
        /\ UNCHANGED <<orig, dst>>
     \/ /\ pc[o] = "publish" /\ dst[op[o].cand] = Absent
        /\ dst' = [dst EXCEPT ![op[o].cand] = Linked(o)]
        /\ UNCHANGED <<orig, file>>
     \/ /\ pc[o] = "delete" /\ SourceThere(o)
        /\ \E w \in {"quarantine", "deleted"} : orig' = [orig EXCEPT ![o] = w]
        /\ UNCHANGED <<dst, file>>
  /\ Throw(o)
  /\ UNCHANGED <<marker, objects, rec, proc, cancelled, counter, cache, out>>

(* The user or another program, at most MaxMeddles times: a destination    *)
(* disappears, an unrelated file takes its name, a source is taken away.   *)
Meddle ==
  /\ spent.meddles < MaxMeddles /\ Trouble
  /\ spent' = [spent EXCEPT !.meddles = @ + 1]
  /\ \/ \E n \in Names :
          /\ dst' = [dst EXCEPT ![n] = IF dst[n] # Absent THEN Absent
                       ELSE [content |-> Foreign, ino |-> <<NoOp, "own">>]]
          /\ UNCHANGED orig
     \/ \E o \in Ops : /\ SourceThere(o) /\ orig' = [orig EXCEPT ![o] = "user"]
                       /\ UNCHANGED dst
  /\ UNCHANGED <<file, marker, objects, rec, proc, helper, cancelled, mem, pc, op, out>>

-----------------------------------------------------------------------------
(* The process ends: it is killed with the helper at any step, or the core *)
(* is closed once every call has returned.                                 *)
Stopped ==
  /\ proc' = "down" /\ helper' = "ok"
  /\ spent' = [spent EXCEPT !.crashes = @ + 1]
  /\ alloc' = NoOp /\ counter' = 0 /\ cache' = [c \in Contents |-> NoName]
  /\ op' = [o \in Ops |-> Fresh]
  /\ pc' = [o \in Ops |-> IF pc[o] = "idle" THEN "idle" ELSE "todo"]
  /\ cancelled' = {}
  /\ UNCHANGED <<dst, marker, objects, rec, out>>

Crash ==
  /\ proc # "down" /\ spent.crashes < MaxCrashes /\ Trouble
  /\ \E torn \in SUBSET {o \in Ops : pc[o] \in {"stage", "guard-stage", "delete"}
                                     /\ helper = "ok" /\ SourceThere(o)} :
       /\ orig' = [o \in Ops |-> IF o \in torn /\ pc[o] = "delete"
                                   THEN "quarantine" ELSE orig[o]]
       /\ file' = [o \in Ops |->
            CASE o \in torn /\ pc[o] = "stage"       -> [file[o] EXCEPT !.part = Foreign]
              [] o \in torn /\ pc[o] = "guard-stage" -> [file[o] EXCEPT !.guard = Foreign]
              [] OTHER                               -> file[o]]
  /\ Stopped

Close ==
  /\ proc = "up" /\ spent.crashes < MaxCrashes /\ Trouble
  /\ \A o \in Ops : pc[o] \in {"idle", "done", "over"}
  /\ Stopped /\ UNCHANGED <<orig, file>>

-----------------------------------------------------------------------------
(* recoverInterruptedOperations: one journal record after the other.       *)
Open ==
  /\ proc = "down" /\ proc' = "opening"
  /\ UNCHANGED <<disk, rec, helper, cancelled, spent, mem, pc, op, out>>

Recovering(o, l) == proc = "opening" /\ pc[o] = l
Alone(o) == \A p \in Ops \ {o} : pc[p] \in {"idle", "todo", "over"}
Reclaimable == {"completed", "duplicate", "cancelled"}

RecoverSkip(o) ==
  /\ Recovering(o, "todo") /\ Alone(o)
  /\ rec[o].final \/ rec[o].state = "none"
  /\ Goto(o, "over")
  /\ UNCHANGED <<disk, rec, life, mem, op, out>>

(* reclaimTerminalResidue, under identities read afresh.                   *)
RecoverTerminal(o) ==
  LET r == rec[o]
      twin == r.dest \in Names /\ dst[r.dest].ino = <<o, r.staging>>
      safe == twin \/ ~r.committed \/ r.retained IN
  /\ Recovering(o, "todo") /\ Alone(o)
  /\ ~r.final /\ r.state \in Reclaimable
  /\ file' = IF safe THEN WithoutFile(o, r.staging) ELSE file
  /\ marker' = IF r.rsv \in Names THEN [marker EXCEPT ![r.rsv] = NoOp] ELSE marker
  /\ Goto(o, "over")
  /\ UNCHANGED <<orig, dst, objects, rec, life, mem, op, out>>

(* Mutant: a source that is no longer at its path is never reconciled.     *)
RecoverPendingAtPath(o) ==
  /\ Recovering(o, "todo") /\ Alone(o)
  /\ rec[o].state = "source-delete-pending" /\ ~rec[o].final
  /\ Goto(o, IF SourceThere(o) THEN "r-restore" ELSE "over")
  /\ UNCHANGED <<disk, rec, life, mem, op, out>>

(* A durable delete intent is reconciled by the helper first.              *)
RecoverPending(o) ==
  /\ Recovering(o, "todo") /\ Alone(o)
  /\ rec[o].state = "source-delete-pending" /\ ~rec[o].final
  /\ CASE orig[o] = "path" -> Goto(o, "r-restore") /\ UNCHANGED <<orig, rec>>
       [] orig[o] \in {"quarantine", "deleted"} ->
            /\ orig' = [orig EXCEPT ![o] = "deleted"]
            /\ Append(o, [state |-> "source-deleted", retained |-> FALSE])
            /\ Goto(o, "r-restore")
       [] OTHER -> Goto(o, "over") /\ UNCHANGED <<orig, rec>>
  /\ UNCHANGED <<dst, file, marker, objects, life, mem, op, out>>

(* Mutant: records of operations that ended are recovered once more.       *)
RecoverEverything(o) ==
  /\ Recovering(o, "todo") /\ Alone(o) /\ ~rec[o].final
  /\ rec[o].state \notin {"none", "source-delete-pending"}
  /\ Goto(o, IF rec[o].committed THEN "r-restore" ELSE "r-discard")
  /\ UNCHANGED <<disk, rec, life, mem, op, out>>

RecoverOther(o) ==
  /\ Recovering(o, "todo") /\ Alone(o) /\ ~rec[o].final
  /\ rec[o].state \notin Reclaimable \cup {"none", "source-delete-pending"}
  /\ Goto(o, IF rec[o].committed THEN "r-restore" ELSE "r-discard")
  /\ UNCHANGED <<disk, rec, life, mem, op, out>>

(* A missing destination is copied back from the guard or the object.      *)
RecoverRestore(o) ==
  LET r == rec[o]
      shielded == \/ r.staging # "none" /\ file[o][r.staging] = Out[o]
                  \/ r.cons /\ Out[o] \in objects IN
  /\ Recovering(o, "r-restore")
  /\ dst' = IF dst[r.dest] = Absent /\ shielded
              THEN [dst EXCEPT ![r.dest] = [content |-> Out[o], ino |-> <<NoOp, "own">>]]
              ELSE dst
  /\ Goto(o, "r-clean")
  /\ UNCHANGED <<orig, file, marker, objects, rec, life, mem, op, out>>

(* The marker a record names, under the identity the record remembers: a   *)
(* catch block names the last reservation, but not that marker's identity. *)
RecordedMarker(o) == marker[rec[o].rsv] = o /\ rec[o].mark = rec[o].rsv
FreeMarker(o) ==
  marker' = IF rec[o].rsv \in Names /\ RecordedMarker(o)
              THEN [marker EXCEPT ![rec[o].rsv] = NoOp] ELSE marker
MarkerStays(o) ==
  rec[o].rsv \in Names /\ marker[rec[o].rsv] # NoOp /\ ~RecordedMarker(o)

RecoverClean(o) ==
  LET r == rec[o]
      gone == Cleaned(o, r.staging, r.ident, TRUE) IN
  /\ Recovering(o, "r-clean") /\ dst[r.dest].content = Out[o]
  /\ file' = IF gone THEN WithoutFile(o, r.staging) ELSE file
  /\ FreeMarker(o)
  /\ op' = [op EXCEPT ![o].retained = SourceThere(o),
                      ![o].residue = ~gone \/ MarkerStays(o)]
  /\ Goto(o, "r-record")
  /\ UNCHANGED <<orig, dst, objects, rec, life, mem, out>>

RecoverRecord(o) ==
  LET l == op[o] IN
  /\ Recovering(o, "r-record")
  /\ Append(o, [committed |-> TRUE, final |-> ~l.residue,
       retained |-> o \notin Moves \/ l.retained,
       state |-> IF l.residue
         THEN IF rec[o].state \in {"source-delete-pending", "source-deleted"}
                THEN rec[o].state ELSE "committed"
         ELSE IF o \notin Moves \/ ~l.retained THEN "completed" ELSE "cancelled"])
  /\ op' = [op EXCEPT ![o] = Fresh]
  /\ Goto(o, "over")
  /\ UNCHANGED <<disk, life, mem, out>>

RecoverFail(o) ==
  /\ Recovering(o, "r-clean") /\ dst[rec[o].dest].content # Out[o]
  /\ Append(o, [state |-> "failed", committed |-> TRUE, final |-> TRUE,
                retained |-> SourceThere(o)])
  /\ Goto(o, "over")
  /\ UNCHANGED <<disk, life, mem, op, out>>

(* Nothing was committed: what the records name is removed, under the      *)
(* recorded identity where there is one.                                   *)
RecoverDiscard(o) ==
  LET r == rec[o]
      ident == IF r.ident = NoIdentity THEN Identity(o, r.staging) ELSE r.ident IN
  /\ Recovering(o, "r-discard")
  /\ file' = IF Cleaned(o, r.staging, ident, FALSE)
               THEN WithoutFile(o, r.staging) ELSE file
  /\ FreeMarker(o)
  /\ IF r.state = "failed" THEN UNCHANGED rec
       ELSE Append(o, [state |-> "cancelled", committed |-> FALSE])
  /\ Goto(o, "over")
  /\ UNCHANGED <<orig, dst, objects, life, mem, op, out>>

(* Last, every marker goes that no record remembers under an identity other*)
(* than its own: managedNativeIdentities was filled from the records.      *)
Sweep ==
  LET stale(n) == \E o \in Ops : rec[o].rsv = n /\ ~RecordedMarker(o) IN
  /\ proc = "opening" /\ \A o \in Ops : pc[o] \in {"idle", "over"}
  /\ marker' = [n \in Names |-> IF stale(n) THEN marker[n] ELSE NoOp]
  /\ proc' = "up"
  /\ UNCHANGED <<orig, dst, file, objects, rec, helper, cancelled, spent, mem, pc, op, out>>

-----------------------------------------------------------------------------
Admit(o)    == Start(o) \/ Reserve(o) \/ Probe(o) \/ Mark(o) \/ Recheck(o)
Prepare(o)  == \/ Stage(o) \/ RecordStaged(o) \/ RecordVerified(o)
               \/ Transform(o) \/ RecordTransformed(o)
Commit(o)   == Publish(o) \/ RecordCommitted(o) \/ AfterCommit(o) \/ RecordAbort(o)
Remove(o)   == \/ DelVerify(o) \/ DelIntent(o) \/ DelCheck(o) \/ Delete(o)
               \/ Restore(o) \/ RecordDeleted(o) \/ Release(o) \/ Unguard(o)
               \/ Unguarded(o) \/ Finish(o)
Same(o)     == Duplicate(o) \/ RecordDuplicate(o) \/ GuardStage(o) \/ RecordGuard(o)
Catch(o)    == CatchClean(o) \/ CatchRecord(o)
Execute(o)  == Admit(o) \/ Prepare(o) \/ Commit(o) \/ Remove(o) \/ Same(o) \/ Catch(o)
Recover(o)  == \/ RecoverSkip(o) \/ RecoverTerminal(o) \/ RecoverPending(o)
               \/ RecoverOther(o) \/ RecoverRestore(o) \/ RecoverClean(o)
               \/ RecoverRecord(o) \/ RecoverFail(o) \/ RecoverDiscard(o)

Step ==
  \/ \E o \in Ops : Execute(o) \/ Recover(o)
  \/ \E o \in Ops : Cancel(o) \/ AbortQueued(o) \/ LoseHelper(o)
  \/ Meddle \/ Crash \/ Close \/ Open \/ Sweep

Next == Step /\ UNCHANGED plan

Spec == Init /\ [][Next]_vars

(* Node runs every continuation it has been given, and the helper answers  *)
(* or dies; nothing says that a closed application is opened again.        *)
Fairness ==
  /\ \A o \in Ops : /\ WF_vars(Execute(o) /\ UNCHANGED plan)
                     /\ WF_vars(Recover(o) /\ UNCHANGED plan)
  /\ WF_vars(Sweep /\ UNCHANGED plan)
FairSpec == Spec /\ Fairness

-----------------------------------------------------------------------------
Labels == {"idle", "reserve", "probe", "mark", "recheck", "stage", "staged",
  "verify", "transform", "transformed", "publish", "linked", "committed",
  "abort", "del-verify", "del-intent", "del-check", "delete", "restore",
  "deleted", "release", "unguard", "unguarded", "finish", "duplicate",
  "dup-record", "guard-stage", "guard", "catch", "catch-record", "done",
  "todo", "r-restore", "r-clean", "r-record", "r-discard", "over"}
Kinds  == {"none", "part", "guard"}
States == {"none", "planned", "reserved", "staged", "verified", "transformed",
  "committed", "source-delete-pending", "source-deleted", "completed",
  "duplicate", "cancelled", "failed"}
Terminal == {"completed", "duplicate", "cancelled", "failed"}
Bytes    == Contents \cup {Nothing, Foreign}
Inodes   == (Ops \X {"part", "guard"}) \cup {<<NoOp, "own">>, <<NoOp, "none">>}
Idents   == [made : Bytes, links : 0 .. MaxName + 3]

Files    == [content : Bytes, ino : Inodes]
Records  == [state : States, committed : BOOLEAN, dest : 0 .. NoName, staging : Kinds,
             ident : Idents, rsv : 0 .. NoName, mark : 0 .. NoName, cons : BOOLEAN,
             retained : BOOLEAN, final : BOOLEAN]
Calls    == [cursor : 0 .. NoName, cand : 0 .. NoName, held : BOOLEAN, staging : Kinds,
             ident : Idents, committed : BOOLEAN, intent : BOOLEAN, residue : BOOLEAN,
             unknown : BOOLEAN, retained : BOOLEAN]
Results  == [status : Terminal \cup {"none", "moved", "copied"},
             committed : BOOLEAN, retained : BOOLEAN, open : BOOLEAN]

(* Every variable has the shape the code gives it; no link count leaves    *)
(* its range.                                                              *)
TypeOK ==
  /\ plan \in Plans
  /\ orig \in [Ops -> {"path", "quarantine", "deleted", "user"}]
  /\ dst \in [Names -> Files]
  /\ file \in [Ops -> [part : Bytes, guard : Bytes]]
  /\ marker \in [Names -> Ops \cup {NoOp}]
  /\ objects \subseteq Contents
  /\ rec \in [Ops -> Records]
  /\ proc \in {"up", "down", "opening"} /\ helper \in {"ok", "fatal"}
  /\ cancelled \subseteq Ops
  /\ alloc \in Ops \cup {NoOp} /\ counter \in 0 .. NoName
  /\ cache \in [Contents -> 0 .. NoName]
  /\ pc \in [Ops -> Labels]
  /\ op \in [Ops -> Calls]
  /\ out \in [Ops -> Results]

(* No original is removed, not even set aside, before the bytes to be      *)
(* delivered are a conservation object and the journal says so: whatever   *)
(* happens to the destination afterwards, recovery can put it back.        *)
Conservation ==
  \A o \in Ops : orig[o] \in {"quarantine", "deleted"} =>
    /\ o \in Moves
    /\ Out[o] \in objects
    /\ rec[o].cons /\ rec[o].committed /\ rec[o].dest \in Names

(* A call that relies on a reservation still has its marker, in spite of   *)
(* lost publication races, dead helpers and reservations that are given    *)
(* back; hence no two calls hold the same name.                            *)
Holding(o) == op[o].held /\ pc[o] \notin {"finish", "abort", "catch-record"}
ReservationsExclusive ==
  \A o \in Ops : Holding(o) => marker[op[o].cand] = o

(* The types, and the reservations on which the safety of every publication*)
(* rests.  Code: probeCandidate, writeMarkerNew and the callers' cleanup.  *)
ReservationInv == TypeOK /\ ReservationsExclusive

(* A terminal record that says the source was retained is right about it,  *)
(* and a completed move has no original left at its path.                  *)
JournalTruthful ==
  \A o \in Ops :
    /\ rec[o].state \in Terminal /\ rec[o].retained => orig[o] \in {"path", "user"}
    /\ rec[o].state = "completed" /\ o \in Moves => orig[o] # "path"

(* What execute returns: "moved" means that the original is gone, and      *)
(* "retained" that it is not.                                              *)
ResultsTruthful ==
  \A o \in Ops :
    /\ out[o].status = "moved" => orig[o] = "deleted" /\ rec[o].state = "completed"
    /\ out[o].retained => orig[o] \in {"path", "user"}

(* A result that is not open says what the journal says: no end of a call  *)
(* is missing there, or different, without the caller being told.          *)
Recorded(status) == IF status \in {"moved", "copied"} THEN "completed" ELSE status
AccountsAgree ==
  \A o \in Ops : pc[o] = "done" /\ ~out[o].open =>
    /\ rec[o].state = Recorded(out[o].status)
    /\ rec[o].committed = out[o].committed /\ rec[o].retained = out[o].retained

(* The journal and the returned results account for each source truthfully,*)
(* and for each other, also when the record of a failure fails itself.     *)
(* Code: the catch block of execute, which derives both from one state.    *)
AccountsTruthful == JournalTruthful /\ ResultsTruthful /\ AccountsAgree

(* No step of the program changes or replaces a file that exists under a   *)
(* candidate name: only others (Meddle) do.                                *)
NoClobber ==
  [][\A n \in Names : dst[n] # Absent /\ dst'[n] # dst[n]
       => spent'.meddles # spent.meddles]_vars

(* Once an operation is completed, cancelled or a duplicate in the journal,*)
(* no later run records another state for it, and a finalised recovery     *)
(* writes nothing more at all.                                             *)
TerminalIsStable ==
  [][\A o \in Ops :
       /\ rec[o].state \in Reclaimable => rec'[o].state = rec[o].state
       /\ rec[o].final => rec'[o] = rec[o]]_vars

(* When recovery is over and nobody interfered, no operation is in doubt:  *)
(* its record is terminal, or its bytes are at its destination, the record *)
(* is right about its source, and only a marker that another operation left*)
(* under its name keeps the record open.                                   *)
RecoverySettles ==
  [][Sweep /\ spent.meddles = 0 => \A o \in Ops :
       \/ rec[o].state \in Terminal \cup {"none"}
       \/ /\ dst[rec[o].dest].content = Out[o]
          /\ rec[o].retained = (orig[o] = "path")
          /\ rec[o].state = "source-delete-pending" => orig[o] = "path"
          /\ rec[o].rsv \in Names /\ \E p \in Ops \ {o} : rec[p].state # "none"]_vars

(* The sweep at the end of an open frees every reserved name.              *)
SweepFreesNames ==
  [][Sweep => \A n \in Names : marker'[n] = NoOp]_vars

(* A destination removed right after the source was unlinked is linked     *)
(* again from an intact guard, and the move goes on.                       *)
GuardRestores ==
  [][\A o \in Ops : At(o, "restore") /\ GuardOk(o) /\ dst[op[o].cand] = Absent
       /\ helper = "ok" => pc'[o] \notin {"catch"}]_vars

(* Every call that was started returns or dies with the process, and every *)
(* recovery ends: no one waits for the allocation lock for ever.           *)
CallsReturn ==
  /\ \A o \in Ops : proc = "up" /\ pc[o] # "idle"
                      ~> pc[o] \in {"done", "over"} \/ proc # "up"
  /\ proc = "opening" ~> proc # "opening"
=============================================================================
