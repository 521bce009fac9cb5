--------------------------- MODULE ExecutorCores ---------------------------
(***************************************************************************)
(* TransactionalOperationExecutor: operations of any job reach their       *)
(* destination through one transaction core per destination, created on    *)
(* demand, cached as a promise and bound to the source roots it was        *)
(* created for; close() waits for the operations in flight and then closes *)
(* every core and the metadata writer.  A core is what holds the lock, the *)
(* journal and the helper of its destination; creation and closing may     *)
(* fail, and the helper of an open core may be lost at any time.           *)
(***************************************************************************)
EXTENDS Naturals, FiniteSets

CONSTANTS
  Orders,       \* calls of execute()
  Destinations, \* canonical destination roots
  SourceSets,   \* sets of source roots, by fingerprint
  Cores,        \* bound: cores ever created
  NoCore

ASSUME NoCoreAssumption == NoCore \notin Cores

VARIABLES
  orderAt,   \* new, checking, waiting, running, or settled: done, failed
  target,    \* the destination and the source roots an operation names
  orderCore, \* the core it was given
  cores,     \* the cache: destination -> core
  coreAt,    \* unborn, creating, open, closing, or over: closed, failed, stuck
  bound,     \* the destination and the source roots a core was created for
  helperLost, \* cores whose helper is gone
  writerAt,  \* the metadata writer: open, closing, closed, stuck
  closeAt    \* close(): no, draining, closing, resolved, rejected

orderVars == <<orderAt, target, orderCore>>
coreVars  == <<cores, coreAt, bound, helperLost>>
executorVars == <<orderVars, coreVars, writerAt, closeAt>>

Bindings == Destinations \X SourceSets

ExecutorInit ==
  /\ orderAt = [o \in Orders |-> "new"]
  /\ target \in [Orders -> Bindings]
  /\ orderCore = [o \in Orders |-> NoCore]
  /\ cores = [d \in Destinations |-> NoCore]
  /\ coreAt = [c \in Cores |-> "unborn"]
  /\ bound = [c \in Cores |-> <<>>]
  /\ helperLost = {} /\ writerAt = "open" /\ closeAt = "no"

-----------------------------------------------------------------------------
Settled(o) == orderAt[o] \in {"new", "done", "failed"}
InFlight   == {o \in Orders : ~Settled(o)}
GoTo(o, a) == orderAt' = [orderAt EXCEPT ![o] = a]

(* execute: refused once close() was called.                               *)
ExecuteOrder(o) ==
  /\ orderAt[o] = "new"
  /\ GoTo(o, IF closeAt = "no" THEN "checking" ELSE "failed")
  /\ UNCHANGED <<target, orderCore, coreVars, writerAt, closeAt>>

(* executeBound up to coreFor: an abort, an authorization that fails or a  *)
(* root that changed since the preview.                                    *)
CheckFails(o) ==
  /\ orderAt[o] = "checking" /\ GoTo(o, "failed")
  /\ UNCHANGED <<target, orderCore, coreVars, writerAt, closeAt>>

CreateCore(o) ==
  \E c \in Cores :
    /\ coreAt[c] = "unborn"
    /\ coreAt' = [coreAt EXCEPT ![c] = "creating"]
    /\ bound' = [bound EXCEPT ![c] = target[o]]
    /\ cores' = [cores EXCEPT ![target[o][1]] = c]
    /\ orderCore' = [orderCore EXCEPT ![o] = c] /\ GoTo(o, "waiting")

UseCore(o, c) ==
  /\ orderCore' = [orderCore EXCEPT ![o] = c] /\ GoTo(o, "waiting")
  /\ UNCHANGED <<cores, coreAt, bound>>

(* Mutant: the source roots a cached core is bound to are not compared.    *)
CoreForAnySources(o) ==
  LET cached == cores[target[o][1]] IN
  /\ orderAt[o] = "checking"
  /\ IF cached = NoCore THEN CreateCore(o) ELSE UseCore(o, cached)
  /\ UNCHANGED <<target, helperLost, writerAt, closeAt>>

(* Mutant: only a core that is already open is found in the cache.         *)
CoreForOpenOnly(o) ==
  LET cached == cores[target[o][1]] IN
  /\ orderAt[o] = "checking"
  /\ IF cached = NoCore \/ (cached \in Cores /\ coreAt[cached] = "creating")
       THEN CreateCore(o)
     ELSE IF bound[cached] # target[o] THEN GoTo(o, "failed") /\ UNCHANGED <<orderCore, cores, coreAt, bound>>
     ELSE UseCore(o, cached)
  /\ UNCHANGED <<target, helperLost, writerAt, closeAt>>

(* coreFor: the promise is cached before it settles, so that operations    *)
(* that come meanwhile wait for the same core.                             *)
CoreFor(o) ==
  LET cached == cores[target[o][1]] IN
  /\ orderAt[o] = "checking"
  /\ \/ cached = NoCore /\ CreateCore(o)
     \/ cached # NoCore /\ bound[cached] = target[o] /\ UseCore(o, cached)
     \/ /\ cached # NoCore /\ bound[cached] # target[o]
        /\ GoTo(o, "failed") /\ UNCHANGED <<orderCore, cores, coreAt, bound>>
  /\ UNCHANGED <<target, helperLost, writerAt, closeAt>>

CoreOpens(c) ==
  /\ coreAt[c] = "creating" /\ coreAt' = [coreAt EXCEPT ![c] = "open"]
  /\ UNCHANGED <<orderVars, cores, bound, helperLost, writerAt, closeAt>>

(* A creation that fails is forgotten before those who wait for it learn   *)
(* of the failure.                                                         *)
CoreFails(c) ==
  /\ coreAt[c] = "creating" /\ coreAt' = [coreAt EXCEPT ![c] = "failed"]
  /\ cores' = [d \in Destinations |-> IF cores[d] = c THEN NoCore ELSE cores[d]]
  /\ orderAt' = [o \in Orders |-> IF orderAt[o] = "waiting" /\ orderCore[o] = c
                                    THEN "failed" ELSE orderAt[o]]
  /\ UNCHANGED <<target, orderCore, bound, helperLost, writerAt, closeAt>>

(* core.execute: a core without its helper refuses.                        *)
RunOrder(o) ==
  /\ orderAt[o] = "waiting" /\ coreAt[orderCore[o]] # "creating"
  /\ GoTo(o, IF orderCore[o] \in helperLost THEN "failed" ELSE "running")
  /\ UNCHANGED <<target, orderCore, coreVars, writerAt, closeAt>>

OrderEnds(o) ==
  /\ orderAt[o] = "running"
  /\ GoTo(o, "failed") \/ (orderCore[o] \notin helperLost /\ GoTo(o, "done"))
  /\ UNCHANGED <<target, orderCore, coreVars, writerAt, closeAt>>

LoseCoreHelper(c) ==
  /\ coreAt[c] = "open" /\ c \notin helperLost /\ helperLost' = helperLost \cup {c}
  /\ UNCHANGED <<orderVars, cores, coreAt, bound, writerAt, closeAt>>

-----------------------------------------------------------------------------
(* close: drain, then close everything that is cached.                     *)
CloseExecutor ==
  /\ closeAt = "no" /\ closeAt' = "draining"
  /\ UNCHANGED <<orderVars, coreVars, writerAt>>

Cached == {cores[d] : d \in Destinations} \ {NoCore}

(* Mutant: the operations in flight are not waited for.                    *)
CloseCoresAtOnce ==
  /\ closeAt = "draining" /\ closeAt' = "closing"
  /\ coreAt' = [c \in Cores |-> IF c \in Cached THEN "closing" ELSE coreAt[c]]
  /\ writerAt' = "closing"
  /\ UNCHANGED <<orderVars, cores, bound, helperLost>>

CloseCores ==
  /\ closeAt = "draining" /\ InFlight = {} /\ closeAt' = "closing"
  /\ coreAt' = [c \in Cores |-> IF c \in Cached THEN "closing" ELSE coreAt[c]]
  /\ writerAt' = "closing"
  /\ UNCHANGED <<orderVars, cores, bound, helperLost>>

CoreCloses(c) ==
  /\ coreAt[c] = "closing"
  /\ \/ c \notin helperLost /\ coreAt' = [coreAt EXCEPT ![c] = "closed"]
     \/ coreAt' = [coreAt EXCEPT ![c] = "stuck"]
  /\ UNCHANGED <<orderVars, cores, bound, helperLost, writerAt, closeAt>>

WriterCloses ==
  /\ writerAt = "closing" /\ writerAt' \in {"closed", "stuck"}
  /\ UNCHANGED <<orderVars, coreVars, closeAt>>

(* Promise.all: rejected with the first failure, resolved with the last    *)
(* success.                                                                *)
CloseSettles ==
  /\ closeAt = "closing"
  /\ \/ /\ (\E c \in Cached : coreAt[c] = "stuck") \/ writerAt = "stuck"
        /\ closeAt' = "rejected"
     \/ /\ (\A c \in Cached : coreAt[c] = "closed") /\ writerAt = "closed"
        /\ closeAt' = "resolved"
  /\ UNCHANGED <<orderVars, coreVars, writerAt>>

Order(o) == CheckFails(o) \/ CoreFor(o) \/ RunOrder(o) \/ OrderEnds(o)
Core(c)  == CoreOpens(c) \/ CoreFails(c) \/ CoreCloses(c)

ExecutorMoves ==
  \/ (\E o \in Orders : Order(o)) \/ (\E c \in Cores : Core(c))
  \/ CloseCores \/ WriterCloses \/ CloseSettles

ExecutorNext ==
  \/ ExecutorMoves \/ CloseExecutor
  \/ (\E o \in Orders : ExecuteOrder(o)) \/ (\E c \in Cores : LoseCoreHelper(c))

ExecutorSpec == ExecutorInit /\ [][ExecutorNext]_executorVars /\ WF_executorVars(ExecutorMoves)

-----------------------------------------------------------------------------
InUse(c) == coreAt[c] \in {"creating", "open", "closing"}

(* The executor never has two cores at one destination, so it never meets  *)
(* its own lock; an operation runs on an open core, bound to its own       *)
(* destination and source roots, and none is closed under it.  When        *)
(* close() resolves, nothing runs and no core holds a destination.         *)
CoresHold ==
  /\ \A c, e \in Cores : InUse(c) /\ InUse(e) /\ bound[c][1] = bound[e][1] => c = e
  /\ \A o \in Orders : orderAt[o] = "running" =>
       coreAt[orderCore[o]] = "open" /\ bound[orderCore[o]] = target[o]
  /\ closeAt = "resolved" =>
       /\ InFlight = {} /\ writerAt = "closed"
       /\ \A c \in Cores : coreAt[c] \in {"unborn", "closed", "failed"}

(* Every operation settles, also one that waits for a core whose creation  *)
(* fails or whose helper is lost, and so does close().                     *)
ExecutorSettles == <>[](InFlight = {} /\ closeAt \in {"no", "resolved", "rejected"})
=============================================================================
