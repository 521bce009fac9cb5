---------------------- MODULE ProcessingCoordinatorProofs ----------------------
(***************************************************************************)
(* ProcessingCoordinator keeps CoordInv.  What is at stake is the chain of *)
(* events: an event is published long before it is delivered, and what     *)
(* publishers, reducer, history and manifest each believe must agree when  *)
(* its turn comes.  ChainInv says of every waiting event who waits for it  *)
(* and why it will be legal; HistoryInv, how far the durable history is    *)
(* behind or ahead of the machine; TakenInv, that the ledger says what was *)
(* done to the files; EvidenceInv, that the manifest has what was settled. *)
(* One lemma per action follows; a delivery is the head leaving the chain  *)
(* (HeadLeaves) and what its awaiter does next.                            *)
(***************************************************************************)
EXTENDS ProcessingCoordinator, TLAPS, SequenceTheorems

(***************************************************************************)
(* The chain.  Who has published waits, so every actor has one event in it *)
(* at most; nobody but the run publishes after a cancellation, and nobody  *)
(* after the terminal.                                                     *)
(***************************************************************************)
Ordered(ev) ==
  \A i, j \in DOMAIN ev : i < j =>
    /\ ev[i].by # ev[j].by
    /\ ev[i].kind \notin TerminalStatuses /\ ev[j].kind # "processing"
    /\ ev[i].kind = "cancelling" => ev[j].by = "run"
InChain(ev) == {ev[i] : i \in DOMAIN ev}

(* An event whose actor waits for it, and which is legal now or as soon as *)
(* those before it are delivered.                                          *)
DueToPreview(e) ==
  /\ e.by = "preview" /\ ~e.durable
  /\ \/ e.kind = "previewing" /\ preview.stage = "starting"
     \/ e.kind = "failed" /\ preview.stage = "failing"
     \/ e.kind = "ready" /\ preview.stage = "finishing"
DueToCall(e) ==
  e.by \in Calls /\ call[e.by] = "queueing" /\ e.kind = "queued" /\ e.durable
DueToWorker(e) ==
  /\ e.by \in Workers /\ worker[e.by].at \in {"announcing", "reporting"}
  /\ e.kind = "job_progress" /\ machine.status = "processing"
DueToCancel(e) ==
  /\ e.by = "cancel" /\ job.cancel = "published" /\ e.kind = "cancelling" /\ e.durable
  /\ machine.status \in {"queued", "processing"}
DueToRun(e) ==
  /\ e.by = "run" /\ e.durable
  /\ \/ e.kind = "processing" /\ job.run = "starting"
     \/ /\ e.kind \in TerminalStatuses /\ job.run = "ending"
        /\ machine.status \in {"queued", "processing", "cancelling"}
        /\ machine.status = "queued" \/ job.aborted => e.kind \in {"failed", "cancelled"}
        /\ e.kind = "completed" => \A o \in Ops : job.claims[o] \in {"committed", "skipped"}
Due(e) == DueToPreview(e) \/ DueToCall(e) \/ DueToWorker(e) \/ DueToCancel(e) \/ DueToRun(e)

ChainInv == Ordered(events) /\ \A e \in InChain(events) : Due(e)

(* The preview, and what the sinks hold before the job.                    *)
StageInv ==
  /\ preview.stage \in {"none", "starting"} => machine.status = "draft"
  /\ preview.stage \in {"planning", "recording", "failing", "finishing"} =>
       machine.status = "previewing" /\ machine.last >= 1
  /\ preview.stage \in {"none", "starting", "planning", "recording", "failing"} =>
       /\ history.status = "draft" /\ ~poisoned
       /\ evidence.state = "none" /\ evidence.ledger = {} /\ evidence.ending = "none"
  /\ preview.stage = "finishing" =>
       /\ history.status = "ready" /\ history.last = 2 /\ ~poisoned
       /\ evidence.state = "open" /\ evidence.ledger = {} /\ evidence.ending = "none"
  /\ ~up => preview.stage = "gone"
  /\ up /\ preview.stage = "gone" => history.status \notin ActiveStatuses

Early == {"revalidating", "queueing"}
CallInv ==
  \A c \in Calls : call[c] \in Early =>
    /\ preview.stage = "available" /\ preview.starting /\ ~preview.consumed /\ job.run = "none"
    /\ \A d \in Calls \ {c} : call[d] \notin Early

(* The job, its workers and the status of the machine.                     *)
Emitted == {"ending", "closing", "ended", "lost"}
RunInv ==
  /\ job.run # "none" => preview.stage = "available" /\ preview.consumed
  /\ job.run = "none" => job = NoJob
  /\ job.run = "starting" =>
       job.next = 1 /\ ~job.failed /\ job.ledger = Nothing /\ job.claims = Nothing
  /\ job.aborted <=> job.cancel # "none"
  /\ job.emitted <=> job.run \in Emitted
  /\ job.emitted => job.claims = job.ledger
  /\ preview.stage = "available" /\ job.run = "none" => machine.status = "ready"
  /\ job.run = "starting" =>
       machine.status = "queued" /\ events # <<>> /\ Head1.kind = "processing"
  /\ job.run = "working" => machine.status \in {"processing", "cancelling"}
  /\ machine.status = "cancelling" => job.aborted
WorkersInv ==
  /\ \A w \in Workers :
       /\ job.run \in {"none", "starting"} => worker[w] = Idle
       /\ job.run = "working" => worker[w].at # "off"
       /\ job.emitted => worker[w].at \in {"off", "done", "failed"}

(* The history is what the machine is, or one event ahead of it.           *)
AheadOf(kind) ==
  /\ history.status = After(machine, kind, Next1).status /\ history.last = Next1
  /\ kind \in TerminalStatuses => history.claims = job.claims
HistoryInv ==
  /\ preview.stage = "available" /\ ~poisoned /\ ~written =>
       history.status = machine.status /\ history.last <= machine.last
  /\ written => ~poisoned /\ events # <<>> /\ Head1.durable /\ AheadOf(Head1.kind)
  /\ preview.stage = "available" /\ job.run \notin Emitted =>
       history.status \notin TerminalStatuses
  /\ job.run = "closing" =>
       /\ machine.status \in TerminalStatuses /\ history.status = machine.status
       /\ history.claims = job.claims

(* The ledger: every operation has been taken by one worker at most, and   *)
(* what the ledger says of it is what happened to its files.               *)
Holding == {"announcing", "executing", "recording"}
HolderInv(w) ==
  worker[w].at \in Holding =>
    LET o == worker[w].op IN
    /\ o \in Ops /\ o < job.next
    /\ \A v \in Workers \ {w} : worker[v].at \in Holding => worker[v].op # o
    /\ job.ledger[o] = "none" <=> worker[w].at # "recording"
WorkerInv(w) ==
  /\ worker[w].at = "done" => job.aborted \/ job.failed \/ job.next = OpCount + 1
  /\ worker[w].at = "failed" => job.failed
LedgerInv(o) ==
  /\ job.ledger[o] \in {"none", "cancelled", "skipped"} => truth[o] = "untouched"
  /\ job.ledger[o] \in {"committed", "residue"} => truth[o] = "done"
  /\ job.ledger[o] \in {"cancelled", "residue"} => job.aborted
  /\ o >= job.next => job.ledger[o] = "none"
  /\ o < job.next /\ job.ledger[o] = "none" =>
       job.failed \/ \E w \in Workers : worker[w].at \in {"announcing", "executing"} /\ worker[w].op = o
TakenInv ==
  /\ \A w \in Workers : HolderInv(w) /\ WorkerInv(w)
  /\ preview.stage # "gone" => \A o \in Ops : LedgerInv(o)

(* A manifest that is open has every settled operation but those whose     *)
(* entry is being recorded.                                                *)
EvidenceInv ==
  /\ evidence.state = "open" => evidence.ending = "none"
  /\ evidence.state = "open" /\ preview.stage = "available" =>
       \A o \in Ops : o \in evidence.ledger <=>
         /\ job.ledger[o] # "none"
         /\ ~\E w \in Workers : worker[w].at = "recording" /\ worker[w].op = o

StopInv ==
  /\ stop \in {"settling", "quiet", "closed"} => ~Admitted
  /\ stop \in {"quiet", "closed"} => events = <<>> /\ job.run \in {"none", "ended", "lost"}

CoordInv ==
  /\ TypeOK /\ ChainInv /\ StageInv /\ CallInv /\ RunInv /\ WorkersInv /\ HistoryInv
  /\ TakenInv /\ EvidenceInv /\ StopInv
  /\ TerminalTellsTheTruth /\ EvidenceIsComplete

-----------------------------------------------------------------------------
(* The reducer, written out.                                               *)
LEMMA StatusesAre ==
  /\ Statuses = {"draft", "previewing", "ready", "queued", "processing", "cancelling",
                 "completed", "partial", "failed", "cancelled"}
  /\ Kinds = (Statuses \ {"draft"}) \cup {"preview_progress", "job_progress"}
  BY DEF Statuses, Transitions, Kinds, ProgressKinds, ProgressStatus

LEMMA AfterIs ==
  ASSUME NEW s, NEW n, NEW kind \in Kinds, NEW seq
  PROVE  /\ After([status |-> s, last |-> n], kind, seq).last = seq
         /\ kind = "job_progress" => After([status |-> s, last |-> n], kind, seq).status = s
         /\ kind \in Statuses => After([status |-> s, last |-> n], kind, seq).status = kind
  BY StatusesAre DEF After, ProgressKinds, ProgressStatus

LEMMA MachineAfter ==
  ASSUME TypeOK, NEW kind \in Kinds
  PROVE  LET m == After(machine, kind, Next1) IN
         /\ m \in [status : Statuses, last : Nat] /\ m.last = machine.last + 1 /\ m.last >= 1
         /\ kind = "job_progress" => m.status = machine.status
         /\ kind \in Statuses => m.status = kind
  BY StatusesAre DEF TypeOK, After, Next1, ProgressKinds, ProgressStatus

LEMMA LegalMoves ==
  ASSUME NEW s \in Statuses, NEW n \in Nat, NEW seq \in Nat, seq > n
  PROVE  LET m == [status |-> s, last |-> n] IN
         /\ s = "draft" => Accepts(m, "previewing", seq)
         /\ s = "previewing" => Accepts(m, "failed", seq) /\ Accepts(m, "ready", seq)
         /\ s = "ready" => Accepts(m, "queued", seq)
         /\ s = "queued" => \A k \in {"processing", "cancelling", "failed", "cancelled"} : Accepts(m, k, seq)
         /\ s = "processing" =>
              \A k \in TerminalStatuses \cup {"job_progress", "cancelling"} : Accepts(m, k, seq)
         /\ s = "cancelling" => \A k \in {"failed", "cancelled"} : Accepts(m, k, seq)
  BY DEF Accepts, TerminalStatuses, ProgressKinds, ProgressStatus, Transitions

LEMMA AcceptsRefuses ==
  ASSUME NEW m, NEW kind, NEW seq, Accepts(m, kind, seq)
  PROVE  m.status \notin TerminalStatuses
  BY DEF Accepts

(* Appending to the chain and taking its head away.                        *)
LEMMA ChainGrows ==
  ASSUME NEW ev \in Seq(Events), NEW e \in Events, Ordered(ev),
         \A f \in InChain(ev) : f.by # e.by /\ f.kind \notin TerminalStatuses
                                /\ (f.kind = "cancelling" => e.by = "run"),
         e.kind = "processing" => InChain(ev) = {}
  PROVE  LET aev == Append(ev, e) IN
         /\ aev \in Seq(Events) /\ Ordered(aev) /\ aev # <<>>
         /\ InChain(aev) = InChain(ev) \cup {e}
         /\ aev[1] = IF ev = <<>> THEN e ELSE ev[1]
<1>. DEFINE aev == Append(ev, e)
<1>1. /\ aev \in Seq(Events) /\ Len(ev) \in Nat /\ DOMAIN ev = 1 .. Len(ev)
      /\ DOMAIN aev = 1 .. Len(ev) + 1 /\ aev[Len(ev) + 1] = e
      /\ \A i \in 1 .. Len(ev) : aev[i] = ev[i] /\ ev[i] \in InChain(ev)
  BY AppendProperties, LenProperties DEF InChain
<1>2. aev # <<>> /\ (ev = <<>> <=> Len(ev) = 0)
  BY EmptySeq, AppendProperties
<1>. HIDE DEF aev
<1>3. \A i, j \in DOMAIN aev : i < j => i \in 1 .. Len(ev) /\ (j \in 1 .. Len(ev) \/ j = Len(ev) + 1)
  BY <1>1
<1>4. Ordered(aev)
  BY <1>1, <1>3 DEF Ordered
<1>5. InChain(aev) = InChain(ev) \cup {e}
  <2>1. \A i \in DOMAIN aev : i \in 1 .. Len(ev) \/ i = Len(ev) + 1
    BY <1>1
  <2>2. \A f \in InChain(aev) : f \in InChain(ev) \cup {e}
    BY <1>1, <2>1 DEF InChain
  <2>3. e \in InChain(aev)
    <3>1. Len(ev) + 1 \in DOMAIN aev
      BY <1>1
    <3>. QED
      BY <1>1, <3>1 DEF InChain
  <2>4. \A i \in DOMAIN ev : ev[i] \in InChain(aev)
    BY <1>1 DEF InChain
  <2>5. \A f \in InChain(ev) : f \in InChain(aev)
    BY <2>4 DEF InChain
  <2>. QED
    BY <2>2, <2>3, <2>5
<1>6. aev[1] = IF ev = <<>> THEN e ELSE ev[1]
  BY <1>1, <1>2
<1>. QED
  BY <1>1, <1>2, <1>4, <1>5, <1>6 DEF aev

LEMMA ChainShrinks ==
  ASSUME NEW ev \in Seq(Events), Ordered(ev), ev # <<>>
  PROVE  LET rest == Tail(ev) IN
         /\ rest \in Seq(Events) /\ Ordered(rest)
         /\ ev[1] \in InChain(ev) /\ ev[1] \in Events
         /\ \A f \in InChain(rest) :
              /\ f \in InChain(ev) /\ f.by # ev[1].by
              /\ ev[1].kind \notin TerminalStatuses /\ f.kind # "processing"
              /\ ev[1].kind = "cancelling" => f.by = "run"
<1>. DEFINE rest == Tail(ev)
<1>1. /\ rest \in Seq(Events) /\ Len(ev) \in Nat \ {0} /\ DOMAIN ev = 1 .. Len(ev)
      /\ DOMAIN rest = 1 .. Len(ev) - 1
      /\ \A i \in 1 .. Len(ev) - 1 : rest[i] = ev[i + 1]
  BY HeadTailProperties, LenProperties, EmptySeq
<1>. HIDE DEF rest
<1>2. \A i \in DOMAIN rest : i + 1 \in DOMAIN ev /\ 1 < i + 1 /\ rest[i] = ev[i + 1]
  BY <1>1
<1>3. 1 \in DOMAIN ev /\ ev[1] \in Events
  BY <1>1, LenProperties
<1>4. Ordered(rest)
  <2>1. ASSUME NEW i \in DOMAIN rest, NEW j \in DOMAIN rest, i < j
        PROVE  i + 1 \in DOMAIN ev /\ j + 1 \in DOMAIN ev /\ i + 1 < j + 1
               /\ rest[i] = ev[i + 1] /\ rest[j] = ev[j + 1]
    BY <1>1, <2>1
  <2>. QED
    BY <2>1 DEF Ordered
<1>5. \A f \in InChain(rest) :
        /\ f \in InChain(ev) /\ f.by # ev[1].by
        /\ ev[1].kind \notin TerminalStatuses /\ f.kind # "processing"
        /\ ev[1].kind = "cancelling" => f.by = "run"
  BY <1>2, <1>3 DEF Ordered, InChain
<1>6. ev[1] \in InChain(ev)
  BY <1>3 DEF InChain
<1>. QED
  BY <1>1, <1>3, <1>4, <1>5, <1>6 DEF rest

LEMMA EmptyChain ==
  /\ Ordered(<<>>) /\ InChain(<<>>) = {} /\ <<>> \in Seq(Events)
  /\ \A ev \in Seq(Events) : ev # <<>> => InChain(ev) # {}
<1>1. \A ev \in Seq(Events) : ev # <<>> => 1 \in DOMAIN ev
  BY EmptySeq, LenProperties
<1>. QED
  BY <1>1, EmptySeq DEF Ordered, InChain

LEMMA CoordStarts == Init => CoordInv
<1>. SUFFICES ASSUME Init PROVE CoordInv
  OBVIOUS
<1>1. TypeOK
  <2>1. Nothing \in Ledgers /\ "draft" \in Statuses
    BY StatusesAre DEF Nothing, Ledgers
  <2>2. NoJob \in Jobs /\ NoPreview \in Previews /\ Idle \in Places
    BY <2>1, PlanAssumption DEF NoJob, Jobs, NoPreview, Previews, Idle, Places
  <2>3. history \in Histories /\ evidence \in Manifests
    BY <2>1 DEF Init, Histories, Manifests
  <2>4. machine \in [status : Statuses, last : Nat]
        /\ spent \in [faults : 0 .. MaxFaults, crashes : 0 .. MaxCrashes]
    BY <2>1, BoundAssumption DEF Init, NewMachine
  <2>. QED
    BY <2>1, <2>2, <2>3, <2>4, EmptyChain DEF Init, TypeOK
<1>2. ChainInv
  BY EmptyChain DEF Init, ChainInv
<1>3. StageInv /\ CallInv /\ RunInv /\ WorkersInv /\ HistoryInv /\ EvidenceInv /\ StopInv
  BY DEF Init, StageInv, CallInv, RunInv, WorkersInv, HistoryInv, EvidenceInv, StopInv, NewMachine, NoPreview,
     NoJob, Nothing, Early, Emitted, Admitted
<1>4. TakenInv
  BY DEF Init, TakenInv, HolderInv, WorkerInv, LedgerInv, Holding, Idle, NoJob, Nothing, Ops
<1>5. TerminalTellsTheTruth /\ EvidenceIsComplete
  BY DEF Init, TerminalTellsTheTruth, EvidenceIsComplete, TerminalStatuses
<1>. QED
  BY <1>1, <1>2, <1>3, <1>4, <1>5 DEF CoordInv

(* Before there is a job, only the preview or a call has published.        *)
LEMMA BeforeTheJob ==
  ASSUME CoordInv, job.run = "none"
  PROVE  /\ job.cancel = "none" /\ ~job.aborted /\ ~job.failed /\ ~job.emitted /\ job.next = 1
         /\ job.ledger = Nothing /\ job.claims = Nothing
         /\ \A w \in Workers : worker[w] = Idle
         /\ \A e \in InChain(events) : DueToPreview(e) \/ DueToCall(e)
<1>1. job = NoJob /\ \A w \in Workers : worker[w] = Idle
  BY DEF CoordInv, RunInv, WorkersInv
<1>. QED
  BY <1>1 DEF CoordInv, ChainInv, NoJob, Idle, Due, DueToWorker, DueToCancel, DueToRun

LEMMA QuietChain ==
  ASSUME CoordInv, job.run = "none", preview.stage \notin {"starting", "failing", "finishing"},
         \A c \in Calls : call[c] # "queueing"
  PROVE  events = <<>> /\ InChain(events) = {}
<1>1. InChain(events) = {}
  BY BeforeTheJob DEF DueToPreview, DueToCall
<1>. QED
  BY <1>1, EmptyChain DEF CoordInv, TypeOK

(* What publishing, and delivering the head, make of the chain.            *)
LEMMA Published ==
  ASSUME CoordInv, NEW e \in Events, events' = Append(events, e),
         \A f \in InChain(events) : f.by # e.by /\ f.kind \notin TerminalStatuses
                                    /\ (f.kind = "cancelling" => e.by = "run"),
         e.kind = "processing" => InChain(events) = {}
  PROVE  /\ events' \in Seq(Events) /\ Ordered(events') /\ events' # <<>>
         /\ InChain(events') = InChain(events) \cup {e}
         /\ events'[1] = IF events = <<>> THEN e ELSE events[1]
  BY ChainGrows DEF CoordInv, TypeOK, ChainInv

LEMMA HeadIsDue ==
  ASSUME CoordInv, events # <<>>
  PROVE  /\ Head1 \in InChain(events) /\ Head1 \in Events /\ Due(Head1)
         /\ Tail(events) \in Seq(Events) /\ Ordered(Tail(events))
         /\ \A f \in InChain(Tail(events)) :
              /\ f \in InChain(events) /\ f.by # Head1.by
              /\ Head1.kind \notin TerminalStatuses /\ f.kind # "processing"
              /\ Head1.kind = "cancelling" => f.by = "run"
  BY ChainShrinks DEF CoordInv, TypeOK, ChainInv, Head1

LEMMA CreatePreviewStep ==
  ASSUME CoordInv, CreatePreview
  PROVE  CoordInv'
<1>. USE DEF CoordInv
<1>. DEFINE e == Event("previewing", "preview", FALSE)
<1>1. /\ up /\ stop = "no" /\ preview.stage = "none" /\ preview' = [preview EXCEPT !.stage = "starting"]
      /\ events' = Append(events, e)
      /\ UNCHANGED <<machine, written, call, job, worker, stop, up, poisoned, spent, truth, history, evidence>>
  BY DEF CreatePreview, Publish, life, sinks
<1>2. /\ \A c \in Calls : call[c] \notin Early
      /\ job.run = "none"
  BY <1>1 DEF CallInv, RunInv
<1>3. events = <<>> /\ InChain(events) = {}
  BY <1>1, <1>2, QuietChain DEF Early
<1>4. e \in Events /\ e.by = "preview" /\ e.kind = "previewing" /\ ~e.durable
  BY StatusesAre DEF Event, Events, Actors
<1>. HIDE DEF e
<1>5. events' \in Seq(Events) /\ Ordered(events') /\ InChain(events') = {e}
  BY <1>1, <1>3, <1>4, Published
<1>6. TypeOK'
  BY <1>1, <1>5 DEF TypeOK, Previews
<1>7. preview'.stage = "starting" /\ machine.status = "draft"
  BY <1>1 DEF TypeOK, Previews, StageInv
<1>8. ChainInv'
  BY <1>1, <1>4, <1>5, <1>7 DEF ChainInv, Due, DueToPreview
<1>9. StageInv' /\ CallInv' /\ EvidenceInv'
  BY <1>1, <1>2, <1>7 DEF StageInv, CallInv, EvidenceInv
<1>10. RunInv' /\ WorkersInv' /\ StopInv'
  BY <1>1, <1>2, <1>7 DEF RunInv, WorkersInv, StopInv
<1>11. HistoryInv'
  BY <1>1, <1>3, <1>7 DEF HistoryInv
<1>12. TakenInv'
  BY <1>1, <1>7 DEF TakenInv, HolderInv, WorkerInv, LedgerInv
<1>13. TerminalTellsTheTruth' /\ EvidenceIsComplete'
  BY <1>1 DEF TerminalTellsTheTruth, EvidenceIsComplete
<1>. QED
  BY <1>6, <1>8, <1>9, <1>10, <1>11, <1>12, <1>13

(* A step that only says how far shutdown is, or that a preview is unwanted.*)
SamePreview == preview'.stage = preview.stage /\ preview'.starting = preview.starting
               /\ preview'.consumed = preview.consumed
LEMMA OnlyFlags ==
  ASSUME CoordInv, SamePreview, preview' \in Previews,
         stop' \in {"no", "draining", "settling", "quiet", "closed"}, StopInv',
         UNCHANGED <<machine, events, written, call, job, worker, up, poisoned, spent, truth, history, evidence>>
  PROVE  CoordInv'
<1>. USE DEF CoordInv, SamePreview
<1>1. TypeOK'
  BY DEF TypeOK
<1>2. ChainInv'
  BY DEF ChainInv, Due, DueToPreview, DueToCall, DueToWorker, DueToCancel, DueToRun
<1>3. StageInv' /\ CallInv' /\ EvidenceInv'
  BY DEF StageInv, CallInv, EvidenceInv
<1>4. RunInv' /\ WorkersInv' /\ HistoryInv'
  BY DEF RunInv, WorkersInv, HistoryInv, AheadOf, Head1, Next1
<1>5. TakenInv' /\ TerminalTellsTheTruth' /\ EvidenceIsComplete'
  BY DEF TakenInv, HolderInv, WorkerInv, LedgerInv, TerminalTellsTheTruth, EvidenceIsComplete
<1>. QED
  BY <1>1, <1>2, <1>3, <1>4, <1>5

LEMMA CancelPreviewStep ==
  ASSUME CoordInv, CancelPreview
  PROVE  CoordInv'
<1>1. /\ preview' = [preview EXCEPT !.cancelled = TRUE]
      /\ UNCHANGED <<machine, events, written, call, job, worker, stop, up, poisoned, spent, truth, history, evidence>>
  BY DEF CancelPreview, life, sinks
<1>2. preview \in Previews /\ stop \in {"no", "draining", "settling", "quiet", "closed"} /\ StopInv
  BY DEF CoordInv, TypeOK
<1>3. preview' \in Previews /\ SamePreview
  BY <1>1, <1>2 DEF Previews, SamePreview
<1>4. StopInv'
  BY <1>1, <1>2, <1>3 DEF StopInv, Admitted, SamePreview
<1>. QED
  BY <1>1, <1>2, <1>3, <1>4, OnlyFlags

(* A cancellation of a job that runs.                                      *)
LEMMA CancelKeeps ==
  ASSUME CoordInv, CancelJob, Active, job.cancel = "none", SamePreview, preview' \in Previews,
         stop' \in {"no", "draining", "settling", "quiet", "closed"}, StopInv',
         UNCHANGED <<machine, written, call, worker, up, poisoned, spent, truth, history, evidence>>
  PROVE  CoordInv'
<1>. USE DEF CoordInv, SamePreview
<1>. DEFINE e == Event("cancelling", "cancel", TRUE)
<1>1. job' = [job EXCEPT !.aborted = TRUE, !.cancel = "published"] /\ events' = Append(events, e)
      /\ job \in Jobs
  BY DEF CancelJob, Publish, TypeOK
<1>2. /\ job'.run = job.run /\ job'.next = job.next /\ job'.failed = job.failed /\ job'.emitted = job.emitted
      /\ job'.ledger = job.ledger /\ job'.claims = job.claims
      /\ job'.aborted = TRUE /\ job'.cancel = "published"
  BY <1>1 DEF Jobs
<1>3. job.run \in {"starting", "working"} /\ ~job.aborted /\ ~job.emitted
  BY <1>1 DEF Active, RunInv, Jobs, Emitted
<1>4. e \in Events /\ e.by = "cancel" /\ e.kind = "cancelling" /\ e.durable
  BY StatusesAre DEF Event, Events, Actors
<1>. HIDE DEF e
<1>5. \A f \in InChain(events) : f.by # "cancel" /\ f.kind \notin TerminalStatuses /\ f.kind # "cancelling"
  <2>1. ASSUME NEW f \in InChain(events) PROVE f.by # "cancel" /\ f.kind \notin TerminalStatuses /\ f.kind # "cancelling"
    <3>1. Due(f) /\ ~DueToCancel(f) /\ preview.stage = "available"
      BY <1>3 DEF ChainInv, DueToCancel, RunInv
    <3>. QED
      BY <1>3, <3>1, ActorAssumption DEF Due, DueToPreview, DueToCall, DueToWorker, DueToRun, TerminalStatuses
  <2>. QED
    BY <2>1
<1>6. /\ events' \in Seq(Events) /\ Ordered(events') /\ InChain(events') = InChain(events) \cup {e}
      /\ events' # <<>> /\ (events # <<>> => Head1' = Head1)
  BY <1>1, <1>4, <1>5, Published DEF Head1
<1>7. TypeOK'
  <2>1. job' \in Jobs
    BY <1>1 DEF Jobs
  <2>. QED
    BY <1>6, <2>1 DEF TypeOK
<1>8. machine.status \in {"queued", "processing"}
  BY <1>3 DEF RunInv
<1>9. ChainInv'
  <2>1. \A f \in InChain(events) : Due(f)'
    BY <1>2, <1>3 DEF ChainInv, Due, DueToPreview, DueToCall, DueToWorker, DueToCancel, DueToRun
  <2>2. Due(e)'
    BY <1>2, <1>4, <1>8 DEF Due, DueToCancel
  <2>. QED
    BY <1>6, <2>1, <2>2 DEF ChainInv
<1>10. StageInv' /\ CallInv' /\ EvidenceInv'
  BY <1>2 DEF StageInv, CallInv, EvidenceInv
<1>11. RunInv' /\ WorkersInv'
  BY <1>2, <1>3, <1>6 DEF RunInv, WorkersInv
<1>12. HistoryInv'
  BY <1>2, <1>3, <1>6 DEF HistoryInv, AheadOf, Next1, Emitted
<1>13. TakenInv'
  BY <1>2 DEF TakenInv, HolderInv, WorkerInv, LedgerInv
<1>14. TerminalTellsTheTruth' /\ EvidenceIsComplete'
  BY DEF TerminalTellsTheTruth, EvidenceIsComplete
<1>. QED
  BY <1>7, <1>9, <1>10, <1>11, <1>12, <1>13, <1>14

LEMMA CancelStep ==
  ASSUME CoordInv, Cancel
  PROVE  CoordInv'
<1>1. /\ stop = "no" /\ Active /\ job.cancel = "none" /\ CancelJob
      /\ UNCHANGED <<machine, written, preview, call, worker, stop, up, poisoned, spent, truth, history, evidence>>
  BY DEF Cancel, life, sinks
<1>2. preview \in Previews /\ SamePreview
  BY <1>1 DEF CoordInv, TypeOK, SamePreview
<1>. QED
  BY <1>1, <1>2, CancelKeeps DEF StopInv

LEMMA ShutdownStep ==
  ASSUME CoordInv, Shutdown
  PROVE  CoordInv'
<1>1. /\ stop' = "draining"
      /\ preview' = [preview EXCEPT !.cancelled = @ \/ Cancellable]
      /\ UNCHANGED <<machine, written, call, worker, up, poisoned, spent, truth, history, evidence>>
      /\ IF Active /\ job.cancel = "none" THEN CancelJob ELSE UNCHANGED <<job, events>>
  BY DEF Shutdown, life, sinks
<1>2. SamePreview /\ preview' \in Previews
  <2>1. preview \in Previews
    BY DEF CoordInv, TypeOK
  <2>2. (preview.cancelled \/ Cancellable) \in BOOLEAN
    BY <2>1 DEF Previews, Cancellable
  <2>. QED
    BY <1>1, <2>1, <2>2 DEF Previews, SamePreview
<1>3. StopInv'
  BY <1>1 DEF StopInv
<1>. QED
  BY <1>1, <1>2, <1>3, CancelKeeps, OnlyFlags

LEMMA DrainedStep ==
  ASSUME CoordInv, Drained
  PROVE  CoordInv'
<1>1. /\ stop' = "settling" /\ ~Admitted
      /\ UNCHANGED <<machine, written, preview, call, worker, up, poisoned, spent, truth, history, evidence>>
      /\ IF Active /\ job.cancel = "none" THEN CancelJob ELSE UNCHANGED <<job, events>>
  BY DEF Drained, life, sinks
<1>2. SamePreview /\ preview' \in Previews
  BY <1>1 DEF CoordInv, TypeOK, SamePreview
<1>3. StopInv'
  BY <1>1 DEF StopInv, Admitted
<1>. QED
  BY <1>1, <1>2, <1>3, CancelKeeps, OnlyFlags

LEMMA QuietStep ==
  ASSUME CoordInv, Quiet
  PROVE  CoordInv'
<1>1. /\ stop' = "quiet" /\ stop = "settling" /\ job.run \in {"none", "ended", "lost"} /\ events = <<>>
      /\ UNCHANGED <<machine, events, written, preview, call, job, worker, up, poisoned, spent, truth, history, evidence>>
  BY DEF Quiet, life, sinks
<1>2. SamePreview /\ preview' \in Previews
  BY <1>1 DEF CoordInv, TypeOK, SamePreview
<1>3. StopInv'
  BY <1>1 DEF CoordInv, StopInv, Admitted
<1>. QED
  BY <1>1, <1>2, <1>3, OnlyFlags

LEMMA PlanSettlesStep ==
  ASSUME CoordInv, PlanSettles
  PROVE  CoordInv'
<1>. USE DEF CoordInv
<1>. DEFINE e == Event("failed", "preview", FALSE)
<1>1. /\ up /\ preview.stage = "planning" /\ preview \in Previews
      /\ UNCHANGED <<machine, written, call, job, worker, stop, up, poisoned, spent, truth, history, evidence>>
      /\ \/ preview' = [preview EXCEPT !.stage = "recording"] /\ events' = events
         \/ preview' = [preview EXCEPT !.stage = "failing"] /\ events' = Append(events, e)
  BY DEF PlanSettles, Publish, life, sinks, TypeOK
<1>2. /\ preview' \in Previews /\ preview'.starting = preview.starting /\ preview'.consumed = preview.consumed
      /\ \/ preview'.stage = "recording" /\ events' = events
         \/ preview'.stage = "failing" /\ events' = Append(events, e)
  BY <1>1 DEF Previews
<1>3. (\A c \in Calls : call[c] \notin Early) /\ job.run = "none"
  BY <1>1 DEF CallInv, RunInv
<1>4. events = <<>> /\ InChain(events) = {}
  BY <1>1, <1>3, QuietChain DEF Early
<1>5. e \in Events /\ e.by = "preview" /\ e.kind = "failed" /\ ~e.durable
  BY StatusesAre DEF Event, Events, Actors
<1>. HIDE DEF e
<1>6. events' \in Seq(Events) /\ Ordered(events')
      /\ \A f \in InChain(events') : f = e /\ preview'.stage = "failing"
  <2>1. CASE events' = events
    BY <1>4, <2>1, EmptyChain
  <2>2. CASE preview'.stage = "failing" /\ events' = Append(events, e)
    BY <1>4, <1>5, <2>2, Published
  <2>. QED
    BY <1>2, <2>1, <2>2
<1>7. TypeOK'
  BY <1>1, <1>2, <1>6 DEF TypeOK
<1>8. ChainInv'
  BY <1>5, <1>6 DEF ChainInv, Due, DueToPreview
<1>9. StageInv' /\ CallInv' /\ EvidenceInv'
  BY <1>1, <1>2, <1>3 DEF StageInv, CallInv, EvidenceInv
<1>10. RunInv' /\ WorkersInv' /\ HistoryInv'
  BY <1>1, <1>2, <1>3, <1>4 DEF RunInv, WorkersInv, HistoryInv
<1>11. StopInv'
  BY <1>1 DEF StopInv, Admitted
<1>12. TakenInv' /\ TerminalTellsTheTruth' /\ EvidenceIsComplete'
  BY <1>1, <1>2 DEF TakenInv, HolderInv, WorkerInv, LedgerInv, TerminalTellsTheTruth, EvidenceIsComplete
<1>. QED
  BY <1>7, <1>8, <1>9, <1>10, <1>11, <1>12

LEMMA FaultIsCounted ==
  ASSUME spent \in [faults : 0 .. MaxFaults, crashes : 0 .. MaxCrashes], Fault
  PROVE  spent' \in [faults : 0 .. MaxFaults, crashes : 0 .. MaxCrashes]
  BY BoundAssumption DEF Fault

LEMMA RecordPreviewStep ==
  ASSUME CoordInv, RecordPreview
  PROVE  CoordInv'
<1>. USE DEF CoordInv
<1>. DEFINE e == Event("ready", "preview", FALSE)
<1>1. /\ up /\ preview.stage = "recording" /\ preview \in Previews /\ evidence \in Manifests
      /\ history \in Histories /\ spent \in [faults : 0 .. MaxFaults, crashes : 0 .. MaxCrashes]
      /\ UNCHANGED <<machine, written, call, job, worker, stop, up, truth>>
      /\ history' \in {history, Created} /\ evidence' \in {Manifest("open"), Manifest("failed")}
      /\ \/ /\ history' = Created /\ evidence' = Manifest("open") /\ UNCHANGED <<poisoned, spent>>
            /\ preview' = [preview EXCEPT !.stage = "finishing"] /\ events' = Append(events, e)
         \/ /\ preview' = [preview EXCEPT !.stage = "gone"] /\ events' = events
            /\ Fault /\ poisoned' \in {poisoned, TRUE}
  BY DEF RecordPreview, Publish, TypeOK
<1>2. /\ preview' \in Previews /\ preview'.starting = preview.starting /\ preview'.consumed = preview.consumed
      /\ \/ preview'.stage = "finishing" /\ events' = Append(events, e)
            /\ history' = Created /\ evidence' = Manifest("open") /\ UNCHANGED <<poisoned, spent>>
         \/ preview'.stage = "gone" /\ events' = events
  <2>1. CASE preview' = [preview EXCEPT !.stage = "finishing"]
    BY <1>1, <2>1 DEF Previews
  <2>2. CASE preview' = [preview EXCEPT !.stage = "gone"] /\ events' = events
    BY <1>1, <2>2 DEF Previews
  <2>. QED
    BY <1>1, <2>1, <2>2
<1>3. (\A c \in Calls : call[c] \notin Early) /\ job.run = "none" /\ history.status = "draft" /\ ~poisoned
      /\ evidence.state = "none" /\ evidence.ledger = {} /\ evidence.ending = "none"
  BY <1>1 DEF CallInv, RunInv, StageInv
<1>4. events = <<>> /\ InChain(events) = {}
  BY <1>1, <1>3, QuietChain DEF Early
<1>5. e \in Events /\ e.by = "preview" /\ e.kind = "ready" /\ ~e.durable
  BY StatusesAre DEF Event, Events, Actors
<1>. HIDE DEF e
<1>6. events' \in Seq(Events) /\ Ordered(events')
      /\ \A f \in InChain(events') : f = e /\ preview'.stage = "finishing"
  <2>1. CASE events' = events
    BY <1>4, <2>1, EmptyChain
  <2>2. CASE preview'.stage = "finishing" /\ events' = Append(events, e)
    BY <1>4, <1>5, <2>2, Published
  <2>. QED
    BY <1>2, <2>1, <2>2
<1>7. /\ evidence' \in Manifests /\ evidence'.ledger = {} /\ evidence'.ending = "none"
      /\ evidence' = Manifest("open") => evidence'.state = "open"
  BY <1>1, <1>3 DEF Manifests, Manifest
<1>8. /\ Created \in Histories /\ Created.status = "ready" /\ Created.last = 2
      /\ history' \in Histories /\ history'.status \in {"draft", "ready"}
  <2>1. Created \in Histories /\ Created.status = "ready" /\ Created.last = 2
    BY StatusesAre DEF Created, Histories, Ledgers, Nothing
  <2>. QED
    BY <1>1, <1>3, <2>1
<1>9. TypeOK'
  <2>1. spent' \in [faults : 0 .. MaxFaults, crashes : 0 .. MaxCrashes]
    BY <1>1, FaultIsCounted
  <2>2. poisoned' \in BOOLEAN
    BY <1>1 DEF TypeOK
  <2>. QED
    BY <1>1, <1>2, <1>6, <1>7, <1>8, <2>1, <2>2 DEF TypeOK
<1>10. ChainInv'
  BY <1>5, <1>6 DEF ChainInv, Due, DueToPreview
<1>11. StageInv'
  BY <1>1, <1>2, <1>3, <1>7, <1>8 DEF StageInv, ActiveStatuses
<1>12. CallInv' /\ EvidenceInv'
  BY <1>1, <1>2, <1>3, <1>7 DEF CallInv, EvidenceInv
<1>13. RunInv' /\ WorkersInv' /\ HistoryInv'
  BY <1>1, <1>2, <1>3, <1>4 DEF RunInv, WorkersInv, HistoryInv
<1>14. StopInv'
  BY <1>1 DEF StopInv, Admitted
<1>15. TakenInv'
  BY <1>1, <1>2 DEF TakenInv, HolderInv, WorkerInv, LedgerInv
<1>16. TerminalTellsTheTruth' /\ EvidenceIsComplete'
  BY <1>7, <1>8 DEF TerminalTellsTheTruth, EvidenceIsComplete, TerminalStatuses
<1>. QED
  BY <1>9, <1>10, <1>11, <1>12, <1>13, <1>14, <1>15, <1>16

(* A refusal is noted in the manifest, which the note may break.           *)
Noted ==
  /\ evidence' \in Manifests /\ evidence'.ledger = evidence.ledger /\ evidence'.ending = evidence.ending
  /\ evidence'.state = evidence.state \/ (evidence.state = "open" /\ evidence'.state = "failed")
  /\ spent' \in [faults : 0 .. MaxFaults, crashes : 0 .. MaxCrashes]
LEMMA NoteIsSmall ==
  ASSUME TypeOK, NoteInEvidence \/ UNCHANGED <<evidence, spent>>
  PROVE  Noted
<1>1. evidence \in Manifests /\ spent \in [faults : 0 .. MaxFaults, crashes : 0 .. MaxCrashes]
  BY DEF TypeOK
<1>2. CASE UNCHANGED <<evidence, spent>>
  BY <1>1, <1>2 DEF Noted
<1>3. CASE evidence.state = "open" /\ Fault /\ evidence' = [evidence EXCEPT !.state = "failed"]
  BY <1>1, <1>3, BoundAssumption DEF Noted, Fault, Manifests
<1>. QED
  BY <1>2, <1>3 DEF NoteInEvidence

(* A step of a call that publishes nothing.                                *)
LEMMA CallMoves ==
  ASSUME CoordInv, NEW c \in Calls, NEW place \in {"revalidating", "refused"},
         call' = [call EXCEPT ![c] = place], call[c] \in {"idle", "revalidating"},
         Noted, preview.stage = "available" \/ UNCHANGED evidence,
         preview' \in Previews, preview'.stage = preview.stage,
         \/ preview'.consumed = preview.consumed /\ preview'.starting = preview.starting /\ place = "refused"
            /\ call[c] = "idle"
         \/ call[c] = "revalidating" /\ place = "refused"
         \/ preview.stage = "available" /\ ~preview.consumed /\ ~preview.starting /\ preview'.starting
            /\ preview'.consumed = preview.consumed /\ stop = "no",
         UNCHANGED <<machine, events, written, job, worker, stop, up, poisoned, truth, history>>
  PROVE  CoordInv'
<1>. USE DEF CoordInv, Noted
<1>1. TypeOK'
  BY DEF TypeOK
<1>2. call'[c] = place /\ \A d \in Calls \ {c} : call'[d] = call[d]
  BY DEF TypeOK
<1>3. ChainInv'
  <2>1. \A f \in InChain(events) : DueToCall(f) => DueToCall(f)'
    BY <1>2 DEF DueToCall
  <2>. QED
    BY <2>1 DEF ChainInv, Due, DueToPreview, DueToWorker, DueToCancel, DueToRun
<1>4. job.run # "none" => \A d \in Calls : call[d] \notin Early
  BY DEF CallInv
<1>5. preview'.starting /\ ~preview.starting => \A d \in Calls : call[d] \notin Early
  BY DEF CallInv
<1>6. preview.stage = "available" /\ ~preview.consumed => job.run = "none"
  BY DEF RunInv
<1>7. CallInv'
  <2>1. CASE call[c] = "revalidating"
    BY <1>2, <2>1 DEF CallInv, Early
  <2>2. CASE call[c] = "idle" /\ place = "refused"
    BY <1>2, <2>2 DEF CallInv, Early
  <2>3. CASE call[c] = "idle" /\ place = "revalidating"
    BY <1>2, <1>5, <1>6, <2>3 DEF CallInv, Early
  <2>. QED
    BY <2>1, <2>2, <2>3
<1>8. StageInv' /\ EvidenceInv'
  BY DEF StageInv, EvidenceInv
<1>9. RunInv'
  <2>1. job.run # "none" => preview'.consumed
    BY <1>4 DEF RunInv, CallInv, Early
  <2>. QED
    BY <2>1 DEF RunInv, Head1
<1>10. WorkersInv' /\ HistoryInv'
  BY DEF WorkersInv, HistoryInv, AheadOf, Head1, Next1
<1>11. StopInv'
  BY <1>2 DEF StopInv, Admitted
<1>12. TakenInv' /\ TerminalTellsTheTruth' /\ EvidenceIsComplete'
  BY DEF TakenInv, HolderInv, WorkerInv, LedgerInv, TerminalTellsTheTruth, EvidenceIsComplete
<1>. QED
  BY <1>1, <1>3, <1>7, <1>8, <1>9, <1>10, <1>11, <1>12

LEMMA StartStep ==
  ASSUME CoordInv, NEW c \in Calls, Start(c)
  PROVE  CoordInv'
<1>1. preview \in Previews /\ TypeOK
  BY DEF CoordInv, TypeOK
<1>2. /\ stop = "no" /\ call[c] = "idle"
      /\ UNCHANGED <<machine, events, written, job, worker, stop, up, poisoned, truth, history>>
  BY DEF Start
<1>3. CASE /\ preview.stage = "available" /\ ~preview.consumed /\ ~preview.starting
           /\ preview' = [preview EXCEPT !.starting = TRUE]
           /\ call' = [call EXCEPT ![c] = "revalidating"]
           /\ UNCHANGED <<evidence, spent>>
  <2>1. /\ preview' \in Previews /\ preview'.stage = preview.stage /\ preview'.starting
        /\ preview'.consumed = preview.consumed
    BY <1>1, <1>3 DEF Previews
  <2>. QED
    BY <1>1, <1>2, <1>3, <2>1, NoteIsSmall, CallMoves
<1>4. CASE /\ Refuse(c) /\ UNCHANGED preview
           /\ \/ preview.stage = "available" /\ NoteInEvidence
              \/ UNCHANGED <<evidence, spent>>
  BY <1>1, <1>2, <1>4, NoteIsSmall, CallMoves DEF Refuse
<1>. QED
  BY <1>3, <1>4 DEF Start

LEMMA RevalidatedStep ==
  ASSUME CoordInv, NEW c \in Calls, Revalidated(c)
  PROVE  CoordInv'
<1>. USE DEF CoordInv
<1>1. preview \in Previews /\ TypeOK /\ call[c] = "revalidating"
      /\ UNCHANGED <<machine, written, job, worker, stop, up, poisoned, truth, history>>
  BY DEF TypeOK, Revalidated
<1>2. ASSUME NEW drift \in BOOLEAN,
             preview' = [preview EXCEPT !.starting = FALSE, !.consumed = @ \/ drift],
             Refuse(c), NoteInEvidence, UNCHANGED events
      PROVE  CoordInv'
  <2>1. preview' \in Previews /\ preview'.stage = preview.stage
    BY <1>1, <1>2 DEF Previews
  <2>2. preview.stage = "available"
    BY <1>1 DEF CallInv, Early
  <2>. QED
    BY <1>1, <1>2, <2>1, <2>2, NoteIsSmall, CallMoves DEF Refuse
<1>3. ASSUME Publish("queued", c, TRUE), call' = [call EXCEPT ![c] = "queueing"],
             UNCHANGED <<preview, evidence, spent>>
      PROVE  CoordInv'
  <2>. DEFINE e == Event("queued", c, TRUE)
  <2>1. e \in Events /\ e.by = c /\ e.kind = "queued" /\ e.durable /\ events' = Append(events, e)
    BY <1>3, StatusesAre DEF Event, Events, Actors, Publish
  <2>. HIDE DEF e
  <2>2. /\ preview.stage = "available" /\ job.run = "none"
        /\ \A d \in Calls \ {c} : call[d] \notin Early
    BY <1>1 DEF CallInv, Early
  <2>3. events = <<>> /\ InChain(events) = {}
    BY <1>1, <2>2, QuietChain DEF Early
  <2>4. events' \in Seq(Events) /\ Ordered(events') /\ InChain(events') = {e} /\ events' # <<>>
    BY <2>1, <2>3, Published
  <2>5. call'[c] = "queueing" /\ \A d \in Calls \ {c} : call'[d] = call[d]
    BY <1>3 DEF TypeOK
  <2>6. TypeOK'
    BY <1>1, <1>3, <2>4 DEF TypeOK
  <2>7. ChainInv'
    BY <2>1, <2>4, <2>5 DEF ChainInv, Due, DueToCall
  <2>8. StageInv' /\ EvidenceInv' /\ WorkersInv'
    BY <1>1, <1>3 DEF StageInv, EvidenceInv, WorkersInv
  <2>9. CallInv'
    BY <1>1, <1>3, <2>2, <2>5 DEF CallInv, Early
  <2>10. RunInv' /\ HistoryInv'
    BY <1>1, <1>3, <2>2, <2>3 DEF RunInv, HistoryInv
  <2>11. StopInv'
    BY <1>1 DEF StopInv, Admitted
  <2>12. TakenInv' /\ TerminalTellsTheTruth' /\ EvidenceIsComplete'
    BY <1>1, <1>3 DEF TakenInv, HolderInv, WorkerInv, LedgerInv, TerminalTellsTheTruth, EvidenceIsComplete
  <2>. QED
    BY <2>6, <2>7, <2>8, <2>9, <2>10, <2>11, <2>12
<1>. QED
  BY <1>2, <1>3 DEF Revalidated

(* What a worker does, it does to its own place.                           *)
LEMMA WorkerIsWorking ==
  ASSUME CoordInv, NEW w \in Workers, worker[w].at \notin {"off", "done", "failed"}
  PROVE  /\ job.run = "working" /\ preview.stage = "available" /\ preview.consumed /\ ~job.emitted
         /\ machine.status \in {"processing", "cancelling"} /\ history.status \notin TerminalStatuses
         /\ \A c \in Calls : call[c] \notin Early
         /\ stop \notin {"quiet", "closed"}
<1>1. job \in Jobs /\ worker[w] # Idle
  BY DEF CoordInv, TypeOK, Idle
<1>2. job.run = "working"
  BY <1>1 DEF CoordInv, RunInv, WorkersInv, Jobs, Emitted
<1>. QED
  BY <1>2 DEF CoordInv, RunInv, CallInv, HistoryInv, StopInv, Emitted

LEMMA SilentWorker ==
  ASSUME CoordInv, NEW w \in Workers, worker[w].at \notin {"announcing", "reporting"}
  PROVE  \A f \in InChain(events) : f.by # w
  BY ActorAssumption DEF CoordInv, ChainInv, Due, DueToPreview, DueToCall, DueToWorker, DueToCancel, DueToRun

(* Nobody has cancelled: what a worker publishes is legal in its turn.     *)
LEMMA WorkerMayPublish ==
  ASSUME CoordInv, NEW w \in Workers, worker[w].at \in {"loop", "recording"}, ~job.aborted,
         NEW durable \in BOOLEAN, NEW e, e = Event("job_progress", w, durable), events' = Append(events, e)
  PROVE  /\ events' \in Seq(Events) /\ Ordered(events') /\ events' # <<>>
         /\ InChain(events') = InChain(events) \cup {e}
         /\ events'[1] = IF events = <<>> THEN e ELSE events[1]
         /\ e.by = w /\ e.kind = "job_progress" /\ e.durable = durable
         /\ machine.status = "processing"
<1>1. e \in Events /\ e.by = w /\ e.kind = "job_progress" /\ e.durable = durable
  BY StatusesAre DEF Event, Events, Actors
<1>2. job.run = "working" /\ preview.stage = "available" /\ job.cancel = "none"
      /\ \A c \in Calls : call[c] \notin Early
  BY WorkerIsWorking DEF CoordInv, RunInv
<1>3. \A f \in InChain(events) : f.kind \notin TerminalStatuses /\ f.kind # "cancelling"
  BY <1>2 DEF CoordInv, ChainInv, Due, DueToPreview, DueToCall, DueToWorker, DueToCancel, DueToRun, Early,
     TerminalStatuses
<1>4. machine.status = "processing"
  BY WorkerIsWorking DEF CoordInv, RunInv
<1>. QED
  BY <1>1, <1>3, <1>4, SilentWorker, Published

LEMMA TakeStep ==
  ASSUME CoordInv, NEW w \in Workers, Take(w)
  PROVE  CoordInv'
<1>. USE DEF CoordInv
<1>1. /\ worker[w].at = "loop" /\ worker \in [Workers -> Places] /\ job \in Jobs
      /\ UNCHANGED <<machine, written, preview, call, stop, up, poisoned, spent, truth, history, evidence>>
  BY DEF Take, AtW, TypeOK, life, sinks
<1>2. /\ job.run = "working" /\ preview.stage = "available" /\ ~job.emitted
      /\ \A f \in InChain(events) : f.by # w
  BY <1>1, WorkerIsWorking, SilentWorker
<1>3. CASE /\ job.aborted \/ job.failed \/ job.next > OpCount
           /\ worker' = [worker EXCEPT ![w].at = "done"] /\ UNCHANGED <<job, events>>
  <2>1. /\ worker' \in [Workers -> Places] /\ worker'[w].at = "done"
        /\ \A v \in Workers \ {w} : worker'[v] = worker[v]
    BY <1>1, <1>3 DEF Places
  <2>2. TypeOK'
    BY <1>1, <1>3, <2>1 DEF TypeOK
  <2>3. ChainInv'
    BY <1>1, <1>2, <1>3, <2>1 DEF ChainInv, Due, DueToPreview, DueToCall, DueToWorker, DueToCancel, DueToRun
  <2>4. StageInv' /\ CallInv' /\ RunInv' /\ HistoryInv' /\ StopInv'
    BY <1>1, <1>3 DEF StageInv, CallInv, RunInv, HistoryInv, AheadOf, Head1, Next1, StopInv, Admitted
  <2>5. WorkersInv'
    BY <1>1, <1>2, <1>3, <2>1 DEF WorkersInv
  <2>6. TakenInv'
    <3>1. \A v \in Workers : HolderInv(v)'
      BY <1>1, <1>3, <2>1 DEF TakenInv, HolderInv, Holding
    <3>2. \A v \in Workers : WorkerInv(v)'
      BY <1>1, <1>3, <2>1, PlanAssumption DEF TakenInv, WorkerInv, Jobs
    <3>3. \A o \in Ops : LedgerInv(o)'
      BY <1>1, <1>2, <1>3, <2>1 DEF TakenInv, LedgerInv
    <3>. QED
      BY <3>1, <3>2, <3>3 DEF TakenInv
  <2>7. EvidenceInv'
    BY <1>1, <1>3, <2>1 DEF EvidenceInv
  <2>8. TerminalTellsTheTruth' /\ EvidenceIsComplete'
    BY <1>1 DEF TerminalTellsTheTruth, EvidenceIsComplete
  <2>. QED
    BY <2>2, <2>3, <2>4, <2>5, <2>6, <2>7, <2>8
<1>4. CASE /\ ~(job.aborted \/ job.failed \/ job.next > OpCount)
           /\ worker' = [worker EXCEPT ![w] = [at |-> "announcing", op |-> job.next]]
           /\ job' = [job EXCEPT !.next = @ + 1]
           /\ Publish("job_progress", w, FALSE)
  <2>. DEFINE e == Event("job_progress", w, FALSE)
  <2>0. PICK n : n = job.next
    OBVIOUS
  <2>1. /\ n \in Ops /\ n + 1 \in 1 .. OpCount + 1 /\ ~job.aborted /\ ~job.failed
        /\ job.ledger[n] = "none"
    BY <1>1, <1>2, <1>4, <2>0, PlanAssumption DEF Jobs, Ops, TakenInv, LedgerInv
  <2>2. /\ job' \in Jobs /\ job'.next = n + 1 /\ job'.run = job.run /\ job'.aborted = job.aborted
        /\ job'.cancel = job.cancel /\ job'.failed = job.failed /\ job'.emitted = job.emitted
        /\ job'.ledger = job.ledger /\ job'.claims = job.claims
    BY <1>1, <1>4, <2>0, <2>1 DEF Jobs
  <2>3. /\ worker' \in [Workers -> Places] /\ worker'[w].at = "announcing" /\ worker'[w].op = n
        /\ \A v \in Workers \ {w} : worker'[v] = worker[v]
    BY <1>1, <1>4, <2>0, <2>1 DEF Places
  <2>4. events' = Append(events, e)
    BY <1>4 DEF Publish
  <2>5. /\ events' \in Seq(Events) /\ Ordered(events') /\ InChain(events') = InChain(events) \cup {e}
        /\ events' # <<>> /\ (events # <<>> => Head1' = Head1)
        /\ e.by = w /\ e.kind = "job_progress" /\ machine.status = "processing"
    BY <1>1, <2>1, <2>4, WorkerMayPublish DEF Head1
  <2>. HIDE DEF e
  <2>6. TypeOK'
    BY <1>1, <2>2, <2>3, <2>5 DEF TypeOK
  <2>7. ChainInv'
    <3>1. \A f \in InChain(events) : Due(f)'
      BY <1>1, <1>2, <2>2, <2>3 DEF ChainInv, Due, DueToPreview, DueToCall, DueToWorker, DueToCancel, DueToRun
    <3>2. Due(e)'
      BY <1>1, <2>3, <2>5 DEF Due, DueToWorker
    <3>. QED
      BY <2>5, <3>1, <3>2 DEF ChainInv
  <2>8. StageInv' /\ CallInv'
    BY <1>1, <2>2 DEF StageInv, CallInv
  <2>9. RunInv' /\ HistoryInv'
    BY <1>1, <1>2, <2>2, <2>5 DEF RunInv, HistoryInv, AheadOf, Next1
  <2>10. StopInv'
    BY <1>1, <1>2 DEF StopInv, Admitted
  <2>11. WorkersInv'
    BY <1>1, <1>2, <2>2, <2>3 DEF WorkersInv
  <2>12. TakenInv'
    <3>1. ASSUME NEW v \in Workers PROVE HolderInv(v)'
      <4>1. \A u \in Workers : worker[u].at \in Holding => worker[u].op \in Ops /\ worker[u].op < n
        BY <2>0 DEF TakenInv, HolderInv
      <4>. QED
        BY <1>1, <2>1, <2>2, <2>3, <4>1, PlanAssumption DEF TakenInv, HolderInv, Holding, Ops
    <3>2. \A v \in Workers : WorkerInv(v)'
      BY <1>1, <2>0, <2>1, <2>2, <2>3, PlanAssumption DEF TakenInv, WorkerInv, Jobs
    <3>3. ASSUME NEW o \in Ops PROVE LedgerInv(o)'
      <4>1. o < n + 1 /\ ~(o < n) => o = n
        BY <2>1 DEF Ops
      <4>2. o >= n + 1 => o >= n
        BY <2>1 DEF Ops
      <4>3. LedgerInv(o)
        BY <1>2 DEF TakenInv
      <4>4. \A v \in Workers : worker[v].at \in {"announcing", "executing"} => worker'[v] = worker[v]
        BY <1>1, <2>3
      <4>. QED
        BY <1>1, <2>0, <2>2, <2>3, <4>1, <4>2, <4>3, <4>4 DEF LedgerInv
    <3>. QED
      BY <3>1, <3>2, <3>3 DEF TakenInv
  <2>13. EvidenceInv'
    BY <1>1, <2>2, <2>3 DEF EvidenceInv
  <2>14. TerminalTellsTheTruth' /\ EvidenceIsComplete'
    BY <1>1 DEF TerminalTellsTheTruth, EvidenceIsComplete
  <2>. QED
    BY <2>6, <2>7, <2>8, <2>9, <2>10, <2>11, <2>12, <2>13, <2>14
<1>. QED
  BY <1>3, <1>4 DEF Take, MoveTo

LEMMA ExecuteStep ==
  ASSUME CoordInv, NEW w \in Workers, Execute(w)
  PROVE  CoordInv'
<1>. USE DEF CoordInv
<1>0. PICK o : o = worker[w].op
  OBVIOUS
<1>1. /\ worker[w].at = "executing" /\ worker \in [Workers -> Places] /\ job \in Jobs
      /\ truth \in [Ops -> {"untouched", "done"}]
      /\ worker' = [worker EXCEPT ![w].at = "recording"]
      /\ UNCHANGED <<machine, events, written, preview, call, stop, up, poisoned, spent, history, evidence>>
  BY DEF Execute, AtW, MoveTo, TypeOK, life
<1>2. PICK outcome \in Outcomes, done \in BOOLEAN :
        /\ outcome \in {"cancelled", "residue"} => job.aborted
        /\ outcome \in {"committed", "residue"} => done
        /\ outcome \in {"skipped", "cancelled"} => ~done
        /\ job' = [job EXCEPT !.ledger = With(@, o, outcome)]
        /\ truth' = [truth EXCEPT ![o] = IF done THEN "done" ELSE @]
  BY <1>0 DEF Execute
<1>3. /\ job.run = "working" /\ preview.stage = "available" /\ ~job.emitted
      /\ history.status \notin TerminalStatuses
      /\ \A f \in InChain(events) : f.by # w
  BY <1>1, WorkerIsWorking, SilentWorker
<1>4. /\ o \in Ops /\ job.ledger[o] = "none" /\ truth[o] = "untouched" /\ o < job.next
      /\ \A v \in Workers \ {w} : worker[v].at \in Holding => worker[v].op # o
  BY <1>0, <1>1, <1>3 DEF TakenInv, HolderInv, LedgerInv, Holding
<1>5. job.ledger \in Ledgers
  BY <1>1 DEF Jobs
<1>6. /\ With(job.ledger, o, outcome) \in Ledgers /\ With(job.ledger, o, outcome)[o] = outcome
      /\ \A p \in Ops \ {o} : With(job.ledger, o, outcome)[p] = job.ledger[p]
  BY <1>4, <1>5 DEF With, Ledgers
<1>7. /\ job' \in Jobs /\ job'.next = job.next /\ job'.run = job.run /\ job'.aborted = job.aborted
      /\ job'.cancel = job.cancel /\ job'.failed = job.failed /\ job'.emitted = job.emitted
      /\ job'.claims = job.claims
      /\ job'.ledger[o] = outcome /\ \A p \in Ops \ {o} : job'.ledger[p] = job.ledger[p]
  BY <1>1, <1>2, <1>6 DEF Jobs
<1>8. /\ worker' \in [Workers -> Places] /\ worker'[w].at = "recording" /\ worker'[w].op = o
      /\ \A v \in Workers \ {w} : worker'[v] = worker[v]
  BY <1>0, <1>1 DEF Places
<1>9. /\ truth' \in [Ops -> {"untouched", "done"}] /\ truth'[o] = (IF done THEN "done" ELSE "untouched")
      /\ \A p \in Ops \ {o} : truth'[p] = truth[p]
  BY <1>1, <1>2, <1>4
<1>10. TypeOK'
  BY <1>1, <1>7, <1>8, <1>9 DEF TypeOK
<1>11. ChainInv'
  BY <1>1, <1>3, <1>7, <1>8 DEF ChainInv, Due, DueToPreview, DueToCall, DueToWorker, DueToCancel, DueToRun
<1>12. StageInv' /\ CallInv' /\ HistoryInv' /\ StopInv'
  BY <1>1, <1>7 DEF StageInv, CallInv, HistoryInv, AheadOf, Head1, Next1, StopInv, Admitted
<1>13. RunInv' /\ WorkersInv'
  BY <1>1, <1>3, <1>7, <1>8 DEF RunInv, WorkersInv, Head1
<1>14. TakenInv'
  <2>1. outcome # "none"
    BY <1>2 DEF Outcomes
  <2>2. ASSUME NEW v \in Workers PROVE HolderInv(v)'
    <3>1. CASE v = w
      BY <1>1, <1>4, <1>7, <1>8, <2>1, <3>1 DEF HolderInv, Holding
    <3>2. CASE v # w
      BY <1>1, <1>4, <1>7, <1>8, <3>2 DEF TakenInv, HolderInv
    <3>. QED
      BY <3>1, <3>2
  <2>3. \A v \in Workers : WorkerInv(v)'
    BY <1>7, <1>8 DEF TakenInv, WorkerInv
  <2>4. ASSUME NEW p \in Ops PROVE LedgerInv(p)'
    <3>1. CASE p = o
      BY <1>2, <1>4, <1>7, <1>9, <2>1, <3>1 DEF LedgerInv, Ops, Jobs
    <3>2. CASE p # o
      <4>1. \A v \in Workers : worker[v].op = p => v # w
        BY <1>0, <3>2
      <4>. QED
        BY <1>3, <1>7, <1>8, <1>9, <3>2, <4>1 DEF TakenInv, LedgerInv
    <3>. QED
      BY <3>1, <3>2
  <2>. QED
    BY <2>2, <2>3, <2>4 DEF TakenInv
<1>15. EvidenceInv'
  <2>1. \A p \in Ops \ {o} : (\E v \in Workers : worker[v].at = "recording" /\ worker[v].op = p)
                             <=> (\E v \in Workers : worker'[v].at = "recording" /\ worker'[v].op = p)
    BY <1>0, <1>1, <1>8
  <2>. QED
    BY <1>1, <1>4, <1>7, <1>8, <2>1 DEF EvidenceInv
<1>16. TerminalTellsTheTruth' /\ EvidenceIsComplete'
  BY <1>1, <1>3 DEF TerminalTellsTheTruth, EvidenceIsComplete
<1>. QED
  BY <1>10, <1>11, <1>12, <1>13, <1>14, <1>15, <1>16

LEMMA RecordStep ==
  ASSUME CoordInv, NEW w \in Workers, Record(w)
  PROVE  CoordInv'
<1>. USE DEF CoordInv
<1>0. PICK o : o = worker[w].op
  OBVIOUS
<1>1. /\ worker[w].at = "recording" /\ worker \in [Workers -> Places] /\ job \in Jobs
      /\ evidence \in Manifests /\ spent \in [faults : 0 .. MaxFaults, crashes : 0 .. MaxCrashes]
      /\ UNCHANGED <<machine, written, preview, call, stop, up, poisoned, truth, history>>
  BY DEF Record, AtW, TypeOK
<1>2. /\ job.run = "working" /\ preview.stage = "available" /\ ~job.emitted
      /\ history.status \notin TerminalStatuses
      /\ \A f \in InChain(events) : f.by # w
  BY <1>1, WorkerIsWorking, SilentWorker
<1>3. /\ o \in Ops /\ job.ledger[o] # "none"
      /\ \A v \in Workers \ {w} : worker[v].at \in Holding => worker[v].op # o
  BY <1>0, <1>1 DEF TakenInv, HolderInv, Holding
<1>4. ASSUME NEW place \in {"loop", "reporting", "failed"}, worker' = [worker EXCEPT ![w].at = place]
      PROVE  /\ worker' \in [Workers -> Places] /\ worker'[w].at = place /\ worker'[w].op = o
             /\ \A v \in Workers \ {w} : worker'[v] = worker[v]
  BY <1>0, <1>1, <1>4 DEF Places
<1>5. evidence.ending \notin TerminalStatuses
  BY <1>2 DEF EvidenceIsComplete
<1>6. ASSUME evidence.state = "open", UNCHANGED spent,
             evidence' = [evidence EXCEPT !.ledger = @ \cup {o}], Recorded(w)
      PROVE  CoordInv'
  <2>1. /\ evidence' \in Manifests /\ evidence'.state = "open" /\ evidence'.ending = evidence.ending
        /\ evidence'.ledger = evidence.ledger \cup {o}
    BY <1>1, <1>3, <1>6 DEF Manifests
  <2>2. UNCHANGED job
    BY <1>6 DEF Recorded
  <2>3. PICK place \in {"loop", "reporting"} : worker' = [worker EXCEPT ![w].at = place]
    BY <1>6 DEF Recorded, MoveTo
  <2>4. /\ worker' \in [Workers -> Places] /\ worker'[w].at = place
        /\ \A v \in Workers \ {w} : worker'[v] = worker[v]
    BY <1>4, <2>3
  <2>5. /\ events' \in Seq(Events) /\ Ordered(events') /\ \A f \in InChain(events) : Due(f)'
        /\ \A f \in InChain(events') : Due(f)'
        /\ (events # <<>> => Head1' = Head1 /\ events' # <<>>)
    <3>1. \A f \in InChain(events) : Due(f)'
      BY <1>1, <1>2, <2>2, <2>4
         DEF ChainInv, Due, DueToPreview, DueToCall, DueToWorker, DueToCancel, DueToRun
    <3>2. CASE UNCHANGED events
      BY <3>1, <3>2 DEF TypeOK, ChainInv, Head1
    <3>3. CASE worker' = [worker EXCEPT ![w].at = "reporting"] /\ ~job.aborted
               /\ \E durable \in BOOLEAN : Publish("job_progress", w, durable)
      <4>1. PICK durable \in BOOLEAN : Publish("job_progress", w, durable)
        BY <3>3
      <4>2. PICK e : e = Event("job_progress", w, durable)
        OBVIOUS
      <4>3. events' = Append(events, e)
        BY <4>1, <4>2 DEF Publish
      <4>4. /\ events' \in Seq(Events) /\ Ordered(events') /\ InChain(events') = InChain(events) \cup {e}
            /\ events' # <<>> /\ (events # <<>> => Head1' = Head1)
            /\ e.by = w /\ e.kind = "job_progress" /\ machine.status = "processing"
        BY <1>1, <3>3, <4>2, <4>3, WorkerMayPublish DEF Head1
      <4>5. worker'[w].at = "reporting"
        BY <1>4, <3>3
      <4>6. Due(e)'
        BY <1>1, <4>4, <4>5 DEF Due, DueToWorker
      <4>. QED
        BY <3>1, <4>4, <4>6
    <3>. QED
      BY <1>6, <3>2, <3>3 DEF Recorded, MoveTo
  <2>6. TypeOK'
    BY <1>1, <1>6, <2>1, <2>2, <2>4, <2>5 DEF TypeOK
  <2>7. ChainInv'
    BY <2>5 DEF ChainInv
  <2>8. StageInv' /\ CallInv'
    BY <1>1, <1>2, <2>2 DEF StageInv, CallInv
  <2>9. RunInv' /\ HistoryInv'
    BY <1>1, <1>2, <2>2, <2>5 DEF RunInv, HistoryInv, AheadOf, Next1
  <2>10. StopInv'
    BY <1>1, <1>2 DEF StopInv, Admitted
  <2>11. WorkersInv'
    BY <1>2, <2>2, <2>4 DEF WorkersInv
  <2>12. TakenInv'
    <3>1. \A v \in Workers : HolderInv(v)' /\ WorkerInv(v)'
      BY <1>1, <2>2, <2>4 DEF TakenInv, HolderInv, WorkerInv, Holding
    <3>2. \A p \in Ops : LedgerInv(p)'
      BY <1>1, <1>2, <2>2, <2>4 DEF TakenInv, LedgerInv
    <3>. QED
      BY <3>1, <3>2 DEF TakenInv
  <2>13. EvidenceInv'
    <3>1. ~\E v \in Workers : worker'[v].at = "recording" /\ worker'[v].op = o
      BY <1>3, <2>4 DEF Holding
    <3>2. \A p \in Ops \ {o} : (\E v \in Workers : worker[v].at = "recording" /\ worker[v].op = p)
                               <=> (\E v \in Workers : worker'[v].at = "recording" /\ worker'[v].op = p)
      BY <1>0, <2>4
    <3>. QED
      BY <1>2, <1>3, <1>6, <2>1, <2>2, <3>1, <3>2 DEF EvidenceInv
  <2>14. TerminalTellsTheTruth' /\ EvidenceIsComplete'
    BY <1>1, <1>5, <2>1 DEF TerminalTellsTheTruth, EvidenceIsComplete
  <2>. QED
    BY <2>6, <2>7, <2>8, <2>9, <2>10, <2>11, <2>12, <2>13, <2>14
<1>7. ASSUME spent' \in [faults : 0 .. MaxFaults, crashes : 0 .. MaxCrashes],
             evidence' = Manifest("failed"), WorkerFails(w)
      PROVE  CoordInv'
  <2>1. /\ evidence' \in Manifests /\ evidence'.state = "failed" /\ evidence'.ending = evidence.ending
        /\ evidence'.ledger = evidence.ledger
    BY <1>1, <1>7 DEF Manifests, Manifest
  <2>2. UNCHANGED events /\ worker' = [worker EXCEPT ![w].at = "failed"]
        /\ job' = [job EXCEPT !.failed = TRUE]
    BY <1>7 DEF WorkerFails, MoveTo
  <2>3. /\ job' \in Jobs /\ job'.next = job.next /\ job'.run = job.run /\ job'.aborted = job.aborted
        /\ job'.cancel = job.cancel /\ job'.failed = TRUE /\ job'.emitted = job.emitted
        /\ job'.ledger = job.ledger /\ job'.claims = job.claims
    BY <1>1, <2>2 DEF Jobs
  <2>4. /\ worker' \in [Workers -> Places] /\ worker'[w].at = "failed"
        /\ \A v \in Workers \ {w} : worker'[v] = worker[v]
    BY <1>4, <2>2
  <2>5. ChainInv'
    BY <1>1, <1>2, <2>2, <2>3, <2>4
       DEF ChainInv, Due, DueToPreview, DueToCall, DueToWorker, DueToCancel, DueToRun
  <2>6. TypeOK'
    BY <1>1, <1>7, <2>1, <2>2, <2>3, <2>4 DEF TypeOK
  <2>7. StageInv' /\ CallInv'
    BY <1>1, <1>2, <2>3 DEF StageInv, CallInv
  <2>8. RunInv' /\ HistoryInv'
    BY <1>1, <1>2, <2>2, <2>3 DEF RunInv, HistoryInv, AheadOf, Head1, Next1
  <2>9. StopInv'
    BY <1>1, <1>2 DEF StopInv, Admitted
  <2>10. WorkersInv'
    BY <1>2, <2>3, <2>4 DEF WorkersInv
  <2>11. TakenInv'
    <3>1. \A v \in Workers : HolderInv(v)' /\ WorkerInv(v)'
      BY <1>1, <2>3, <2>4 DEF TakenInv, HolderInv, WorkerInv, Holding
    <3>2. \A p \in Ops : LedgerInv(p)'
      BY <1>1, <1>2, <2>3, <2>4 DEF TakenInv, LedgerInv
    <3>. QED
      BY <3>1, <3>2 DEF TakenInv
  <2>12. EvidenceInv'
    BY <2>1 DEF EvidenceInv
  <2>13. TerminalTellsTheTruth' /\ EvidenceIsComplete'
    BY <1>1, <1>5, <2>1 DEF TerminalTellsTheTruth, EvidenceIsComplete
  <2>. QED
    BY <2>5, <2>6, <2>7, <2>8, <2>9, <2>10, <2>11, <2>12, <2>13
<1>. QED
  BY <1>0, <1>1, <1>6, <1>7, FaultIsCounted DEF Record

(* The terminal: every taken operation is settled, and what is claimed is  *)
(* the ledger.                                                             *)
LEMMA WorkersEndStep ==
  ASSUME CoordInv, WorkersEnd
  PROVE  CoordInv'
<1>. USE DEF CoordInv
<1>1. PICK kind : kind = (CASE job.failed  -> "failed"
                            [] job.aborted -> "cancelled"
                            [] OTHER       -> Verdict(job.ledger))
  OBVIOUS
<1>. DEFINE e == Event(kind, "run", TRUE)
<1>2. /\ job.run = "working" /\ job \in Jobs /\ worker \in [Workers -> Places]
      /\ \A w \in Workers : worker[w].at \in {"done", "failed"}
      /\ job' = [job EXCEPT !.emitted = TRUE, !.claims = job.ledger, !.run = "ending"]
      /\ events' = Append(events, e)
      /\ UNCHANGED <<machine, written, preview, call, worker, stop, up, poisoned, spent, truth, history, evidence>>
  BY <1>1 DEF WorkersEnd, Emit, Publish, Over, TypeOK, life, sinks
<1>3. kind \in TerminalStatuses /\ (job.failed \/ job.aborted => kind \in {"failed", "cancelled"})
  <2>1. Verdict(job.ledger) \in TerminalStatuses
    BY DEF Verdict, TerminalStatuses
  <2>2. CASE job.failed
    BY <1>1, <2>2 DEF TerminalStatuses
  <2>3. CASE ~job.failed /\ job.aborted
    BY <1>1, <2>3 DEF TerminalStatuses
  <2>4. CASE ~job.failed /\ ~job.aborted
    BY <1>1, <2>1, <2>4
  <2>. QED
    BY <2>2, <2>3, <2>4
<1>4. e \in Events /\ e.by = "run" /\ e.kind = kind /\ e.durable
  BY <1>3, StatusesAre DEF Event, Events, Actors, TerminalStatuses
<1>. HIDE DEF e
<1>5. /\ preview.stage = "available" /\ preview.consumed /\ ~job.emitted
      /\ machine.status \in {"processing", "cancelling"} /\ history.status \notin TerminalStatuses
      /\ \A c \in Calls : call[c] \notin Early
      /\ stop \notin {"quiet", "closed"}
  BY <1>2 DEF RunInv, CallInv, HistoryInv, StopInv, Emitted
<1>6. \A f \in InChain(events) : f.by # "run" /\ f.kind \notin TerminalStatuses
  BY <1>2, <1>5, ActorAssumption
     DEF ChainInv, Due, DueToPreview, DueToCall, DueToWorker, DueToCancel, DueToRun, Early, TerminalStatuses
<1>7. /\ events' \in Seq(Events) /\ Ordered(events') /\ InChain(events') = InChain(events) \cup {e}
      /\ events' # <<>> /\ (events # <<>> => Head1' = Head1)
  <2>1. kind # "processing"
    BY <1>3 DEF TerminalStatuses
  <2>. QED
    BY <1>2, <1>4, <1>6, <2>1, Published DEF Head1
<1>8. /\ job' \in Jobs /\ job'.next = job.next /\ job'.run = "ending" /\ job'.aborted = job.aborted
      /\ job'.cancel = job.cancel /\ job'.failed = job.failed /\ job'.emitted = TRUE
      /\ job'.ledger = job.ledger /\ job'.claims = job.ledger
  BY <1>2 DEF Jobs
<1>9. kind = "completed" => \A o \in Ops : job.ledger[o] \in {"committed", "skipped"}
  <2>1. SUFFICES ASSUME kind = "completed", NEW o \in Ops PROVE job.ledger[o] \in {"committed", "skipped"}
    OBVIOUS
  <2>2. ~job.failed /\ ~job.aborted
    BY <1>3, <2>1
  <2>3. Verdict(job.ledger) = "completed"
    BY <1>1, <2>1, <2>2
  <2>4. job.ledger[o] # "failed"
    <3>1. {p \in Ops : job.ledger[p] = "failed"} = {}
      BY <2>3 DEF Verdict
    <3>. QED
      BY <3>1
  <2>5. job.next = OpCount + 1
    <3>1. PICK w \in Workers : TRUE
      BY ActorAssumption, PlanAssumption DEF Ops
    <3>. QED
      BY <1>2, <2>2, <3>1 DEF TakenInv, WorkerInv
  <2>6. o < job.next /\ LedgerInv(o)
    BY <1>5, <2>5, PlanAssumption DEF Ops, TakenInv
  <2>7. job.ledger[o] # "none"
    BY <1>2, <2>2, <2>6 DEF LedgerInv
  <2>8. job.ledger[o] \notin {"cancelled", "residue"}
    BY <2>2, <2>6 DEF LedgerInv
  <2>9. job.ledger[o] \in Outcomes \cup {"none"}
    BY <1>2 DEF Jobs, Ledgers
  <2>. QED
    BY <2>4, <2>7, <2>8, <2>9 DEF Outcomes
<1>10. TypeOK'
  BY <1>2, <1>7, <1>8 DEF TypeOK
<1>11. ChainInv'
  <2>1. \A f \in InChain(events) : Due(f)'
    BY <1>2, <1>5, <1>6, <1>8 DEF ChainInv, Due, DueToPreview, DueToCall, DueToWorker, DueToCancel, DueToRun
  <2>2. Due(e)'
    BY <1>2, <1>3, <1>4, <1>5, <1>8, <1>9 DEF Due, DueToRun, RunInv
  <2>. QED
    BY <1>7, <2>1, <2>2 DEF ChainInv
<1>12. StageInv' /\ CallInv' /\ StopInv'
  BY <1>2, <1>5 DEF StageInv, CallInv, StopInv, Admitted
<1>13. RunInv'
  BY <1>2, <1>5, <1>7, <1>8 DEF RunInv, Emitted
<1>14. WorkersInv'
  BY <1>2, <1>8 DEF WorkersInv
<1>15. HistoryInv'
  <2>1. written => Head1.kind \notin TerminalStatuses
    BY <1>6, HeadIsDue DEF HistoryInv
  <2>. QED
    BY <1>2, <1>5, <1>7, <1>8, <2>1 DEF HistoryInv, AheadOf, Next1
<1>16. TakenInv'
  BY <1>2, <1>8 DEF TakenInv, HolderInv, WorkerInv, LedgerInv
<1>17. EvidenceInv' /\ TerminalTellsTheTruth' /\ EvidenceIsComplete'
  BY <1>2, <1>8 DEF EvidenceInv, TerminalTellsTheTruth, EvidenceIsComplete
<1>. QED
  BY <1>10, <1>11, <1>12, <1>13, <1>14, <1>15, <1>16, <1>17

LEMMA ClosingChain ==
  ASSUME CoordInv, job.run \in {"closing", "ended", "lost"}, machine.status \in TerminalStatuses
  PROVE  events = <<>>
<1>1. job.emitted /\ preview.stage = "available" /\ job.run # "none"
  BY DEF CoordInv, RunInv, Emitted
<1>2. /\ \A c \in Calls : call[c] \notin Early
      /\ \A w \in Workers : worker[w].at \in {"off", "done", "failed"}
  BY <1>1 DEF CoordInv, CallInv, WorkersInv
<1>3. InChain(events) = {}
  BY <1>1, <1>2 DEF CoordInv, ChainInv, Due, DueToPreview, DueToCall, DueToWorker, DueToCancel, DueToRun, Early,
     TerminalStatuses
<1>. QED
  BY <1>3, EmptyChain DEF CoordInv, TypeOK

LEMMA CloseEvidenceStep ==
  ASSUME CoordInv, CloseEvidence
  PROVE  CoordInv'
<1>. USE DEF CoordInv
<1>1. /\ job.run = "closing" /\ job \in Jobs /\ evidence \in Manifests
      /\ spent \in [faults : 0 .. MaxFaults, crashes : 0 .. MaxCrashes]
      /\ UNCHANGED <<machine, events, written, preview, call, worker, stop, up, poisoned, truth, history>>
  BY DEF CloseEvidence, TypeOK
<1>2. /\ preview.stage = "available" /\ preview.consumed /\ job.emitted
      /\ machine.status \in TerminalStatuses /\ history.status = machine.status /\ history.claims = job.claims
      /\ job.claims = job.ledger /\ events = <<>> /\ InChain(events) = {}
      /\ stop \notin {"quiet", "closed"}
      /\ \A c \in Calls : call[c] \notin Early
      /\ \A w \in Workers : worker[w].at \in {"off", "done", "failed"}
  BY <1>1, ClosingChain, EmptyChain DEF RunInv, HistoryInv, WorkersInv, StopInv, CallInv, Emitted
<1>3. /\ job' = [job EXCEPT !.run = job'.run] /\ job'.run \in {"ended", "lost"}
      /\ evidence' \in Manifests /\ evidence'.state \in {"closed", "failed"}
      /\ evidence'.ledger = evidence.ledger
      /\ \/ evidence'.ending = evidence.ending
         \/ evidence.state = "open" /\ evidence'.ending = machine.status
      /\ spent' \in [faults : 0 .. MaxFaults, crashes : 0 .. MaxCrashes]
  <2>1. CASE /\ evidence.state = "open" /\ UNCHANGED spent
             /\ evidence' = [evidence EXCEPT !.state = "closed", !.ending = machine.status]
             /\ job' = [job EXCEPT !.run = "ended"]
    BY <1>1, <1>2, <2>1 DEF Jobs, Manifests
  <2>2. CASE /\ \/ evidence.state # "open" /\ UNCHANGED spent
                \/ Fault
             /\ evidence' = Manifest("failed")
             /\ job' = [job EXCEPT !.run = "lost"]
    BY <1>1, <2>2, FaultIsCounted DEF Jobs, Manifests, Manifest
  <2>. QED
    BY <2>1, <2>2 DEF CloseEvidence
<1>4. /\ job' \in Jobs /\ job'.next = job.next /\ job'.aborted = job.aborted
      /\ job'.cancel = job.cancel /\ job'.failed = job.failed /\ job'.emitted = job.emitted
      /\ job'.ledger = job.ledger /\ job'.claims = job.claims
  BY <1>1, <1>3 DEF Jobs
<1>5. TypeOK'
  BY <1>1, <1>3, <1>4 DEF TypeOK
<1>6. ChainInv'
  BY <1>1, <1>2 DEF ChainInv
<1>7. StageInv' /\ CallInv' /\ StopInv'
  BY <1>1, <1>2, <1>3 DEF StageInv, CallInv, StopInv, Admitted
<1>8. RunInv' /\ WorkersInv' /\ HistoryInv'
  BY <1>1, <1>2, <1>3, <1>4 DEF RunInv, WorkersInv, HistoryInv, Emitted
<1>9. TakenInv'
  BY <1>1, <1>4 DEF TakenInv, HolderInv, WorkerInv, LedgerInv
<1>10. EvidenceInv' /\ TerminalTellsTheTruth'
  BY <1>1, <1>3 DEF EvidenceInv, TerminalTellsTheTruth
<1>11. EvidenceIsComplete'
  <2>1. CASE evidence'.ending = evidence.ending
    BY <1>1, <1>3, <2>1 DEF EvidenceIsComplete
  <2>2. CASE evidence.state = "open" /\ evidence'.ending = machine.status
    <3>1. evidence.ledger = Settled(history.claims)
      <4>1. evidence.ledger \subseteq Ops
        BY <1>1 DEF Manifests
      <4>2. \A o \in Ops : o \in evidence.ledger <=> job.ledger[o] # "none"
        BY <1>2, <2>2 DEF EvidenceInv
      <4>. QED
        BY <1>2, <4>1, <4>2 DEF Settled
    <3>2. history.claims # Unsaid
      <4>1. 1 \in Ops /\ job.claims \in Ledgers
        BY <1>1, PlanAssumption DEF Ops, Jobs
      <4>. QED
        BY <1>2, <4>1 DEF Unsaid, Ledgers, Outcomes
    <3>. QED
      BY <1>1, <1>2, <1>3, <2>2, <3>1, <3>2 DEF EvidenceIsComplete
  <2>. QED
    BY <1>3, <2>1, <2>2
<1>. QED
  BY <1>5, <1>6, <1>7, <1>8, <1>9, <1>10, <1>11

LEMMA CloseSinksStep ==
  ASSUME CoordInv, CloseSinks
  PROVE  CoordInv'
<1>. USE DEF CoordInv
<1>1. /\ stop = "quiet" /\ stop' = "closed" /\ evidence \in Manifests
      /\ spent \in [faults : 0 .. MaxFaults, crashes : 0 .. MaxCrashes]
      /\ UNCHANGED <<machine, events, written, preview, call, job, worker, up, poisoned, truth, history>>
  BY DEF CloseSinks, TypeOK
<1>2. events = <<>> /\ InChain(events) = {} /\ ~Admitted
  BY <1>1, EmptyChain DEF StopInv
<1>3. /\ evidence' \in Manifests /\ evidence'.ledger = evidence.ledger
      /\ \/ evidence' = evidence
         \/ evidence.state = "open" /\ evidence'.state # "open" /\ evidence'.ending \notin TerminalStatuses
      /\ spent' \in [faults : 0 .. MaxFaults, crashes : 0 .. MaxCrashes]
  <2>1. CASE evidence.state = "open"
    <3>1. evidence.ending = "none"
      BY <2>1 DEF EvidenceInv
    <3>2. CASE evidence' = [evidence EXCEPT !.state = "closed", !.ending = "shutdown"] /\ UNCHANGED spent
      BY <1>1, <2>1, <3>2 DEF Manifests, TerminalStatuses
    <3>3. CASE Fault /\ evidence' = Manifest("failed")
      BY <1>1, <2>1, <3>1, <3>3, FaultIsCounted DEF Manifests, Manifest, TerminalStatuses
    <3>. QED
      BY <2>1, <3>2, <3>3 DEF CloseSinks
  <2>2. CASE evidence.state # "open"
    BY <1>1, <2>2 DEF CloseSinks
  <2>. QED
    BY <2>1, <2>2
<1>4. TypeOK'
  BY <1>1, <1>3 DEF TypeOK
<1>5. ChainInv' /\ CallInv' /\ RunInv' /\ WorkersInv'
  BY <1>1, <1>2 DEF ChainInv, CallInv, RunInv, WorkersInv, Head1
<1>6. StageInv'
  BY <1>1, <1>2, <1>3 DEF StageInv, Admitted
<1>7. HistoryInv' /\ TakenInv' /\ TerminalTellsTheTruth'
  BY <1>1, <1>2 DEF HistoryInv, TakenInv, HolderInv, WorkerInv, LedgerInv, TerminalTellsTheTruth
<1>8. EvidenceInv' /\ EvidenceIsComplete'
  BY <1>1, <1>3 DEF EvidenceInv, EvidenceIsComplete
<1>9. StopInv'
  BY <1>1, <1>2 DEF StopInv, Admitted
<1>. QED
  BY <1>4, <1>5, <1>6, <1>7, <1>8, <1>9

LEMMA DieStep ==
  ASSUME CoordInv, Die
  PROVE  CoordInv'
<1>. USE DEF CoordInv
<1>1. /\ up' = FALSE /\ poisoned' = FALSE
      /\ machine' = NewMachine /\ events' = <<>> /\ written' = FALSE
      /\ preview' = [NoPreview EXCEPT !.stage = "gone"]
      /\ call' = [c \in Calls |-> "refused"]
      /\ job' = NoJob /\ worker' = [w \in Workers |-> Idle]
      /\ UNCHANGED <<stop, truth, history, evidence>>
  BY DEF Die, sinks
<1>2. preview' \in Previews /\ preview'.stage = "gone"
  BY <1>1 DEF NoPreview, Previews
<1>3. NoJob \in Jobs /\ Idle \in Places /\ machine' \in [status : Statuses, last : Nat]
  BY <1>1, StatusesAre, PlanAssumption DEF NoJob, Jobs, Nothing, Ledgers, Idle, Places, NewMachine
<1>4. /\ job'.run = "none" /\ ~job'.aborted /\ job'.cancel = "none" /\ ~job'.emitted
      /\ \A w \in Workers : worker'[w] = Idle
  BY <1>1 DEF NoJob
<1>5. spent' \in [faults : 0 .. MaxFaults, crashes : 0 .. MaxCrashes]
  <2>1. spent \in [faults : 0 .. MaxFaults, crashes : 0 .. MaxCrashes]
    BY DEF TypeOK
  <2>. QED
    BY <2>1, BoundAssumption DEF Die
<1>6. TypeOK'
  BY <1>1, <1>2, <1>3, <1>5, EmptyChain DEF TypeOK
<1>7. ChainInv'
  BY <1>1, EmptyChain DEF ChainInv
<1>8. StageInv' /\ CallInv'
  BY <1>1, <1>2 DEF StageInv, CallInv, Early
<1>9. RunInv' /\ WorkersInv' /\ HistoryInv'
  BY <1>1, <1>2, <1>4 DEF RunInv, WorkersInv, HistoryInv, NewMachine, Emitted
<1>10. TakenInv'
  BY <1>2, <1>4 DEF TakenInv, HolderInv, WorkerInv, Holding, Idle
<1>11. EvidenceInv' /\ TerminalTellsTheTruth' /\ EvidenceIsComplete'
  BY <1>1, <1>2 DEF EvidenceInv, TerminalTellsTheTruth, EvidenceIsComplete
<1>12. StopInv'
  BY <1>1, <1>2, <1>4 DEF StopInv, Admitted
<1>. QED
  BY <1>6, <1>7, <1>8, <1>9, <1>10, <1>11, <1>12

LEMMA RestartStep ==
  ASSUME CoordInv, Restart
  PROVE  CoordInv'
<1>. USE DEF CoordInv
<1>1. /\ ~up /\ up' = TRUE /\ stop' = "closed" /\ preview.stage = "gone" /\ history \in Histories
      /\ history' = IF history.status \in ActiveStatuses THEN Interrupted ELSE history
      /\ UNCHANGED <<machine, events, written, preview, call, job, worker, poisoned, spent, truth, evidence>>
  BY DEF Restart, StageInv, TypeOK
<1>2. job.run = "none" /\ \A c \in Calls : call[c] \notin Early
  BY <1>1 DEF RunInv, CallInv
<1>3. events = <<>> /\ InChain(events) = {}
  BY <1>1, <1>2, QuietChain DEF Early
<1>4. /\ history' \in Histories /\ history'.status \notin ActiveStatuses
      /\ history' = history \/ (history.status \in ActiveStatuses /\ history'.claims = Unsaid)
  <2>1. Interrupted \in Histories /\ Interrupted.claims = Unsaid /\ Interrupted.status = "failed"
    BY <1>1, StatusesAre DEF Interrupted, Histories
  <2>. QED
    BY <1>1, <2>1 DEF ActiveStatuses
<1>5. TypeOK'
  BY <1>1, <1>4 DEF TypeOK
<1>6. ChainInv' /\ CallInv' /\ RunInv' /\ WorkersInv' /\ TakenInv' /\ EvidenceInv'
  BY <1>1, <1>2, <1>3 DEF ChainInv, CallInv, RunInv, WorkersInv, TakenInv, HolderInv, WorkerInv, EvidenceInv
<1>7. StageInv'
  BY <1>1, <1>4 DEF StageInv
<1>8. HistoryInv'
  BY <1>1, <1>2, <1>3 DEF HistoryInv
<1>9. StopInv'
  BY <1>1, <1>2, <1>3 DEF StopInv, Admitted, Early
<1>10. TerminalTellsTheTruth'
  BY <1>1, <1>4 DEF TerminalTellsTheTruth
<1>11. EvidenceIsComplete'
  BY <1>1, <1>4 DEF EvidenceIsComplete, ActiveStatuses, TerminalStatuses
<1>. QED
  BY <1>5, <1>6, <1>7, <1>8, <1>9, <1>10, <1>11

(* Whatever is at the head is legal, in memory and in the history.         *)
LEMMA DurableIsTheJob ==
  ASSUME CoordInv, events # <<>>, Head1.durable
  PROVE  preview.stage = "available"
<1>1. Due(Head1)
  BY HeadIsDue
<1>2. CASE DueToCall(Head1)
  BY <1>2 DEF DueToCall, CoordInv, CallInv, Early
<1>3. CASE DueToWorker(Head1)
  BY <1>3, WorkerIsWorking DEF DueToWorker
<1>4. CASE DueToCancel(Head1) \/ DueToRun(Head1)
  BY <1>4 DEF DueToCancel, DueToRun, CoordInv, RunInv, NoJob
<1>. QED
  BY <1>1, <1>2, <1>3, <1>4 DEF Due, DueToPreview

LEMMA HeadIsLegal ==
  ASSUME CoordInv, events # <<>>
  PROVE  /\ Accepts(machine, Head1.kind, Next1)
         /\ Head1.durable /\ ~poisoned /\ ~written => Admits(Head1.kind)
<1>1. Due(Head1) /\ Head1.kind \in Kinds
  BY HeadIsDue DEF Events
<1>2. \/ machine.status = "draft" /\ Head1.kind = "previewing"
      \/ machine.status = "previewing" /\ Head1.kind \in {"failed", "ready"}
      \/ machine.status = "ready" /\ Head1.kind = "queued"
      \/ machine.status = "queued" /\ Head1.kind \in {"processing", "cancelling", "failed", "cancelled"}
      \/ machine.status = "processing" /\ Head1.kind \in TerminalStatuses \cup {"job_progress", "cancelling"}
      \/ machine.status = "cancelling" /\ Head1.kind \in {"failed", "cancelled"}
  <2>1. CASE DueToPreview(Head1)
    BY <2>1 DEF DueToPreview, CoordInv, StageInv
  <2>2. CASE DueToCall(Head1)
    BY <2>2 DEF DueToCall, CoordInv, CallInv, RunInv, Early
  <2>3. CASE DueToWorker(Head1)
    BY <2>3 DEF DueToWorker
  <2>4. CASE DueToCancel(Head1)
    BY <2>4 DEF DueToCancel
  <2>5. CASE DueToRun(Head1)
    BY <2>5 DEF DueToRun, CoordInv, RunInv, TerminalStatuses
  <2>. QED
    BY <1>1, <2>1, <2>2, <2>3, <2>4, <2>5 DEF Due
<1>3. /\ machine = [status |-> machine.status, last |-> machine.last] /\ machine.status \in Statuses
      /\ machine.last \in Nat /\ Next1 \in Nat /\ Next1 > machine.last
      /\ history.status \in Statuses /\ history.last \in Nat
  BY DEF CoordInv, TypeOK, Next1, Histories
<1>4. \A n \in Nat : Next1 > n => Accepts([status |-> machine.status, last |-> n], Head1.kind, Next1)
  BY <1>2, <1>3, LegalMoves
<1>5. Accepts(machine, Head1.kind, Next1)
  BY <1>3, <1>4
<1>6. ASSUME Head1.durable, ~poisoned, ~written PROVE Admits(Head1.kind)
  <2>1. history.status = machine.status /\ history.last <= machine.last
    BY <1>6, DurableIsTheJob DEF CoordInv, HistoryInv
  <2>2. Next1 > history.last
    BY <1>3, <2>1
  <2>. QED
    BY <1>3, <1>4, <2>1, <2>2 DEF Admits
<1>. QED
  BY <1>5, <1>6

(* A line of the history: its status, and what a terminal claims.          *)
LEMMA WrittenIsTrue ==
  ASSUME CoordInv, events # <<>>, Head1.durable, ~written, Admits(Head1.kind),
         history' = Written(Head1.kind), UNCHANGED <<truth, evidence>>
  PROVE  /\ history' \in Histories /\ TerminalTellsTheTruth' /\ EvidenceIsComplete'
         /\ history'.status = (IF Head1.kind = "job_progress" THEN history.status ELSE Head1.kind)
         /\ history'.last = Next1
         /\ history.status \notin TerminalStatuses
         /\ Head1.kind \in TerminalStatuses => history'.claims = job.claims
         /\ history'.status \in TerminalStatuses => job.run = "ending"
<1>. USE DEF CoordInv
<1>1. Due(Head1) /\ Head1.kind \in Kinds /\ Head1.kind \notin {"preview_progress", "draft"} /\ Next1 \in Nat
      /\ history.status \in Statuses /\ job \in Jobs
  <2>1. Due(Head1) /\ Head1.kind \in Kinds
    BY HeadIsDue DEF Events
  <2>2. Head1.kind \notin {"preview_progress", "draft"}
    BY <2>1 DEF Due, DueToPreview, DueToCall, DueToWorker, DueToCancel, DueToRun, TerminalStatuses
  <2>. QED
    BY <2>1, <2>2 DEF TypeOK, Next1, Histories
<1>2. Head1.kind \in Statuses \/ Head1.kind = "job_progress"
  BY <1>1, StatusesAre
<1>3. history.status \notin TerminalStatuses
  BY AcceptsRefuses DEF Admits
<1>4. /\ history'.status = (IF Head1.kind = "job_progress" THEN history.status ELSE Head1.kind)
      /\ history'.last = Next1 /\ history'.claims = Claims(Head1.kind)
      /\ history' = [status |-> history'.status, last |-> history'.last, claims |-> history'.claims]
  <2>1. "job_progress" \notin Statuses
    BY StatusesAre
  <2>. QED
    BY <1>1, <1>2, <2>1, AfterIs DEF Written
<1>5. Claims(Head1.kind) \in Ledgers
  BY <1>1 DEF Claims, Jobs, Ledgers, Nothing
<1>6. history' \in Histories
  BY <1>1, <1>2, <1>4, <1>5 DEF Histories
<1>7. history'.status \in TerminalStatuses => Head1.kind \in TerminalStatuses /\ Head1.kind = history'.status
  BY <1>3, <1>4
<1>8. Head1.kind \in TerminalStatuses =>
        /\ DueToRun(Head1) /\ job.run = "ending" /\ job.emitted /\ preview.stage = "available"
        /\ job.claims = job.ledger /\ Claims(Head1.kind) = job.claims
  <2>1. SUFFICES ASSUME Head1.kind \in TerminalStatuses
                 PROVE  /\ DueToRun(Head1) /\ job.run = "ending" /\ job.emitted /\ preview.stage = "available"
                        /\ job.claims = job.ledger /\ Claims(Head1.kind) = job.claims
    OBVIOUS
  <2>2. DueToRun(Head1) /\ job.run = "ending"
    BY <1>1, <2>1 DEF Due, DueToPreview, DueToCall, DueToWorker, DueToCancel, DueToRun, TerminalStatuses
  <2>. QED
    BY <2>1, <2>2 DEF RunInv, Emitted, Claims
<1>9. TerminalTellsTheTruth'
  <2>1. SUFFICES ASSUME Head1.kind \in TerminalStatuses, history'.status = Head1.kind,
                        history'.claims = job.ledger
                 PROVE  TerminalTellsTheTruth'
    BY <1>4, <1>7, <1>8 DEF TerminalTellsTheTruth
  <2>2. Head1.kind = "completed" => \A o \in Ops : job.ledger[o] \in {"committed", "skipped"}
    BY <1>8, <2>1 DEF DueToRun
  <2>3. \A o \in Ops : /\ job.ledger[o] \in {"none", "cancelled", "skipped"} => truth[o] = "untouched"
                       /\ job.ledger[o] \in {"committed", "residue"} => truth[o] = "done"
    BY <1>8, <2>1 DEF TakenInv, LedgerInv
  <2>. QED
    BY <2>1, <2>2, <2>3 DEF TerminalTellsTheTruth
<1>10. EvidenceIsComplete'
  BY <1>3 DEF EvidenceIsComplete
<1>. QED
  BY <1>3, <1>4, <1>6, <1>7, <1>8, <1>9, <1>10

LEMMA WriteEventStep ==
  ASSUME CoordInv, WriteEvent
  PROVE  CoordInv'
<1>. USE DEF CoordInv
<1>1. /\ events # <<>> /\ ~written /\ ~poisoned /\ Head1.durable /\ Admits(Head1.kind)
      /\ history' = Written(Head1.kind) /\ written' = TRUE
      /\ UNCHANGED <<machine, events, preview, call, job, worker, stop, up, poisoned, spent, truth, evidence>>
  BY DEF WriteEvent, life
<1>2. preview.stage = "available"
  BY <1>1, DurableIsTheJob
<1>3. /\ history' \in Histories /\ TerminalTellsTheTruth' /\ EvidenceIsComplete'
      /\ history'.status = (IF Head1.kind = "job_progress" THEN history.status ELSE Head1.kind)
      /\ history'.last = Next1
      /\ Head1.kind \in TerminalStatuses => history'.claims = job.claims
      /\ history'.status \in TerminalStatuses => job.run = "ending"
  BY <1>1, WrittenIsTrue
<1>4. TypeOK'
  BY <1>1, <1>3 DEF TypeOK
<1>5. ChainInv' /\ CallInv' /\ RunInv' /\ WorkersInv'
  <2>1. ChainInv'
    BY <1>1 DEF ChainInv, Due, DueToPreview, DueToCall, DueToWorker, DueToCancel, DueToRun
  <2>2. CallInv' /\ RunInv' /\ WorkersInv'
    BY <1>1 DEF CallInv, RunInv, WorkersInv, Head1
  <2>. QED
    BY <2>1, <2>2
<1>6. StageInv'
  BY <1>1, <1>2 DEF StageInv
<1>7. HistoryInv'
  <2>1. AheadOf(Head1.kind)'
    <3>1. /\ Head1.kind \in Kinds
          /\ Head1.kind \in Statuses \/ Head1.kind = "job_progress"
          /\ "job_progress" \notin Statuses
      <4>1. Head1.kind \in Kinds /\ Due(Head1)
        BY <1>1, HeadIsDue DEF Events
      <4>2. Head1.kind # "preview_progress"
        BY <4>1 DEF Due, DueToPreview, DueToCall, DueToWorker, DueToCancel, DueToRun, TerminalStatuses
      <4>. QED
        BY <4>1, <4>2, StatusesAre
    <3>2. After(machine, Head1.kind, Next1).status =
            IF Head1.kind = "job_progress" THEN machine.status ELSE Head1.kind
      BY <3>1, MachineAfter
    <3>3. history.status = machine.status
      BY <1>1, <1>2 DEF HistoryInv
    <3>. QED
      BY <1>1, <1>3, <3>2, <3>3 DEF AheadOf, Next1, Head1
  <2>2. job.run # "closing"
    BY <1>1, ClosingChain DEF HistoryInv
  <2>. QED
    BY <1>1, <1>3, <2>1, <2>2 DEF HistoryInv, Head1, Emitted
<1>8. TakenInv' /\ EvidenceInv' /\ StopInv'
  BY <1>1 DEF TakenInv, HolderInv, WorkerInv, LedgerInv, EvidenceInv, StopInv, Admitted
<1>. QED
  BY <1>3, <1>4, <1>5, <1>6, <1>7, <1>8

(* The two ways in which the head leaves the chain.                        *)
Delivers == /\ machine' = After(machine, Head1.kind, Next1) /\ written' = FALSE
            /\ written \/ ~Head1.durable
            /\ UNCHANGED <<poisoned, spent, history>>
Refuses  == /\ Head1.durable /\ ~written /\ written' = FALSE /\ poisoned' = TRUE /\ UNCHANGED machine
            /\ history' = history \/ (Admits(Head1.kind) /\ history' = Written(Head1.kind))
            /\ spent' \in [faults : 0 .. MaxFaults, crashes : 0 .. MaxCrashes]
Standing == UNCHANGED <<stop, up, truth, evidence>>

LEMMA RefusedIsPoisoned ==
  ASSUME CoordInv, RefuseEvent
  PROVE  Refuses
<1>1. events # <<>> /\ ~written /\ UNCHANGED <<machine, written>>
      /\ spent \in [faults : 0 .. MaxFaults, crashes : 0 .. MaxCrashes]
  BY DEF RefuseEvent, CoordInv, TypeOK
<1>2. CASE /\ Head1.durable /\ ~poisoned /\ Admits(Head1.kind) /\ Fault
           /\ poisoned' = TRUE /\ history' \in {history, Written(Head1.kind)}
  BY <1>1, <1>2, FaultIsCounted DEF Refuses
<1>3. CASE /\ \/ ~Accepts(machine, Head1.kind, Next1)
              \/ Head1.durable /\ (poisoned \/ ~Admits(Head1.kind))
           /\ UNCHANGED <<poisoned, spent, history>>
  <2>1. Head1.durable /\ poisoned
    BY <1>1, <1>3, HeadIsLegal
  <2>2. poisoned' = TRUE
    BY <1>3, <2>1 DEF CoordInv, TypeOK
  <2>. QED
    BY <1>1, <1>3, <2>1, <2>2 DEF Refuses
<1>. QED
  BY <1>2, <1>3 DEF RefuseEvent

LEMMA HeadLeaves ==
  ASSUME CoordInv, events # <<>>, Delivers \/ Refuses, Standing
  PROVE  /\ machine' \in [status : Statuses, last : Nat] /\ history' \in Histories
         /\ written' = FALSE /\ poisoned' \in BOOLEAN
         /\ spent' \in [faults : 0 .. MaxFaults, crashes : 0 .. MaxCrashes]
         /\ TerminalTellsTheTruth' /\ EvidenceIsComplete'
         /\ history'.status \in TerminalStatuses => history.status \in TerminalStatuses \/ job.run = "ending"
         /\ preview.stage = "available" /\ ~poisoned' =>
              history'.status = machine'.status /\ history'.last <= machine'.last
         /\ preview.stage # "available" => history' = history /\ poisoned' = poisoned /\ Delivers
         /\ Refuses => machine' = machine
         /\ Delivers => /\ machine'.last >= 2 \/ machine'.last = machine.last + 1
                        /\ machine'.last >= 1
                        /\ machine'.status = IF Head1.kind = "job_progress" THEN machine.status ELSE Head1.kind
<1>. USE DEF CoordInv, Standing
<1>1. /\ Head1.kind \in Kinds /\ Due(Head1)
      /\ Head1.kind \in Statuses \/ Head1.kind = "job_progress"
      /\ "job_progress" \notin Statuses
  <2>1. Head1.kind \in Kinds /\ Due(Head1)
    BY HeadIsDue DEF Events
  <2>2. Head1.kind # "preview_progress"
    BY <2>1 DEF Due, DueToPreview, DueToCall, DueToWorker, DueToCancel, DueToRun, TerminalStatuses
  <2>. QED
    BY <2>1, <2>2, StatusesAre
<1>2. /\ machine \in [status : Statuses, last : Nat] /\ history \in Histories /\ poisoned \in BOOLEAN
      /\ spent \in [faults : 0 .. MaxFaults, crashes : 0 .. MaxCrashes]
  BY DEF TypeOK
<1>3. Head1.durable => preview.stage = "available"
  BY DurableIsTheJob
<1>4. CASE Refuses
  <2>1. CASE history' = history
    <3>1. TerminalTellsTheTruth' /\ EvidenceIsComplete'
      BY <2>1 DEF TerminalTellsTheTruth, EvidenceIsComplete
    <3>2. ~Delivers
      BY <1>4 DEF Refuses, Delivers
    <3>. QED
      BY <1>2, <1>3, <1>4, <2>1, <3>1, <3>2 DEF Refuses
  <2>2. CASE Admits(Head1.kind) /\ history' = Written(Head1.kind)
    <3>1. ~Delivers
      BY <1>4 DEF Refuses, Delivers
    <3>2. history' \in Histories /\ TerminalTellsTheTruth' /\ EvidenceIsComplete'
          /\ (history'.status \in TerminalStatuses => job.run = "ending")
      BY <1>4, <2>2, WrittenIsTrue DEF Refuses
    <3>. QED
      BY <1>2, <1>3, <1>4, <3>1, <3>2 DEF Refuses
  <2>. QED
    BY <1>4, <2>1, <2>2 DEF Refuses
<1>5. CASE Delivers
  <2>1. ~Refuses
    BY <1>5 DEF Refuses, Delivers
  <2>2. machine' \in [status : Statuses, last : Nat] /\ machine'.last = machine.last + 1 /\ machine'.last >= 1
        /\ machine'.status = IF Head1.kind = "job_progress" THEN machine.status ELSE Head1.kind
    BY <1>1, <1>5, MachineAfter DEF Delivers
  <2>3. UNCHANGED <<history, poisoned, spent>> /\ written' = FALSE
    BY <1>5 DEF Delivers
  <2>4. TerminalTellsTheTruth' /\ EvidenceIsComplete'
    BY <2>3 DEF TerminalTellsTheTruth, EvidenceIsComplete
  <2>5. preview.stage = "available" /\ ~poisoned => history.status = machine'.status /\ history.last <= machine'.last
    <3>1. CASE written
      <4>1. machine' = After(machine, Head1.kind, Next1)
        BY <1>5 DEF Delivers
      <4>. QED
        BY <2>2, <3>1, <4>1 DEF HistoryInv, AheadOf, Next1
    <3>2. CASE ~written
      <4>1. preview.stage = "available" => Head1.kind = "job_progress"
        BY <1>1, <1>5, <3>2 DEF Delivers, Due, DueToPreview, DueToCall, DueToWorker, DueToCancel, DueToRun
      <4>2. history.last \in Nat /\ machine.last \in Nat
        BY <1>2 DEF Histories
      <4>. QED
        BY <2>2, <3>2, <4>1, <4>2 DEF HistoryInv
    <3>. QED
      BY <3>1, <3>2
  <2>. QED
    BY <1>2, <1>5, <2>1, <2>2, <2>3, <2>4, <2>5
<1>. QED
  BY <1>4, <1>5

(* The preview's event is delivered, and nothing else is in the chain.     *)
LEMMA ContinuePreviewStep ==
  ASSUME CoordInv, events # <<>>, Delivers \/ Refuses, Standing,
         NEW ok, ContinuePreview(ok)
  PROVE  CoordInv'
<1>. USE DEF CoordInv
<1>1. /\ Head1.by = "preview" /\ events' = Tail(events)
      /\ preview' = [preview EXCEPT !.stage = CASE @ = "starting"  -> "planning"
                                                [] @ = "finishing" -> "available"
                                                [] OTHER           -> "gone"]
      /\ preview \in Previews
      /\ UNCHANGED <<call, job, worker, stop, up, truth, evidence>>
  BY DEF ContinuePreview, Leave, Standing, TypeOK
<1>2. DueToPreview(Head1)
  BY <1>1, HeadIsDue, ActorAssumption DEF Due, DueToCall, DueToWorker, DueToCancel, DueToRun
<1>3. Delivers /\ preview.stage \in {"starting", "failing", "finishing"} /\ job.run = "none"
      /\ \A c \in Calls : call[c] \notin Early
  BY <1>2 DEF DueToPreview, Refuses, RunInv, CallInv
<1>4. /\ UNCHANGED <<history, poisoned, spent>> /\ written' = FALSE
  BY <1>3 DEF Delivers
<1>5. /\ events' \in Seq(Events) /\ Ordered(events') /\ InChain(events') = {}
  <2>1. \A f \in InChain(Tail(events)) : f \in InChain(events) /\ f.by # "preview"
    BY <1>1, HeadIsDue
  <2>2. \A f \in InChain(events) : f.by = "preview"
    BY <1>3, BeforeTheJob DEF DueToPreview, DueToCall, Early
  <2>. QED
    BY <1>1, <2>1, <2>2, HeadIsDue
<1>6. events' = <<>>
  BY <1>5, EmptyChain
<1>7. /\ machine' \in [status : Statuses, last : Nat] /\ TerminalTellsTheTruth' /\ EvidenceIsComplete'
      /\ machine'.last = machine.last + 1 /\ machine'.status = Head1.kind
      /\ machine.last \in Nat
  <2>1. Head1.kind # "job_progress"
    BY <1>2 DEF DueToPreview
  <2>2. machine'.last = machine.last + 1
    BY <1>3, MachineAfter, HeadIsDue DEF Delivers, Events
  <2>. QED
    BY <1>1, <1>3, <2>1, <2>2, HeadLeaves DEF Standing, TypeOK
<1>8. /\ preview' \in Previews /\ preview'.starting = preview.starting /\ preview'.consumed = preview.consumed
      /\ preview.stage = "starting"  => preview'.stage = "planning"
      /\ preview.stage = "failing"   => preview'.stage = "gone"
      /\ preview.stage = "finishing" => preview'.stage = "available"
  BY <1>1 DEF Previews
<1>9. TypeOK'
  BY <1>1, <1>4, <1>5, <1>7, <1>8 DEF TypeOK
<1>10. ChainInv' /\ CallInv'
  BY <1>1, <1>3, <1>5, <1>8 DEF ChainInv, CallInv
<1>11. StageInv'
  BY <1>1, <1>2, <1>3, <1>4, <1>7, <1>8 DEF StageInv, DueToPreview, ActiveStatuses
<1>12. RunInv' /\ WorkersInv'
  BY <1>1, <1>2, <1>3, <1>7, <1>8 DEF RunInv, WorkersInv, DueToPreview
<1>13. HistoryInv'
  BY <1>1, <1>2, <1>3, <1>4, <1>7, <1>8 DEF HistoryInv, StageInv, DueToPreview, TerminalStatuses
<1>14. TakenInv'
  BY <1>1, <1>3, <1>8 DEF TakenInv, HolderInv, WorkerInv, LedgerInv
<1>15. EvidenceInv'
  BY <1>1, <1>2, <1>3, <1>8, BeforeTheJob DEF EvidenceInv, StageInv, DueToPreview, Nothing
<1>16. StopInv'
  BY <1>1, <1>3, <1>6 DEF StopInv, Admitted
<1>. QED
  BY <1>7, <1>9, <1>10, <1>11, <1>12, <1>13, <1>14, <1>15, <1>16

LEMMA OneEvent ==
  ASSUME NEW e \in Events
  PROVE  LET ev == Append(<<>>, e) IN
         ev \in Seq(Events) /\ Ordered(ev) /\ InChain(ev) = {e} /\ ev # <<>> /\ ev[1] = e
<1>1. InChain(<<>>) = {} /\ Ordered(<<>>) /\ <<>> \in Seq(Events)
  BY EmptyChain
<1>2. InChain(Append(<<>>, e)) = {} \cup {e}
  BY <1>1, ChainGrows
<1>. QED
  BY <1>1, <1>2, ChainGrows

(* A call's event: the job is there and starts at once, or it is refused.  *)
LEMMA ContinueStartStep ==
  ASSUME CoordInv, events # <<>>, NEW ok \in BOOLEAN, IF ok THEN Delivers ELSE Refuses, Standing,
         ContinueStart(ok)
  PROVE  CoordInv'
<1>. USE DEF CoordInv
<1>0. PICK c \in Calls : c = Head1.by
  BY DEF ContinueStart
<1>1. /\ preview' = [preview EXCEPT !.starting = FALSE, !.consumed = @ \/ ok]
      /\ preview \in Previews /\ job \in Jobs
      /\ call \in [Calls -> {"idle", "revalidating", "queueing", "accepted", "refused"}]
      /\ UNCHANGED <<worker, stop, up, truth, evidence>>
  BY DEF ContinueStart, Standing, TypeOK
<1>2. DueToCall(Head1) /\ Head1.kind = "queued"
  <2>1. Head1.by \notin {"preview", "run", "cancel"} /\ Head1.by \notin Workers
    BY <1>0, ActorAssumption
  <2>. QED
    BY <2>1, HeadIsDue DEF Due, DueToPreview, DueToCall, DueToWorker, DueToCancel, DueToRun
<1>3. /\ call[c] = "queueing" /\ preview.stage = "available" /\ ~preview.consumed /\ job.run = "none" /\ up
      /\ job = NoJob
      /\ \A d \in Calls \ {c} : call[d] \notin Early
      /\ stop \notin {"settling", "quiet", "closed"}
      /\ machine.status = "ready"
  <2>1. call[c] = "queueing"
    BY <1>0, <1>2 DEF DueToCall
  <2>. QED
    BY <2>1 DEF CallInv, RunInv, StageInv, StopInv, Admitted, Early
<1>4. /\ Tail(events) = <<>> /\ InChain(Tail(events)) = {}
  <2>1. \A f \in InChain(Tail(events)) : f \in InChain(events) /\ f.by # c
    BY <1>0, HeadIsDue
  <2>2. \A f \in InChain(events) : f.by = c
    BY <1>3, BeforeTheJob DEF DueToPreview, DueToCall, Early
  <2>3. InChain(Tail(events)) = {}
    BY <2>1, <2>2
  <2>. QED
    BY <2>3, HeadIsDue, EmptyChain
<1>5. /\ machine' \in [status : Statuses, last : Nat] /\ history' \in Histories /\ written' = FALSE
      /\ poisoned' \in BOOLEAN /\ spent' \in [faults : 0 .. MaxFaults, crashes : 0 .. MaxCrashes]
      /\ TerminalTellsTheTruth' /\ EvidenceIsComplete'
      /\ history'.status \notin TerminalStatuses
      /\ ~poisoned' => history'.status = machine'.status /\ history'.last <= machine'.last
      /\ machine'.status = IF ok THEN "queued" ELSE "ready"
  <2>1. history.status \notin TerminalStatuses
    BY <1>3 DEF HistoryInv, Emitted
  <2>2. machine'.status = IF ok THEN "queued" ELSE "ready"
    BY <1>2, <1>3, HeadLeaves
  <2>. QED
    BY <1>3, <2>1, <2>2, HeadLeaves
<1>6. /\ preview' \in Previews /\ preview'.stage = "available" /\ ~preview'.starting
      /\ preview'.consumed = ok
  BY <1>1, <1>3 DEF Previews
<1>7. CASE ok
  <2>1. /\ call' = [call EXCEPT ![c] = "accepted"] /\ job' = [job EXCEPT !.run = "starting"]
        /\ events' = Append(Tail(events), Event("processing", "run", TRUE))
    BY <1>0, <1>7 DEF ContinueStart, LeaveAnd
  <2>2. PICK e : e = Event("processing", "run", TRUE)
    OBVIOUS
  <2>3. e \in Events /\ e.by = "run" /\ e.kind = "processing" /\ e.durable
    BY <2>2, StatusesAre DEF Event, Events, Actors
  <2>4. /\ events' \in Seq(Events) /\ Ordered(events') /\ InChain(events') = {e} /\ events' # <<>>
        /\ Head1' = e
    BY <1>4, <2>1, <2>2, <2>3, OneEvent DEF Head1
  <2>5. /\ job' \in Jobs /\ job'.run = "starting" /\ job'.next = 1 /\ ~job'.aborted /\ job'.cancel = "none"
        /\ ~job'.failed /\ ~job'.emitted /\ job'.ledger = Nothing /\ job'.claims = Nothing
    BY <1>1, <1>3, <2>1 DEF Jobs, NoJob
  <2>6. /\ call' \in [Calls -> {"idle", "revalidating", "queueing", "accepted", "refused"}]
        /\ \A d \in Calls : call'[d] \notin Early
    BY <1>1, <1>3, <2>1 DEF Early
  <2>7. TypeOK'
    BY <1>1, <1>5, <1>6, <2>4, <2>5, <2>6 DEF TypeOK
  <2>8. ChainInv'
    BY <2>3, <2>4, <2>5 DEF ChainInv, Due, DueToRun
  <2>9. StageInv' /\ CallInv'
    BY <1>1, <1>3, <1>6, <2>6 DEF StageInv, CallInv
  <2>10. RunInv' /\ WorkersInv'
    <3>1. \A w \in Workers : worker[w] = Idle
      BY <1>3 DEF WorkersInv
    <3>. QED
      BY <1>1, <1>5, <1>6, <1>7, <2>3, <2>4, <2>5, <3>1 DEF RunInv, WorkersInv, Emitted
  <2>11. HistoryInv'
    BY <1>5, <1>6, <2>5 DEF HistoryInv
  <2>12. TakenInv'
    BY <1>1, <1>3, <2>5, <1>6 DEF TakenInv, HolderInv, WorkerInv, LedgerInv, NoJob
  <2>13. EvidenceInv'
    BY <1>1, <1>3, <2>5 DEF EvidenceInv, NoJob
  <2>14. StopInv'
    BY <1>1, <1>3 DEF StopInv
  <2>. QED
    BY <1>5, <2>7, <2>8, <2>9, <2>10, <2>11, <2>12, <2>13, <2>14
<1>8. CASE ~ok
  <2>1. /\ call' = [call EXCEPT ![c] = "refused"] /\ UNCHANGED job /\ events' = <<>>
    BY <1>0, <1>4, <1>8 DEF ContinueStart, Leave, Refuse
  <2>2. /\ call' \in [Calls -> {"idle", "revalidating", "queueing", "accepted", "refused"}]
        /\ \A d \in Calls : call'[d] \notin Early
    BY <1>1, <1>3, <2>1 DEF Early
  <2>3. TypeOK'
    BY <1>1, <1>5, <1>6, <2>1, <2>2, EmptyChain DEF TypeOK
  <2>4. ChainInv'
    BY <2>1, EmptyChain DEF ChainInv
  <2>5. StageInv' /\ CallInv'
    BY <1>1, <1>3, <1>6, <2>2 DEF StageInv, CallInv
  <2>6. RunInv' /\ WorkersInv'
    BY <1>1, <1>3, <1>5, <1>6, <1>8, <2>1 DEF RunInv, WorkersInv
  <2>7. HistoryInv'
    BY <1>3, <1>5, <1>6, <2>1 DEF HistoryInv
  <2>8. TakenInv'
    BY <1>1, <1>3, <2>1, <1>6 DEF TakenInv, HolderInv, WorkerInv, LedgerInv
  <2>9. EvidenceInv'
    BY <1>1, <1>3, <2>1 DEF EvidenceInv
  <2>10. StopInv'
    BY <1>1, <1>3 DEF StopInv
  <2>. QED
    BY <1>5, <2>3, <2>4, <2>5, <2>6, <2>7, <2>8, <2>9, <2>10
<1>. QED
  BY <1>7, <1>8

(* JOB_STARTED is delivered and the workers begin, or it could not be      *)
(* written and the job ends with nothing attempted.                        *)
LEMMA JobBeginsStep ==
  ASSUME CoordInv, events # <<>>, NEW ok \in BOOLEAN, IF ok THEN Delivers ELSE Refuses, Standing,
         ContinueRun(ok), job.run = "starting"
  PROVE  CoordInv'
<1>. USE DEF CoordInv
<1>1. /\ Head1.by = "run" /\ job \in Jobs /\ worker \in [Workers -> Places]
      /\ UNCHANGED <<preview, call, stop, up, truth, evidence>>
  BY DEF ContinueRun, Standing, TypeOK
<1>2. /\ preview.stage = "available" /\ preview.consumed /\ ~job.emitted
      /\ job.next = 1 /\ ~job.failed /\ job.ledger = Nothing /\ job.claims = Nothing
      /\ machine.status = "queued" /\ history.status \notin TerminalStatuses
      /\ \A c \in Calls : call[c] \notin Early
      /\ \A w \in Workers : worker[w] = Idle
      /\ stop \notin {"quiet", "closed"}
  BY DEF RunInv, CallInv, WorkersInv, StopInv, HistoryInv, Emitted
<1>3. Head1.kind = "processing"
  BY DEF RunInv
<1>4. \A f \in InChain(Tail(events)) : DueToCancel(f)
  <2>1. \A f \in InChain(Tail(events)) : Due(f) /\ f.by # "run"
    BY <1>1, HeadIsDue DEF ChainInv
  <2>. QED
    BY <1>2, <2>1 DEF Due, DueToPreview, DueToCall, DueToWorker, DueToRun, Early, Idle
<1>5. /\ machine' \in [status : Statuses, last : Nat] /\ history' \in Histories /\ written' = FALSE
      /\ poisoned' \in BOOLEAN /\ spent' \in [faults : 0 .. MaxFaults, crashes : 0 .. MaxCrashes]
      /\ TerminalTellsTheTruth' /\ EvidenceIsComplete'
      /\ history'.status \notin TerminalStatuses
      /\ ~poisoned' => history'.status = machine'.status /\ history'.last <= machine'.last
      /\ machine'.status = IF ok THEN "processing" ELSE "queued"
  <2>1. machine'.status = IF ok THEN "processing" ELSE "queued"
    BY <1>2, <1>3, HeadLeaves
  <2>. QED
    BY <1>2, <2>1, HeadLeaves
<1>6. CASE ok
  <2>1. /\ job' = [job EXCEPT !.run = "working"] /\ events' = Tail(events)
        /\ worker' = [w \in Workers |-> [Idle EXCEPT !.at = "loop"]]
    BY <1>6 DEF ContinueRun, Leave
  <2>2. /\ job' \in Jobs /\ job'.run = "working" /\ job'.next = 1 /\ job'.aborted = job.aborted
        /\ job'.cancel = job.cancel /\ ~job'.failed /\ ~job'.emitted /\ job'.ledger = Nothing
        /\ job'.claims = Nothing
    BY <1>1, <1>2, <2>1 DEF Jobs
  <2>3. worker' \in [Workers -> Places] /\ \A w \in Workers : worker'[w].at = "loop"
    BY <2>1 DEF Places, Idle
  <2>4. TypeOK'
    BY <1>1, <1>5, <2>1, <2>2, <2>3, HeadIsDue DEF TypeOK
  <2>5. ChainInv'
    BY <1>4, <1>5, <1>6, <2>1, <2>2, HeadIsDue DEF ChainInv, Due, DueToCancel
  <2>6. StageInv' /\ CallInv' /\ StopInv'
    BY <1>1, <1>2 DEF StageInv, CallInv, StopInv, Admitted
  <2>7. RunInv' /\ WorkersInv'
    BY <1>1, <1>2, <1>5, <1>6, <2>2, <2>3 DEF RunInv, WorkersInv, Emitted
  <2>8. HistoryInv'
    BY <1>1, <1>5, <2>2 DEF HistoryInv
  <2>9. TakenInv'
    <3>1. \A w \in Workers : HolderInv(w)' /\ WorkerInv(w)'
      BY <2>3 DEF HolderInv, WorkerInv, Holding
    <3>2. \A o \in Ops : LedgerInv(o)'
      BY <1>1, <1>2, <2>2 DEF TakenInv, LedgerInv, Nothing, Ops
    <3>. QED
      BY <3>1, <3>2 DEF TakenInv
  <2>10. EvidenceInv'
    BY <1>1, <1>2, <2>2, <2>3 DEF EvidenceInv, Idle
  <2>. QED
    BY <1>5, <2>4, <2>5, <2>6, <2>7, <2>8, <2>9, <2>10
<1>7. CASE ~ok
  <2>1. PICK kind \in {"cancelled", "failed"} : kind = (IF job.aborted THEN "cancelled" ELSE "failed")
    OBVIOUS
  <2>2. PICK e : e = Event(kind, "run", TRUE)
    OBVIOUS
  <2>3. /\ job' = [job EXCEPT !.emitted = TRUE, !.run = "ending"] /\ UNCHANGED worker
        /\ events' = Append(Tail(events), e)
    BY <1>7, <2>1, <2>2 DEF ContinueRun, LeaveAnd
  <2>4. e \in Events /\ e.by = "run" /\ e.kind = kind /\ e.durable /\ kind \in TerminalStatuses
        /\ kind \in {"failed", "cancelled"}
    BY <2>1, <2>2, StatusesAre DEF Event, Events, Actors, TerminalStatuses
  <2>5. /\ events' \in Seq(Events) /\ Ordered(events') /\ InChain(events') = InChain(Tail(events)) \cup {e}
        /\ events' # <<>>
    <3>1. \A f \in InChain(Tail(events)) : f.by # e.by /\ f.kind \notin TerminalStatuses
      BY <1>4, <2>4 DEF DueToCancel, TerminalStatuses
    <3>2. Tail(events) \in Seq(Events) /\ Ordered(Tail(events)) /\ e.kind # "processing"
      BY <2>4, HeadIsDue
    <3>. QED
      BY <2>3, <2>4, <3>1, <3>2, ChainGrows
  <2>6. /\ job' \in Jobs /\ job'.run = "ending" /\ job'.next = 1 /\ job'.aborted = job.aborted
        /\ job'.cancel = job.cancel /\ ~job'.failed /\ job'.emitted = TRUE /\ job'.ledger = Nothing
        /\ job'.claims = Nothing
    BY <1>1, <1>2, <2>3 DEF Jobs
  <2>7. poisoned' /\ UNCHANGED machine
    BY <1>7 DEF Refuses
  <2>8. TypeOK'
    BY <1>1, <1>5, <2>3, <2>5, <2>6 DEF TypeOK
  <2>9. ChainInv'
    <3>1. \A f \in InChain(Tail(events)) : Due(f)'
      BY <1>4, <2>6, <2>7 DEF Due, DueToCancel
    <3>2. Due(e)'
      BY <1>2, <2>4, <2>6, <2>7 DEF Due, DueToRun
    <3>. QED
      BY <2>5, <3>1, <3>2 DEF ChainInv
  <2>10. StageInv' /\ CallInv' /\ StopInv'
    BY <1>1, <1>2 DEF StageInv, CallInv, StopInv, Admitted
  <2>11. RunInv'
    BY <1>1, <1>2, <2>6, <2>7 DEF RunInv, Emitted
  <2>12. WorkersInv'
    BY <1>2, <2>3, <2>6 DEF WorkersInv, Idle
  <2>13. HistoryInv'
    BY <1>5, <2>6, <2>7 DEF HistoryInv, Emitted
  <2>14. TakenInv'
    BY <1>1, <1>2, <2>3, <2>6 DEF TakenInv, HolderInv, WorkerInv, LedgerInv
  <2>15. EvidenceInv'
    BY <1>1, <1>2, <2>3, <2>6 DEF EvidenceInv
  <2>. QED
    BY <1>5, <2>8, <2>9, <2>10, <2>11, <2>12, <2>13, <2>14, <2>15
<1>. QED
  BY <1>6, <1>7

(* The terminal is delivered, or could not be written.                     *)
LEMMA TerminalIsOutStep ==
  ASSUME CoordInv, events # <<>>, NEW ok \in BOOLEAN, IF ok THEN Delivers ELSE Refuses, Standing,
         ContinueRun(ok), job.run # "starting"
  PROVE  CoordInv'
<1>. USE DEF CoordInv
<1>1. /\ Head1.by = "run" /\ job \in Jobs /\ events' = Tail(events)
      /\ job' = [job EXCEPT !.run = IF ok THEN "closing" ELSE "lost"]
      /\ UNCHANGED <<preview, call, worker, stop, up, truth, evidence>>
  BY DEF ContinueRun, Standing, Leave, TypeOK
<1>2. DueToRun(Head1) /\ Head1.kind \in TerminalStatuses /\ job.run = "ending"
  <2>1. DueToRun(Head1)
    BY <1>1, HeadIsDue, ActorAssumption DEF Due, DueToPreview, DueToCall, DueToWorker, DueToCancel
  <2>. QED
    BY <2>1 DEF DueToRun
<1>3. /\ preview.stage = "available" /\ preview.consumed /\ job.emitted
      /\ \A c \in Calls : call[c] \notin Early
      /\ stop \notin {"quiet", "closed"}
  BY <1>2 DEF RunInv, CallInv, StopInv, Emitted
<1>4. events' \in Seq(Events) /\ Ordered(events') /\ InChain(events') = {}
  BY <1>1, <1>2, HeadIsDue
<1>5. /\ machine' \in [status : Statuses, last : Nat] /\ history' \in Histories /\ written' = FALSE
      /\ poisoned' \in BOOLEAN /\ spent' \in [faults : 0 .. MaxFaults, crashes : 0 .. MaxCrashes]
      /\ TerminalTellsTheTruth' /\ EvidenceIsComplete'
      /\ ~poisoned' => history'.status = machine'.status /\ history'.last <= machine'.last
      /\ machine'.status = IF ok THEN Head1.kind ELSE machine.status
  <2>1. "job_progress" \notin TerminalStatuses
    BY DEF TerminalStatuses
  <2>2. machine'.status = IF ok THEN Head1.kind ELSE machine.status
    BY <1>2, <2>1, HeadLeaves
  <2>. QED
    BY <1>3, <2>2, HeadLeaves
<1>6. /\ job' \in Jobs /\ job'.run = (IF ok THEN "closing" ELSE "lost") /\ job'.next = job.next
      /\ job'.aborted = job.aborted /\ job'.cancel = job.cancel /\ job'.failed = job.failed
      /\ job'.emitted = job.emitted /\ job'.ledger = job.ledger /\ job'.claims = job.claims
  BY <1>1 DEF Jobs
<1>7. ok => history'.claims = job.claims /\ history'.status = Head1.kind
  <2>1. SUFFICES ASSUME ok PROVE history'.claims = job.claims /\ history'.status = Head1.kind
    OBVIOUS
  <2>2. UNCHANGED history /\ written
    BY <1>2, <2>1 DEF Delivers, DueToRun
  <2>3. Head1.kind \in Kinds /\ "job_progress" \notin TerminalStatuses /\ Head1.kind \in Statuses
    BY <1>2, HeadIsDue, StatusesAre DEF TerminalStatuses, Events
  <2>4. After(machine, Head1.kind, Next1).status = Head1.kind
    BY <2>3, MachineAfter
  <2>. QED
    BY <1>2, <2>2, <2>4 DEF HistoryInv, AheadOf
<1>8. TypeOK'
  BY <1>1, <1>4, <1>5, <1>6 DEF TypeOK
<1>9. ChainInv'
  BY <1>4 DEF ChainInv
<1>10. StageInv' /\ CallInv' /\ StopInv'
  BY <1>1, <1>3 DEF StageInv, CallInv, StopInv, Admitted
<1>11. RunInv'
  <2>1. machine'.status = "cancelling" => job.aborted
    BY <1>2, <1>5 DEF RunInv, TerminalStatuses
  <2>. QED
    BY <1>1, <1>2, <1>3, <1>6, <2>1 DEF RunInv, Emitted
<1>12. WorkersInv'
  BY <1>1, <1>2, <1>6 DEF WorkersInv
<1>13. HistoryInv'
  BY <1>1, <1>2, <1>5, <1>6, <1>7 DEF HistoryInv, Emitted
<1>14. TakenInv'
  BY <1>1, <1>6 DEF TakenInv, HolderInv, WorkerInv, LedgerInv
<1>15. EvidenceInv'
  BY <1>1, <1>6 DEF EvidenceInv
<1>. QED
  BY <1>5, <1>8, <1>9, <1>10, <1>11, <1>12, <1>13, <1>14, <1>15

(* A worker is answered: it fails, goes on, or begins its operation.       *)
LEMMA ContinueWorkerStep ==
  ASSUME CoordInv, events # <<>>, NEW ok \in BOOLEAN, IF ok THEN Delivers ELSE Refuses, Standing,
         ContinueWorker(ok)
  PROVE  CoordInv'
<1>. USE DEF CoordInv
<1>0. PICK w \in Workers : w = Head1.by
  BY DEF ContinueWorker
<1>1. /\ job \in Jobs /\ worker \in [Workers -> Places] /\ events' = Tail(events)
      /\ UNCHANGED <<preview, call, stop, up, truth, evidence>>
  BY DEF ContinueWorker, Standing, Leave, TypeOK
<1>2. DueToWorker(Head1)
  <2>1. Head1.by \notin {"preview", "run", "cancel"} /\ Head1.by \notin Calls
    BY <1>0, ActorAssumption
  <2>. QED
    BY <2>1, HeadIsDue DEF Due, DueToPreview, DueToCall, DueToCancel, DueToRun
<1>3. worker[w].at \in {"announcing", "reporting"} /\ Head1.kind = "job_progress" /\ machine.status = "processing"
  BY <1>0, <1>2 DEF DueToWorker
<1>4. /\ job.run = "working" /\ preview.stage = "available" /\ preview.consumed /\ ~job.emitted
      /\ history.status \notin TerminalStatuses
      /\ \A c \in Calls : call[c] \notin Early
      /\ stop \notin {"quiet", "closed"}
  BY <1>3, WorkerIsWorking
<1>5. /\ events' \in Seq(Events) /\ Ordered(events')
      /\ \A f \in InChain(events') : Due(f) /\ f.by # w
  BY <1>0, <1>1, HeadIsDue DEF ChainInv
<1>6. /\ machine' \in [status : Statuses, last : Nat] /\ history' \in Histories /\ written' = FALSE
      /\ poisoned' \in BOOLEAN /\ spent' \in [faults : 0 .. MaxFaults, crashes : 0 .. MaxCrashes]
      /\ TerminalTellsTheTruth' /\ EvidenceIsComplete'
      /\ history'.status \notin TerminalStatuses
      /\ ~poisoned' => history'.status = machine'.status /\ history'.last <= machine'.last
      /\ machine'.status = "processing"
  <2>1. machine'.status = "processing"
    BY <1>3, HeadLeaves
  <2>2. history'.status \notin TerminalStatuses
    BY <1>4, HeadLeaves
  <2>. QED
    BY <1>4, <2>1, <2>2, HeadLeaves
(* What a step of one worker leaves alone in the chain and the rest.       *)
<1>7. ASSUME NEW place \in {"loop", "failed", "executing", "recording"},
             worker' = [worker EXCEPT ![w].at = place],
             job' \in Jobs, job'.next = job.next, job'.run = job.run, job'.aborted = job.aborted,
             job'.cancel = job.cancel, job'.emitted = job.emitted, job'.claims = job.claims
      PROVE  /\ worker'[w].at = place /\ worker'[w].op = worker[w].op
             /\ \A v \in Workers \ {w} : worker'[v] = worker[v]
             /\ TypeOK' /\ ChainInv' /\ StageInv' /\ CallInv' /\ StopInv' /\ RunInv' /\ WorkersInv' /\ HistoryInv'
  <2>1. /\ worker' \in [Workers -> Places] /\ worker'[w].at = place /\ worker'[w].op = worker[w].op
        /\ \A v \in Workers \ {w} : worker'[v] = worker[v]
    BY <1>1, <1>7 DEF Places
  <2>2. TypeOK'
    BY <1>1, <1>5, <1>6, <1>7, <2>1 DEF TypeOK
  <2>3. ChainInv'
    BY <1>1, <1>3, <1>4, <1>5, <1>6, <1>7, <2>1
       DEF ChainInv, Due, DueToPreview, DueToCall, DueToWorker, DueToCancel, DueToRun
  <2>4. StageInv' /\ CallInv' /\ StopInv'
    BY <1>1, <1>4, <1>7 DEF StageInv, CallInv, StopInv, Admitted
  <2>5. RunInv' /\ WorkersInv'
    BY <1>1, <1>4, <1>6, <1>7, <2>1 DEF RunInv, WorkersInv, Emitted
  <2>6. HistoryInv'
    BY <1>1, <1>4, <1>6, <1>7 DEF HistoryInv, Emitted
  <2>. QED
    BY <2>1, <2>2, <2>3, <2>4, <2>5, <2>6
(* Nothing of the ledger changes.                                          *)
<1>8. ASSUME NEW place \in {"loop", "failed", "executing"}, worker' = [worker EXCEPT ![w].at = place],
             place = "executing" <=> worker[w].at = "announcing" /\ ok,
             job' \in Jobs, job'.next = job.next, job'.run = job.run, job'.aborted = job.aborted,
             job'.cancel = job.cancel, job'.emitted = job.emitted, job'.claims = job.claims,
             job'.ledger = job.ledger, job.failed => job'.failed, place = "failed" => job'.failed,
             place = "loop" => worker[w].at = "reporting"
      PROVE  CoordInv'
  <2>1. /\ worker'[w].at = place /\ worker'[w].op = worker[w].op
        /\ \A v \in Workers \ {w} : worker'[v] = worker[v]
        /\ TypeOK' /\ ChainInv' /\ StageInv' /\ CallInv' /\ StopInv' /\ RunInv' /\ WorkersInv' /\ HistoryInv'
    BY <1>7, <1>8
  <2>2. TakenInv'
    <3>1. \A v \in Workers : HolderInv(v)' /\ WorkerInv(v)'
      BY <1>1, <1>3, <1>8, <2>1 DEF TakenInv, HolderInv, WorkerInv, Holding
    <3>2. \A o \in Ops : LedgerInv(o)'
      BY <1>1, <1>3, <1>4, <1>8, <2>1 DEF TakenInv, LedgerInv
    <3>. QED
      BY <3>1, <3>2 DEF TakenInv
  <2>3. EvidenceInv'
    BY <1>1, <1>3, <1>8, <2>1 DEF EvidenceInv
  <2>. QED
    BY <1>6, <2>1, <2>2, <2>3
<1>9. CASE ~ok
  <2>1. worker' = [worker EXCEPT ![w].at = "failed"] /\ job' = [job EXCEPT !.failed = TRUE]
    BY <1>0, <1>9 DEF ContinueWorker, MoveTo
  <2>2. /\ job' \in Jobs /\ job'.next = job.next /\ job'.run = job.run /\ job'.aborted = job.aborted
        /\ job'.cancel = job.cancel /\ job'.emitted = job.emitted /\ job'.claims = job.claims
        /\ job'.ledger = job.ledger /\ job'.failed
    BY <1>1, <2>1 DEF Jobs
  <2>. QED
    BY <1>8, <1>9, <2>1, <2>2
<1>10. CASE ok /\ worker[w].at = "reporting"
  <2>1. worker' = [worker EXCEPT ![w].at = "loop"] /\ UNCHANGED job
    BY <1>0, <1>10 DEF ContinueWorker, MoveTo
  <2>. QED
    BY <1>1, <1>8, <1>10, <2>1
<1>11. CASE ok /\ worker[w].at = "announcing" /\ ~job.aborted
  <2>1. worker' = [worker EXCEPT ![w].at = "executing"] /\ UNCHANGED job
    BY <1>0, <1>11 DEF ContinueWorker, Announced, MoveTo
  <2>. QED
    BY <1>1, <1>8, <1>11, <2>1
<1>12. CASE ok /\ worker[w].at = "announcing" /\ job.aborted
  <2>0. PICK o : o = worker[w].op
    OBVIOUS
  <2>1. worker' = [worker EXCEPT ![w].at = "recording"]
        /\ job' = [job EXCEPT !.ledger = With(@, o, "cancelled")]
    BY <1>0, <1>12, <2>0 DEF ContinueWorker, Announced, MoveTo
  <2>2. /\ o \in Ops /\ job.ledger[o] = "none" /\ truth[o] = "untouched" /\ o < job.next
        /\ \A v \in Workers \ {w} : worker[v].at \in Holding => worker[v].op # o
    BY <1>4, <1>12, <2>0 DEF TakenInv, HolderInv, LedgerInv, Holding
  <2>3. job.ledger \in Ledgers
    BY <1>1 DEF Jobs
  <2>4. /\ With(job.ledger, o, "cancelled") \in Ledgers /\ With(job.ledger, o, "cancelled")[o] = "cancelled"
        /\ \A p \in Ops \ {o} : With(job.ledger, o, "cancelled")[p] = job.ledger[p]
    BY <2>2, <2>3 DEF With, Ledgers, Outcomes
  <2>5. /\ job' \in Jobs /\ job'.next = job.next /\ job'.run = job.run /\ job'.aborted = job.aborted
        /\ job'.cancel = job.cancel /\ job'.failed = job.failed /\ job'.emitted = job.emitted
        /\ job'.claims = job.claims
        /\ job'.ledger[o] = "cancelled" /\ \A p \in Ops \ {o} : job'.ledger[p] = job.ledger[p]
    BY <1>1, <2>1, <2>4 DEF Jobs
  <2>6. /\ worker'[w].at = "recording" /\ worker'[w].op = o
        /\ \A v \in Workers \ {w} : worker'[v] = worker[v]
        /\ TypeOK' /\ ChainInv' /\ StageInv' /\ CallInv' /\ StopInv' /\ RunInv' /\ WorkersInv' /\ HistoryInv'
    BY <1>7, <2>0, <2>1, <2>5
  <2>7. TakenInv'
    <3>1. ASSUME NEW v \in Workers PROVE HolderInv(v)'
      <4>1. CASE v = w
        BY <2>2, <2>5, <2>6, <4>1 DEF HolderInv, Holding
      <4>2. CASE v # w
        BY <1>12, <2>0, <2>2, <2>5, <2>6, <4>2 DEF TakenInv, HolderInv, Holding
      <4>. QED
        BY <4>1, <4>2
    <3>2. \A v \in Workers : WorkerInv(v)'
      BY <2>5, <2>6 DEF TakenInv, WorkerInv
    <3>3. ASSUME NEW p \in Ops PROVE LedgerInv(p)'
      <4>1. CASE p = o
        BY <1>1, <1>12, <2>2, <2>5, <4>1 DEF LedgerInv, Ops, Jobs
      <4>2. CASE p # o
        <5>1. \A v \in Workers : worker[v].op = p => v # w
          BY <2>0, <4>2
        <5>. QED
          BY <1>1, <1>4, <2>5, <2>6, <4>2, <5>1 DEF TakenInv, LedgerInv
      <4>. QED
        BY <4>1, <4>2
    <3>. QED
      BY <3>1, <3>2, <3>3 DEF TakenInv
  <2>8. EvidenceInv'
    <3>1. \A p \in Ops \ {o} : (\E v \in Workers : worker[v].at = "recording" /\ worker[v].op = p)
                               <=> (\E v \in Workers : worker'[v].at = "recording" /\ worker'[v].op = p)
      BY <2>0, <2>6
    <3>. QED
      BY <1>1, <1>4, <2>2, <2>5, <2>6, <3>1 DEF EvidenceInv
  <2>. QED
    BY <1>6, <2>6, <2>7, <2>8
<1>. QED
  BY <1>3, <1>9, <1>10, <1>11, <1>12

(* A cancellation is answered.                                             *)
LEMMA ContinueCancelStep ==
  ASSUME CoordInv, events # <<>>, NEW ok \in BOOLEAN, IF ok THEN Delivers ELSE Refuses, Standing,
         ContinueCancel(ok)
  PROVE  CoordInv'
<1>. USE DEF CoordInv
<1>1. /\ Head1.by = "cancel" /\ job \in Jobs /\ events' = Tail(events)
      /\ job' = [job EXCEPT !.cancel = "answered"]
      /\ UNCHANGED <<preview, call, worker, stop, up, truth, evidence>>
  BY DEF ContinueCancel, Standing, Leave, TypeOK
<1>2. DueToCancel(Head1)
  BY <1>1, HeadIsDue, ActorAssumption DEF Due, DueToPreview, DueToCall, DueToWorker, DueToRun
<1>3. /\ Head1.kind = "cancelling" /\ job.cancel = "published" /\ job.aborted
      /\ machine.status \in {"queued", "processing"}
  BY <1>2 DEF DueToCancel, RunInv
<1>4. /\ job.run \notin {"none", "starting", "closing"} /\ preview.stage = "available" /\ preview.consumed
      /\ \A c \in Calls : call[c] \notin Early
      /\ stop \notin {"quiet", "closed"}
  <2>1. job.run # "none" /\ job.run # "starting"
    BY <1>3 DEF RunInv, NoJob
  <2>2. job.run # "closing"
    BY <1>3 DEF HistoryInv, TerminalStatuses
  <2>. QED
    BY <1>1, <2>1, <2>2 DEF RunInv, CallInv, StopInv
<1>5. /\ events' \in Seq(Events) /\ Ordered(events')
      /\ \A f \in InChain(events') : DueToRun(f) /\ f.kind # "processing"
  <2>1. \A f \in InChain(Tail(events)) : Due(f) /\ f.by = "run" /\ f.kind # "processing"
    BY <1>3, HeadIsDue DEF ChainInv
  <2>. QED
    BY <1>1, <2>1, HeadIsDue, ActorAssumption DEF Due, DueToPreview, DueToCall, DueToWorker, DueToCancel
<1>6. /\ machine' \in [status : Statuses, last : Nat] /\ history' \in Histories /\ written' = FALSE
      /\ poisoned' \in BOOLEAN /\ spent' \in [faults : 0 .. MaxFaults, crashes : 0 .. MaxCrashes]
      /\ TerminalTellsTheTruth' /\ EvidenceIsComplete'
      /\ ~poisoned' => history'.status = machine'.status /\ history'.last <= machine'.last
      /\ machine'.status = IF ok THEN "cancelling" ELSE machine.status
      /\ history'.status \in TerminalStatuses => history.status \in TerminalStatuses \/ job.run = "ending"
  <2>1. machine'.status = IF ok THEN "cancelling" ELSE machine.status
    BY <1>3, HeadLeaves
  <2>. QED
    BY <1>4, <2>1, HeadLeaves
<1>7. /\ job' \in Jobs /\ job'.run = job.run /\ job'.next = job.next
      /\ job'.aborted = job.aborted /\ job'.cancel = "answered" /\ job'.failed = job.failed
      /\ job'.emitted = job.emitted /\ job'.ledger = job.ledger /\ job'.claims = job.claims
  BY <1>1 DEF Jobs
<1>8. TypeOK'
  BY <1>1, <1>5, <1>6, <1>7 DEF TypeOK
<1>9. ChainInv'
  BY <1>3, <1>5, <1>6, <1>7 DEF ChainInv, Due, DueToRun
<1>10. StageInv' /\ CallInv' /\ StopInv'
  BY <1>1, <1>4 DEF StageInv, CallInv, StopInv, Admitted
<1>11. RunInv' /\ WorkersInv'
  BY <1>1, <1>3, <1>4, <1>6, <1>7 DEF RunInv, WorkersInv
<1>12. HistoryInv'
  BY <1>1, <1>4, <1>6, <1>7 DEF HistoryInv, Emitted
<1>13. TakenInv' /\ EvidenceInv'
  BY <1>1, <1>7 DEF TakenInv, HolderInv, WorkerInv, LedgerInv, EvidenceInv
<1>. QED
  BY <1>6, <1>8, <1>9, <1>10, <1>11, <1>12, <1>13

LEMMA ContinueStep ==
  ASSUME CoordInv, events # <<>>, NEW ok \in BOOLEAN, IF ok THEN Delivers ELSE Refuses, Standing,
         Continue(ok)
  PROVE  CoordInv'
<1>1. Delivers \/ Refuses
  OBVIOUS
<1>2. CASE ContinuePreview(ok)
  BY <1>1, <1>2, ContinuePreviewStep
<1>3. CASE ContinueStart(ok)
  BY <1>3, ContinueStartStep
<1>4. CASE ContinueRun(ok)
  BY <1>4, JobBeginsStep, TerminalIsOutStep
<1>5. CASE ContinueWorker(ok)
  BY <1>5, ContinueWorkerStep
<1>6. CASE ContinueCancel(ok)
  BY <1>6, ContinueCancelStep
<1>. QED
  BY <1>2, <1>3, <1>4, <1>5, <1>6 DEF Continue

LEMMA DeliverEventStep ==
  ASSUME CoordInv, DeliverEvent
  PROVE  CoordInv'
<1>1. events # <<>> /\ Delivers /\ Standing /\ Continue(TRUE)
  BY DEF DeliverEvent, Delivers, Standing, life, sinks
<1>. QED
  BY <1>1, ContinueStep

LEMMA RefuseEventStep ==
  ASSUME CoordInv, RefuseEvent
  PROVE  CoordInv'
<1>1. events # <<>> /\ Refuses /\ Standing /\ Continue(FALSE)
  BY RefusedIsPoisoned DEF RefuseEvent, Standing
<1>. QED
  BY <1>1, ContinueStep

LEMMA CoordSteps == CoordInv /\ [Next]_vars => CoordInv'
<1>. SUFFICES ASSUME CoordInv, [Next]_vars PROVE CoordInv'
  OBVIOUS
<1>1. CASE CreatePreview \/ CancelPreview \/ PlanSettles \/ RecordPreview
  BY <1>1, CreatePreviewStep, CancelPreviewStep, PlanSettlesStep, RecordPreviewStep
<1>2. CASE \E c \in Calls : Start(c) \/ Revalidated(c)
  BY <1>2, StartStep, RevalidatedStep
<1>3. CASE \E w \in Workers : WorkerStep(w)
  BY <1>3, TakeStep, ExecuteStep, RecordStep DEF WorkerStep
<1>4. CASE Publishing
  BY <1>4, WriteEventStep, DeliverEventStep, RefuseEventStep DEF Publishing
<1>5. CASE WorkersEnd \/ CloseEvidence \/ Cancel
  BY <1>5, WorkersEndStep, CloseEvidenceStep, CancelStep
<1>6. CASE Shutdown \/ Drained \/ Quiet \/ CloseSinks
  BY <1>6, ShutdownStep, DrainedStep, QuietStep, CloseSinksStep
<1>7. CASE Die \/ Restart
  BY <1>7, DieStep, RestartStep
<1>8. CASE UNCHANGED vars
  <2>. USE <1>8 DEF vars, life, sinks
  <2>1. TypeOK' /\ ChainInv'
    BY DEF CoordInv, TypeOK, ChainInv, Due, DueToPreview, DueToCall, DueToWorker, DueToCancel, DueToRun
  <2>2. StageInv' /\ CallInv' /\ RunInv' /\ WorkersInv'
    BY DEF CoordInv, StageInv, CallInv, RunInv, WorkersInv, Head1
  <2>3. HistoryInv' /\ TakenInv' /\ EvidenceInv' /\ StopInv'
    BY DEF CoordInv, HistoryInv, AheadOf, Head1, Next1, TakenInv, HolderInv, WorkerInv, LedgerInv, EvidenceInv,
       StopInv, Admitted
  <2>4. TerminalTellsTheTruth' /\ EvidenceIsComplete'
    BY DEF CoordInv, TerminalTellsTheTruth, EvidenceIsComplete
  <2>. QED
    BY <2>1, <2>2, <2>3, <2>4 DEF CoordInv
<1>. QED
  BY <1>1, <1>2, <1>3, <1>4, <1>5, <1>6, <1>7, <1>8 DEF Next, Internal

LEMMA CoordImplies == CoordInv => EventsInv /\ RestIsQuiet
<1>. SUFFICES ASSUME CoordInv PROVE EventsInv /\ RestIsQuiet
  OBVIOUS
<1>1. EventsInv
  BY HeadIsLegal DEF CoordInv, EventsInv, EveryEventIsLegal
<1>2. ShutdownIsQuiet
  <2>1. SUFFICES ASSUME stop \in {"quiet", "closed"}
                 PROVE  \A w \in Workers : worker[w].at \in {"off", "done", "failed"}
    BY DEF ShutdownIsQuiet, CoordInv, StopInv
  <2>2. job.run \in {"none", "ended", "lost"}
    BY <2>1 DEF CoordInv, StopInv
  <2>3. job.run # "none" => job.emitted
    BY <2>2 DEF CoordInv, RunInv, Emitted
  <2>. QED
    BY <2>2, <2>3 DEF CoordInv, WorkersInv, Idle
<1>3. NoZombies
  BY DEF CoordInv, StageInv, NoZombies
<1>. QED
  BY <1>1, <1>2, <1>3 DEF RestIsQuiet

LEMMA CoordAlways == Spec => []CoordInv
  BY CoordStarts, CoordSteps, PTL DEF Spec

(* No event of the chain is ever refused by the reducer, and every variable*)
(* keeps its shape, for every plan and every number of workers and calls.  *)
(* Code: publish, applyJobEvent and JobHistoryStore.append.                *)
THEOREM CoordinatorEvents == Spec => []EventsInv
<1>1. CoordInv => EventsInv
  BY CoordImplies
<1>. QED
  BY <1>1, CoordAlways, PTL

(* The durable terminal record tells what was done to every file.  Code:   *)
(* recordLedgerEntry, emitTerminalOnce and publishTerminal.                *)
THEOREM CoordinatorTellsTheTruth == Spec => []TerminalTellsTheTruth
<1>1. CoordInv => TerminalTellsTheTruth
  BY DEF CoordInv
<1>. QED
  BY <1>1, CoordAlways, PTL

(* A manifest closed with a terminal has every settled operation and is not*)
(* ahead of the history.  Code: recordTerminal after the terminal.         *)
THEOREM CoordinatorEvidence == Spec => []EvidenceIsComplete
<1>1. CoordInv => EvidenceIsComplete
  BY DEF CoordInv
<1>. QED
  BY <1>1, CoordAlways, PTL

(* When shutdown has finished nothing is under way, and after a restart no *)
(* earlier job is.  Code: shutdownOnce, JobHistoryStore.initialize.        *)
THEOREM CoordinatorRests == Spec => []RestIsQuiet
<1>1. CoordInv => RestIsQuiet
  BY CoordImplies
<1>. QED
  BY <1>1, CoordAlways, PTL

(* The history never revises a terminal.                                   *)
LEMMA TerminalStands ==
  ASSUME CoordInv, [Next]_vars, history.status \in TerminalStatuses
  PROVE  history' = history
<1>1. CASE RecordPreview
  <2>1. history.status = "draft"
    BY <1>1 DEF RecordPreview, CoordInv, StageInv
  <2>. QED
    BY <2>1 DEF TerminalStatuses
<1>2. CASE WriteEvent
  <2>1. Admits(Head1.kind)
    BY <1>2 DEF WriteEvent
  <2>. QED
    BY <2>1, AcceptsRefuses DEF Admits
<1>3. CASE RefuseEvent
  <2>1. history' = history \/ Admits(Head1.kind)
    BY <1>3, RefusedIsPoisoned DEF Refuses
  <2>. QED
    BY <2>1, AcceptsRefuses DEF Admits
<1>4. CASE Restart
  BY <1>4 DEF Restart, ActiveStatuses, TerminalStatuses
<1>5. CASE CreatePreview \/ CancelPreview \/ PlanSettles \/ Cancel \/ WorkersEnd \/ CloseEvidence
           \/ DeliverEvent \/ Shutdown \/ Drained \/ Quiet \/ CloseSinks \/ Die
           \/ \E c \in Calls : Start(c) \/ Revalidated(c)
  BY <1>5 DEF CreatePreview, CancelPreview, PlanSettles, Cancel, WorkersEnd, CloseEvidence, DeliverEvent,
     Shutdown, Drained, Quiet, CloseSinks, Die, Start, Revalidated, sinks
<1>6. CASE \E w \in Workers : WorkerStep(w)
  BY <1>6 DEF WorkerStep, Take, Execute, Record, sinks
<1>7. CASE UNCHANGED vars
  BY <1>7 DEF vars, sinks
<1>. QED
  BY <1>1, <1>2, <1>3, <1>4, <1>5, <1>6, <1>7 DEF Next, Internal, Publishing

(* A terminal in the history is never revised, not even by a restart.      *)
(* Code: applyJobEvent, and JobHistoryStore.initialize.                    *)
THEOREM CoordinatorTerminalIsForever == Spec => TerminalIsForever
<1>1. CoordInv /\ [Next]_vars => (history.status \in TerminalStatuses => history' = history)
  BY TerminalStands
<1>. QED
  BY <1>1, CoordAlways, PTL DEF Spec, TerminalIsForever

(* Files change, and operations begin, only while the job runs.            *)
LEMMA EndIsQuiet ==
  ASSUME CoordInv, [Next]_vars
  PROVE  /\ job.emitted /\ up => truth' = truth
         /\ job.aborted => \A w \in Workers : worker'[w].at = "executing" => worker[w].at = "executing"
<1>. DEFINE Goal == /\ job.emitted /\ up => truth' = truth
                    /\ job.aborted => \A w \in Workers :
                         worker'[w].at = "executing" => worker[w].at = "executing"
<1>1. worker \in [Workers -> Places]
  BY DEF CoordInv, TypeOK
<1>2. ASSUME NEW w \in Workers, WorkerStep(w) PROVE Goal
  <2>1. CASE Take(w)
    <3>1. /\ truth' = truth
          /\ \/ worker' = [worker EXCEPT ![w].at = "done"]
             \/ worker' = [worker EXCEPT ![w] = [at |-> "announcing", op |-> job.next]]
      BY <2>1 DEF Take, MoveTo, sinks
    <3>2. \A v \in Workers : worker'[v] = worker[v] \/ worker'[v].at \in {"done", "announcing"}
      BY <1>1, <3>1 DEF Places
    <3>. QED
      BY <3>1, <3>2
  <2>2. CASE Execute(w)
    <3>1. ~job.emitted
      BY <2>2, WorkerIsWorking DEF Execute, AtW
    <3>2. \A v \in Workers : worker'[v] = worker[v] \/ worker'[v].at = "recording"
      BY <1>1, <2>2 DEF Execute, MoveTo, Places
    <3>. QED
      BY <3>1, <3>2
  <2>3. CASE Record(w)
    <3>1. /\ truth' = truth
          /\ \A v \in Workers : worker'[v] = worker[v] \/ worker'[v].at \in {"loop", "reporting", "failed"}
      BY <1>1, <2>3 DEF Record, Recorded, WorkerFails, MoveTo, Places
    <3>. QED
      BY <3>1
  <2>. QED
    BY <1>2, <2>1, <2>2, <2>3 DEF WorkerStep
<1>3. ASSUME NEW ok, Continue(ok) PROVE job.aborted => \A w \in Workers :
                                          worker'[w].at = "executing" => worker[w].at = "executing"
  <2>1. CASE ContinuePreview(ok) \/ ContinueStart(ok) \/ ContinueCancel(ok)
    BY <2>1 DEF ContinuePreview, ContinueStart, ContinueCancel
  <2>2. CASE ContinueRun(ok)
    <3>1. worker' = worker \/ worker' = [w \in Workers |-> [Idle EXCEPT !.at = "loop"]]
      BY <2>2 DEF ContinueRun
    <3>2. CASE worker' = worker
      BY <3>2
    <3>3. CASE worker' = [w \in Workers |-> [Idle EXCEPT !.at = "loop"]]
      <4>1. \A w \in Workers : worker'[w].at = "loop"
        BY <3>3 DEF Idle
      <4>. QED
        BY <4>1
    <3>. QED
      BY <3>1, <3>2, <3>3
  <2>3. CASE ContinueWorker(ok)
    <3>1. PICK w \in Workers : w = Head1.by
      BY <2>3 DEF ContinueWorker
    <3>2. job.aborted => \/ worker' = [worker EXCEPT ![w].at = "failed"]
                         \/ worker' = [worker EXCEPT ![w].at = "recording"]
                         \/ worker' = [worker EXCEPT ![w].at = "loop"]
      BY <2>3, <3>1 DEF ContinueWorker, Announced, MoveTo
    <3>3. job.aborted => \A v \in Workers :
                           worker'[v] = worker[v] \/ worker'[v].at \in {"failed", "recording", "loop"}
      BY <1>1, <3>2 DEF Places
    <3>. QED
      BY <3>3
  <2>. QED
    BY <1>3, <2>1, <2>2, <2>3 DEF Continue
<1>4. CASE DeliverEvent
  BY <1>3, <1>4 DEF DeliverEvent, sinks
<1>5. CASE RefuseEvent
  BY <1>3, <1>5 DEF RefuseEvent
<1>6. CASE Die
  <2>1. \A w \in Workers : worker'[w].at = "off"
    BY <1>6 DEF Die, Idle
  <2>. QED
    BY <1>6, <2>1 DEF Die, sinks
<1>7. CASE CreatePreview \/ CancelPreview \/ PlanSettles \/ RecordPreview \/ Cancel \/ WorkersEnd
           \/ CloseEvidence \/ WriteEvent \/ Shutdown \/ Drained \/ Quiet \/ CloseSinks \/ Restart
           \/ \E c \in Calls : Start(c) \/ Revalidated(c)
  BY <1>7 DEF CreatePreview, CancelPreview, PlanSettles, RecordPreview, Cancel, WorkersEnd, CloseEvidence,
     WriteEvent, Shutdown, Drained, Quiet, CloseSinks, Restart, Start, Revalidated, sinks
<1>8. CASE UNCHANGED vars
  BY <1>8 DEF vars, sinks
<1>. QED
  BY <1>2, <1>4, <1>5, <1>6, <1>7, <1>8 DEF Next, Internal, Publishing

(* Once the terminal is on its way no file of the job changes, and after a *)
(* cancellation no operation begins.  Code: runWorkers, executeOperation   *)
(* and emitTerminalOnce.                                                   *)
THEOREM CoordinatorNothingAfterTheEnd == Spec => NothingAfterTheEnd
<1>1. CoordInv /\ [Next]_vars =>
        /\ job.emitted /\ up => truth' = truth
        /\ job.aborted => \A w \in Workers : worker'[w].at = "executing" => worker[w].at = "executing"
  BY EndIsQuiet
<1>. QED
  BY <1>1, CoordAlways, PTL DEF Spec, NothingAfterTheEnd

(* A job begins only from a preview that nobody has consumed.              *)
LEMMA ConsumedStays ==
  ASSUME CoordInv, [Next]_vars, preview.consumed, job.run = "none"
  PROVE  job'.run = "none"
<1>1. job \in Jobs /\ job = NoJob
  BY DEF CoordInv, TypeOK, RunInv
<1>2. CASE CancelJob
  BY <1>1, <1>2 DEF CancelJob, Jobs
<1>3. ASSUME NEW w \in Workers, WorkerStep(w) PROVE job'.run = "none"
  <2>1. worker[w] = Idle
    BY DEF CoordInv, WorkersInv
  <2>. QED
    BY <1>3, <2>1 DEF WorkerStep, Take, Execute, Record, AtW, Idle
<1>4. ASSUME events # <<>>, NEW ok, Continue(ok) PROVE job'.run = "none"
  <2>1. DueToPreview(Head1)
    <3>1. DueToPreview(Head1) \/ DueToCall(Head1)
      BY <1>4, HeadIsDue, BeforeTheJob
    <3>. QED
      BY <3>1 DEF DueToCall, CoordInv, CallInv, Early
  <2>2. Head1.by = "preview" /\ "preview" \notin Workers \cup Calls
    BY <2>1, ActorAssumption DEF DueToPreview
  <2>. QED
    BY <1>4, <2>2 DEF Continue, ContinuePreview, ContinueStart, ContinueRun, ContinueWorker, ContinueCancel
<1>5. CASE DeliverEvent
  BY <1>4, <1>5 DEF DeliverEvent
<1>6. CASE RefuseEvent
  BY <1>4, <1>6 DEF RefuseEvent
<1>7. CASE Cancel \/ Shutdown \/ Drained
  BY <1>2, <1>7 DEF Cancel, Shutdown, Drained
<1>8. CASE Die
  BY <1>8 DEF Die, NoJob
<1>9. CASE WorkersEnd \/ CloseEvidence
  BY <1>9 DEF WorkersEnd, CloseEvidence
<1>10. CASE CreatePreview \/ CancelPreview \/ PlanSettles \/ RecordPreview \/ WriteEvent \/ Quiet
            \/ CloseSinks \/ Restart \/ \E c \in Calls : Start(c) \/ Revalidated(c)
  BY <1>10 DEF CreatePreview, CancelPreview, PlanSettles, RecordPreview, WriteEvent, Quiet, CloseSinks,
     Restart, Start, Revalidated
<1>11. CASE UNCHANGED vars
  BY <1>11 DEF vars
<1>. QED
  BY <1>3, <1>5, <1>6, <1>7, <1>8, <1>9, <1>10, <1>11 DEF Next, Internal, Publishing

(* A preview whose sources drifted never runs, whatever calls overlap.     *)
(* Code: startProcessing.                                                  *)
THEOREM CoordinatorDriftNeverRuns == Spec => DriftNeverRuns
<1>1. CoordInv /\ [Next]_vars => (preview.consumed /\ job.run = "none" => job'.run = "none")
  BY ConsumedStays
<1>. QED
  BY <1>1, CoordAlways, PTL DEF Spec, DriftNeverRuns
=============================================================================
