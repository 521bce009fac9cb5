------------------------ MODULE ProcessingCoordinator ------------------------
(***************************************************************************)
(* src/main/services/ProcessingCoordinator.ts with what it drives: one     *)
(* preview and the job started from it, its workers, its chain of events,  *)
(* the two sinks of the composed history port (JobHistoryStore and         *)
(* EvidenceManifest behind CoordinatorEvidenceAdapter), shutdown, and the  *)
(* crash and restart of the application.                                   *)
(*                                                                         *)
(* Everything runs on one event loop; an action is what happens between    *)
(* two awaits.  publish() appends to a promise chain: the head of `events` *)
(* is evaluated by the machine, written to the history, and then accepted  *)
(* and delivered, which resumes whoever awaited it.  An event is named by  *)
(* the status it leads to (JobStateMachine); its number is always the one  *)
(* after the machine's last, because a context hands its counter over only *)
(* when its chain is idle.                                                 *)
(*                                                                         *)
(* Left out: the planner's own work and its progress events, stage         *)
(* progress of the executor, clock values (an expired preview is a         *)
(* choice), bytes, and the reads of the history.  Failures of a sink and   *)
(* crashes are bounded by MaxFaults and MaxCrashes.                        *)
(***************************************************************************)
EXTENDS JobStateMachine, Sequences, FiniteSets

CONSTANTS
  OpCount,     \* operations of the plan, taken in this order
  Workers,     \* workerCount concurrent loops
  Calls,       \* concurrent calls of startProcessing
  NoOp,        \* a worker without an operation
  MaxFaults,   \* sink writes that may fail
  MaxCrashes   \* deaths of the process

ASSUME PlanAssumption == OpCount \in Nat \ {0}
ASSUME ActorAssumption ==
  /\ Workers # {} /\ Workers \cap Calls = {} /\ NoOp \notin Nat
  /\ {"preview", "run", "cancel"} \cap (Workers \cup Calls) = {}
ASSUME BoundAssumption == MaxFaults \in Nat /\ MaxCrashes \in Nat

Ops == 1 .. OpCount

VARIABLES
  machine,    \* the JobStateMachine of the job
  events,     \* the promise chain: events published and not yet delivered
  written,    \* the head of the chain is in the history already
  preview,    \* the preview: stage, cancelled, starting, consumed
  call,       \* what each call of startProcessing is at
  job,        \* the ActiveJob: see NoJob
  worker,     \* each worker's place and operation
  stop,       \* how far shutdown is
  poisoned,   \* the history store refuses writes until it is reopened
  up,         \* the process runs
  truth,      \* what the executor did to each operation's files
  history,    \* the durable history of the job: a machine and its claims
  evidence,   \* the evidence manifest: state, recorded operations, ending
  spent       \* failures and crashes so far

sinks == <<truth, history, evidence>>
life  == <<up, poisoned, spent>>
vars  == <<machine, events, written, preview, call, job, worker, stop, life, sinks>>

Outcomes == {"committed", "skipped", "failed", "residue", "cancelled"}
Nothing  == [o \in Ops |-> "none"]
Unsaid   == [o \in Ops |-> "unsaid"]

NoPreview == [stage |-> "none", cancelled |-> FALSE, starting |-> FALSE,
              consumed |-> FALSE]
NoJob     == [run |-> "none", next |-> 1, aborted |-> FALSE, cancel |-> "none",
              failed |-> FALSE, emitted |-> FALSE, ledger |-> Nothing,
              claims |-> Nothing]
Idle      == [at |-> "off", op |-> NoOp]

Init ==
  /\ machine = NewMachine /\ events = <<>> /\ written = FALSE
  /\ preview = NoPreview /\ call = [c \in Calls |-> "idle"]
  /\ job = NoJob /\ worker = [w \in Workers |-> Idle]
  /\ stop = "no" /\ poisoned = FALSE /\ up = TRUE
  /\ spent = [faults |-> 0, crashes |-> 0]
  /\ truth = [o \in Ops |-> "untouched"]
  /\ history = [status |-> "draft", last |-> 0, claims |-> Nothing]
  /\ evidence = [state |-> "none", ledger |-> {}, ending |-> "none"]

-----------------------------------------------------------------------------
(* Helpers.                                                                *)
Next1 == machine.last + 1
Event(kind, by, durable) == [kind |-> kind, by |-> by, durable |-> durable]
Publish(kind, by, durable) == events' = Append(events, Event(kind, by, durable))
Head1 == events[1]
(* The head leaves the chain; what its awaiter publishes goes to the end.  *)
Leave             == events' = Tail(events)
LeaveAnd(kind, by, durable) ==
  events' = Append(Tail(events), Event(kind, by, durable))

Fault == /\ spent.faults < MaxFaults
         /\ spent' = [spent EXCEPT !.faults = @ + 1]

(* rejectStart, and every other note in the manifest: it may fail, and a   *)
(* failed manifest stays closed.                                           *)
NoteInEvidence ==
  \/ UNCHANGED <<evidence, spent>>
  \/ evidence.state = "open" /\ Fault
     /\ evidence' = [evidence EXCEPT !.state = "failed"]

-----------------------------------------------------------------------------
(* createPreview.                                                          *)
CreatePreview ==
  /\ up /\ stop = "no" /\ preview.stage = "none"
  /\ preview' = [preview EXCEPT !.stage = "starting"]
  /\ Publish("previewing", "preview", FALSE)
  /\ UNCHANGED <<machine, written, call, job, worker, stop, life, sinks>>

(* The planner returns or throws; an abort is looked at when it does.      *)
PlanSettles ==
  /\ up /\ preview.stage = "planning"
  /\ \/ /\ ~preview.cancelled
        /\ preview' = [preview EXCEPT !.stage = "recording"]
        /\ UNCHANGED events
     \/ /\ preview' = [preview EXCEPT !.stage = "failing"]
        /\ Publish("failed", "preview", FALSE)
  /\ UNCHANGED <<machine, written, call, job, worker, stop, life, sinks>>

(* recordPreview in both sinks at once.  If one fails the call fails, and  *)
(* what the other wrote stays.                                             *)
Created == [status |-> "ready", last |-> 2, claims |-> Nothing]
Manifest(state) == [evidence EXCEPT !.state = state]
RecordPreview ==
  /\ up /\ preview.stage = "recording"
  /\ \/ /\ ~poisoned /\ history' = Created /\ evidence' = Manifest("open")
        /\ Publish("ready", "preview", FALSE)
        /\ preview' = [preview EXCEPT !.stage = "finishing"]
        /\ UNCHANGED <<poisoned, spent>>
     \/ /\ Fault /\ UNCHANGED events
        /\ preview' = [preview EXCEPT !.stage = "gone"]
        /\ \/ history' = Created /\ evidence' = Manifest("failed") /\ UNCHANGED poisoned
           \/ /\ history' \in {history, Created} /\ poisoned' = TRUE
              /\ evidence' = Manifest("open")
  /\ UNCHANGED <<machine, written, call, job, worker, stop, up, truth>>

(* cancelProcessing of a preview, while it is cancellable.                 *)
Cancellable == preview.stage \in {"starting", "planning", "failing"}
CancelPreview ==
  /\ up /\ stop = "no" /\ Cancellable /\ ~preview.cancelled
  /\ preview' = [preview EXCEPT !.cancelled = TRUE]
  /\ UNCHANGED <<machine, events, written, call, job, worker, stop, life, sinks>>

ContinuePreview(ok) ==
  /\ Head1.by = "preview" /\ Leave
  /\ preview' = [preview EXCEPT !.stage =
       CASE @ = "starting"  -> "planning"
         [] @ = "finishing" -> "available"
         [] OTHER           -> "gone"]
  /\ UNCHANGED <<call, job, worker>>

-----------------------------------------------------------------------------
(* startProcessing.                                                        *)
Refuse(c) == call' = [call EXCEPT ![c] = "refused"]

(* Mutant: a preview that is being started may be started again.           *)
StartTwice(c) ==
  /\ up /\ stop = "no" /\ call[c] = "idle"
  /\ IF preview.stage = "available" /\ ~preview.consumed
       THEN /\ preview' = [preview EXCEPT !.starting = TRUE]
            /\ call' = [call EXCEPT ![c] = "revalidating"]
       ELSE Refuse(c) /\ UNCHANGED preview
  /\ UNCHANGED <<machine, events, written, job, worker, stop, life, sinks>>

Start(c) ==
  /\ up /\ stop = "no" /\ call[c] = "idle"
  /\ IF preview.stage = "available" /\ ~preview.consumed /\ ~preview.starting
       THEN \/ /\ preview' = [preview EXCEPT !.starting = TRUE]
               /\ call' = [call EXCEPT ![c] = "revalidating"]
               /\ UNCHANGED <<evidence, spent>>
            \/ Refuse(c) /\ NoteInEvidence /\ UNCHANGED preview
       ELSE Refuse(c) /\ UNCHANGED <<preview, evidence, spent>>
  /\ UNCHANGED <<machine, events, written, job, worker, stop, up, poisoned, truth, history>>

(* The revalidator answers: it failed or the preview expired meanwhile, the*)
(* sources or the configuration drifted, or the job may be queued.         *)
Revalidated(c) ==
  /\ up /\ call[c] = "revalidating"
  /\ \/ /\ \E drift \in BOOLEAN :
             preview' = [preview EXCEPT !.starting = FALSE, !.consumed = @ \/ drift]
        /\ Refuse(c) /\ NoteInEvidence /\ UNCHANGED events
     \/ /\ Publish("queued", c, TRUE)
        /\ call' = [call EXCEPT ![c] = "queueing"]
        /\ UNCHANGED <<preview, evidence, spent>>
  /\ UNCHANGED <<machine, written, job, worker, stop, up, poisoned, truth, history>>

(* A queued job is active, and runs at once.                               *)
ContinueStart(ok) ==
  /\ Head1.by \in Calls
  /\ preview' = [preview EXCEPT !.starting = FALSE, !.consumed = @ \/ ok]
  /\ IF ok
       THEN /\ call' = [call EXCEPT ![Head1.by] = "accepted"]
            /\ job' = [job EXCEPT !.run = "starting"]
            /\ LeaveAnd("processing", "run", TRUE)
       ELSE Refuse(Head1.by) /\ Leave /\ UNCHANGED job
  /\ UNCHANGED worker

-----------------------------------------------------------------------------
(* runJob and its workers.                                                 *)
AtW(w, l)     == up /\ worker[w].at = l
MoveTo(w, l)  == worker' = [worker EXCEPT ![w].at = l]
Settled(l)    == {o \in Ops : l[o] # "none"}
With(l, o, outcome) == [l EXCEPT ![o] = outcome]

(* emitTerminalOnce: the payload is computed from the ledger as it stands. *)
Emit(kind) ==
  /\ job' = [job EXCEPT !.emitted = TRUE, !.claims = job.ledger, !.run = "ending"]
  /\ Publish(kind, "run", TRUE)

(* JOB_STARTED is out: the workers start.  It could not be written: the    *)
(* job ends with nothing attempted.  The terminal is out: the evidence is  *)
(* closed.  It could not be written: the job has no terminal.              *)
ContinueRun(ok) ==
  /\ Head1.by = "run"
  /\ IF job.run = "starting"
       THEN IF ok
         THEN /\ job' = [job EXCEPT !.run = "working"] /\ Leave
              /\ worker' = [w \in Workers |-> [Idle EXCEPT !.at = "loop"]]
         ELSE /\ job' = [job EXCEPT !.emitted = TRUE, !.run = "ending"]
              /\ LeaveAnd(IF job.aborted THEN "cancelled" ELSE "failed", "run", TRUE)
              /\ UNCHANGED worker
       ELSE /\ job' = [job EXCEPT !.run = IF ok THEN "closing" ELSE "lost"]
            /\ Leave /\ UNCHANGED worker
  /\ UNCHANGED <<preview, call>>

Take(w) ==
  /\ AtW(w, "loop")
  /\ IF job.aborted \/ job.failed \/ job.next > OpCount
       THEN MoveTo(w, "done") /\ UNCHANGED <<job, events>>
       ELSE /\ worker' = [worker EXCEPT ![w] = [at |-> "announcing", op |-> job.next]]
            /\ job' = [job EXCEPT !.next = @ + 1]
            /\ Publish("job_progress", w, FALSE)
  /\ UNCHANGED <<machine, written, preview, call, stop, life, sinks>>

(* Mutant: the operation begins although the job was cancelled meanwhile.  *)
AnnouncedAnyway(w) == MoveTo(w, "executing") /\ UNCHANGED job

(* The executor is called, and refuses before it starts when the job is    *)
(* aborted: the operation is cancelled with nothing done.                  *)
Announced(w) ==
  IF job.aborted
    THEN /\ job' = [job EXCEPT !.ledger = With(@, worker[w].op, "cancelled")]
         /\ MoveTo(w, "recording")
    ELSE MoveTo(w, "executing") /\ UNCHANGED job

(* The executor settles.  A failed operation may have committed bytes, and *)
(* a cancelled one is a residue when it had committed.                     *)
Execute(w) ==
  LET o == worker[w].op IN
  /\ AtW(w, "executing")
  /\ \E outcome \in Outcomes, done \in BOOLEAN :
       /\ outcome \in {"cancelled", "residue"} => job.aborted
       /\ outcome \in {"committed", "residue"} => done
       /\ outcome \in {"skipped", "cancelled"} => ~done
       /\ job' = [job EXCEPT !.ledger = With(@, o, outcome)]
       /\ truth' = [truth EXCEPT ![o] = IF done THEN "done" ELSE @]
  /\ MoveTo(w, "recording")
  /\ UNCHANGED <<machine, events, written, preview, call, stop, life, history, evidence>>

WorkerFails(w) ==
  /\ MoveTo(w, "failed") /\ job' = [job EXCEPT !.failed = TRUE]
  /\ UNCHANGED events

Recorded(w) ==
  IF job.aborted \/ job.failed
    THEN MoveTo(w, "loop") /\ UNCHANGED <<job, events>>
    ELSE /\ MoveTo(w, "reporting") /\ UNCHANGED job
         /\ \E durable \in BOOLEAN :
              /\ Settled(job.ledger) = Ops => durable
              /\ Publish("job_progress", w, durable)

(* Mutant: the outcome counts only once the audit append has succeeded.    *)
RecordThenCount(w) ==
  LET o == worker[w].op IN
  /\ AtW(w, "recording")
  /\ \/ /\ evidence.state = "open" /\ UNCHANGED spent
        /\ evidence' = [evidence EXCEPT !.ledger = @ \cup {o}]
        /\ Recorded(w)
     \/ /\ \/ evidence.state # "open" /\ UNCHANGED spent
           \/ Fault
        /\ evidence' = Manifest("failed")
        /\ MoveTo(w, "failed") /\ UNCHANGED events
        /\ job' = [job EXCEPT !.failed = TRUE, !.ledger = With(@, o, "none")]
  /\ UNCHANGED <<machine, written, preview, call, stop, up, poisoned, truth, history>>

(* recordLedgerEntry: the evidence takes the entry, or the worker fails and*)
(* no further operation is taken.                                          *)
Record(w) ==
  /\ AtW(w, "recording")
  /\ \/ /\ evidence.state = "open" /\ UNCHANGED spent
        /\ evidence' = [evidence EXCEPT !.ledger = @ \cup {worker[w].op}]
        /\ Recorded(w)
     \/ /\ \/ evidence.state # "open" /\ UNCHANGED spent
           \/ Fault
        /\ evidence' = Manifest("failed") /\ WorkerFails(w)
  /\ UNCHANGED <<machine, written, preview, call, stop, up, poisoned, truth, history>>

ContinueWorker(ok) ==
  /\ Head1.by \in Workers /\ Leave
  /\ IF ~ok
       THEN MoveTo(Head1.by, "failed") /\ job' = [job EXCEPT !.failed = TRUE]
       ELSE IF worker[Head1.by].at = "announcing"
         THEN Announced(Head1.by)
         ELSE MoveTo(Head1.by, "loop") /\ UNCHANGED job
  /\ UNCHANGED <<preview, call>>

(* The terminal: after every worker has settled.                           *)
Over(w) == worker[w].at \in {"done", "failed"}
Verdict(l) ==
  LET failures == {o \in Ops : l[o] = "failed"} IN
  CASE failures = {}  -> "completed"
    [] failures = Ops -> "failed"
    [] OTHER          -> "partial"

(* Mutant: the job ends as soon as one worker has failed.                  *)
WorkersEndAtFirstFailure ==
  /\ up /\ job.run = "working"
  /\ (\A w \in Workers : Over(w)) \/ (\E w \in Workers : worker[w].at = "failed")
  /\ Emit(CASE job.failed -> "failed" [] job.aborted -> "cancelled"
            [] OTHER -> Verdict(job.ledger))
  /\ UNCHANGED <<machine, written, preview, call, worker, stop, life, sinks>>

(* Mutant: workers that failed are never taken as settled.                 *)
WorkersAllDone ==
  /\ up /\ job.run = "working" /\ \A w \in Workers : worker[w].at = "done"
  /\ Emit(IF job.aborted THEN "cancelled" ELSE Verdict(job.ledger))
  /\ UNCHANGED <<machine, written, preview, call, worker, stop, life, sinks>>

WorkersEnd ==
  /\ up /\ job.run = "working" /\ \A w \in Workers : Over(w)
  /\ Emit(CASE job.failed  -> "failed"
            [] job.aborted -> "cancelled"
            [] OTHER       -> Verdict(job.ledger))
  /\ UNCHANGED <<machine, written, preview, call, worker, stop, life, sinks>>

(* Mutant: a manifest that refused an entry is closed all the same.        *)
CloseEvidenceAnyway ==
  /\ up /\ job.run = "closing"
  /\ evidence' = [evidence EXCEPT !.state = "closed", !.ending = machine.status]
  /\ job' = [job EXCEPT !.run = "ended"]
  /\ UNCHANGED <<machine, events, written, preview, call, worker, stop, life, truth, history>>

(* recordTerminal: the manifest is closed with the delivered terminal.     *)
CloseEvidence ==
  /\ up /\ job.run = "closing"
  /\ \/ /\ evidence.state = "open" /\ UNCHANGED spent
        /\ evidence' = [evidence EXCEPT !.state = "closed", !.ending = machine.status]
        /\ job' = [job EXCEPT !.run = "ended"]
     \/ /\ \/ evidence.state # "open" /\ UNCHANGED spent
           \/ Fault
        /\ evidence' = Manifest("failed")
        /\ job' = [job EXCEPT !.run = "lost"]
  /\ UNCHANGED <<machine, events, written, preview, call, worker, stop, up, poisoned, truth, history>>

-----------------------------------------------------------------------------
(* cancelProcessing of an active job; it says nothing once the terminal is *)
(* on its way, and a second call shares the first one's promise.           *)
Active == job.run # "none" /\ ~job.emitted /\ machine.status \notin TerminalStatuses
CancelJob ==
  /\ job' = [job EXCEPT !.aborted = TRUE, !.cancel = "published"]
  /\ Publish("cancelling", "cancel", TRUE)

(* Mutant: a job whose terminal is on its way is cancelled as well.        *)
CancelLate ==
  /\ up /\ stop = "no" /\ job.run # "none" /\ job.cancel = "none"
  /\ machine.status \notin TerminalStatuses
  /\ CancelJob
  /\ UNCHANGED <<machine, written, preview, call, worker, stop, life, sinks>>

Cancel ==
  /\ up /\ stop = "no" /\ Active /\ job.cancel = "none"
  /\ CancelJob
  /\ UNCHANGED <<machine, written, preview, call, worker, stop, life, sinks>>

ContinueCancel(ok) ==
  /\ Head1.by = "cancel" /\ Leave
  /\ job' = [job EXCEPT !.cancel = "answered"]
  /\ UNCHANGED <<preview, call, worker>>

-----------------------------------------------------------------------------
(* publish: the head of the chain.                                         *)
Continue(ok) ==
  \/ ContinuePreview(ok) \/ ContinueStart(ok) \/ ContinueRun(ok)
  \/ ContinueWorker(ok)  \/ ContinueCancel(ok)

Claims(kind) == IF kind \in TerminalStatuses THEN job.claims ELSE Nothing
Written(kind) ==
  LET m == After([status |-> history.status, last |-> history.last], kind, Next1)
  IN  [status |-> m.status, last |-> m.last, claims |-> Claims(kind)]
Admits(kind) ==
  Accepts([status |-> history.status, last |-> history.last], kind, Next1)

(* The event is in the history, and not yet in the machine.                *)
WriteEvent ==
  /\ up /\ events # <<>> /\ ~written
  /\ Accepts(machine, Head1.kind, Next1)
  /\ Head1.durable /\ ~poisoned /\ Admits(Head1.kind)
  /\ history' = Written(Head1.kind) /\ written' = TRUE
  /\ UNCHANGED <<machine, events, preview, call, job, worker, stop, life, truth, evidence>>

DeliverEvent ==
  /\ up /\ events # <<>>
  /\ Accepts(machine, Head1.kind, Next1)
  /\ written \/ ~Head1.durable
  /\ machine' = After(machine, Head1.kind, Next1) /\ written' = FALSE
  /\ Continue(TRUE)
  /\ UNCHANGED <<stop, life, sinks>>

(* The history fails, possibly after the line is on disk, and is poisoned; *)
(* or it is poisoned already; or one of the two machines refuses the event.*)
RefuseEvent ==
  /\ up /\ events # <<>> /\ ~written
  /\ \/ /\ Accepts(machine, Head1.kind, Next1)
        /\ Head1.durable /\ ~poisoned /\ Admits(Head1.kind) /\ Fault
        /\ poisoned' = TRUE
        /\ history' \in {history, Written(Head1.kind)}
     \/ /\ \/ ~Accepts(machine, Head1.kind, Next1)
           \/ Head1.durable /\ (poisoned \/ ~Admits(Head1.kind))
        /\ UNCHANGED <<poisoned, spent, history>>
  /\ Continue(FALSE)
  /\ UNCHANGED <<machine, written, stop, up, truth, evidence>>

-----------------------------------------------------------------------------
(* shutdown, and the cleanup steps of ApplicationRuntime after it.         *)
Shutdown ==
  /\ up /\ stop = "no" /\ stop' = "draining"
  /\ preview' = [preview EXCEPT !.cancelled = @ \/ Cancellable]
  /\ IF Active /\ job.cancel = "none" THEN CancelJob ELSE UNCHANGED <<job, events>>
  /\ UNCHANGED <<machine, written, call, worker, life, sinks>>

Admitted == \/ preview.stage \in {"starting", "planning", "failing", "recording", "finishing"}
            \/ \E c \in Calls : call[c] \in {"revalidating", "queueing"}

(* Mutant: shutdown does not wait for the calls it has admitted.           *)
DrainedAtOnce ==
  /\ up /\ stop = "draining" /\ job.cancel # "published"
  /\ stop' = "settling"
  /\ IF Active /\ job.cancel = "none" THEN CancelJob ELSE UNCHANGED <<job, events>>
  /\ UNCHANGED <<machine, written, preview, call, worker, life, sinks>>

(* No admitted call is left; what one of them has started is cancelled too.*)
Drained ==
  /\ up /\ stop = "draining" /\ ~Admitted /\ job.cancel # "published"
  /\ stop' = "settling"
  /\ IF Active /\ job.cancel = "none" THEN CancelJob ELSE UNCHANGED <<job, events>>
  /\ UNCHANGED <<machine, written, preview, call, worker, life, sinks>>

(* Mutant: shutdown waits for a terminal that was delivered.               *)
QuietWhenEnded ==
  /\ up /\ stop = "settling" /\ job.cancel # "published"
  /\ job.run \in {"none", "ended"} /\ events = <<>>
  /\ stop' = "quiet"
  /\ UNCHANGED <<machine, events, written, preview, call, job, worker, life, sinks>>

Quiet ==
  /\ up /\ stop = "settling" /\ job.cancel # "published"
  /\ job.run \in {"none", "ended", "lost"} /\ events = <<>>
  /\ stop' = "quiet"
  /\ UNCHANGED <<machine, events, written, preview, call, job, worker, life, sinks>>

(* The evidence adapter closes a manifest that has no terminal; then the   *)
(* history closes, and the process ends.                                   *)
CloseSinks ==
  /\ up /\ stop = "quiet" /\ stop' = "closed"
  /\ IF evidence.state = "open"
       THEN \/ /\ evidence' = [evidence EXCEPT !.state = "closed", !.ending = "shutdown"]
               /\ UNCHANGED spent
            \/ Fault /\ evidence' = Manifest("failed")
       ELSE UNCHANGED <<evidence, spent>>
  /\ UNCHANGED <<machine, events, written, preview, call, job, worker, up, poisoned, truth, history>>

(* The process dies, or has ended: what it held in memory is gone.         *)
Die ==
  /\ up
  /\ \/ stop = "closed" /\ UNCHANGED spent
     \/ /\ spent.crashes < MaxCrashes
        /\ spent' = [spent EXCEPT !.crashes = @ + 1]
  /\ up' = FALSE /\ poisoned' = FALSE
  /\ machine' = NewMachine /\ events' = <<>> /\ written' = FALSE
  /\ preview' = [NoPreview EXCEPT !.stage = "gone"]
  /\ call' = [c \in Calls |-> "refused"]
  /\ job' = NoJob /\ worker' = [w \in Workers |-> Idle]
  /\ UNCHANGED <<stop, sinks>>

(* JobHistoryStore.initialize: the file is replayed, and a job that was    *)
(* under way is recorded as failed.                                        *)
ActiveStatuses == {"previewing", "queued", "processing", "cancelling"}
Interrupted == [status |-> "failed", last |-> history.last + 1, claims |-> Unsaid]

(* Mutant: a job that was being cancelled is not taken for interrupted.    *)
RestartForgetsCancelling ==
  /\ ~up /\ up' = TRUE /\ stop' = "closed"
  /\ history' = IF history.status \in {"queued", "processing"} THEN Interrupted ELSE history
  /\ UNCHANGED <<machine, events, written, preview, call, job, worker, poisoned, spent, truth, evidence>>

(* Mutant: every job that has begun is taken for interrupted.              *)
RestartInterruptsAll ==
  /\ ~up /\ up' = TRUE /\ stop' = "closed"
  /\ history' = IF history.status \notin {"draft", "ready"} THEN Interrupted ELSE history
  /\ UNCHANGED <<machine, events, written, preview, call, job, worker, poisoned, spent, truth, evidence>>

Restart ==
  /\ ~up /\ up' = TRUE /\ stop' = "closed"
  /\ history' = IF history.status \in ActiveStatuses THEN Interrupted ELSE history
  /\ UNCHANGED <<machine, events, written, preview, call, job, worker, poisoned, spent, truth, evidence>>

-----------------------------------------------------------------------------
WorkerStep(w) == Take(w) \/ Execute(w) \/ Record(w)
Publishing    == WriteEvent \/ DeliverEvent \/ RefuseEvent
Internal ==
  \/ PlanSettles \/ RecordPreview \/ Publishing \/ WorkersEnd \/ CloseEvidence
  \/ (\E w \in Workers : WorkerStep(w)) \/ (\E c \in Calls : Revalidated(c))
  \/ Drained \/ Quiet \/ CloseSinks

Next ==
  \/ CreatePreview \/ CancelPreview \/ (\E c \in Calls : Start(c)) \/ Cancel
  \/ Internal \/ Shutdown \/ Die \/ Restart

Spec == Init /\ [][Next]_vars

(* The event loop runs every continuation that is ready; planner,          *)
(* revalidator, executor and file system answer.  Nobody has to ask for    *)
(* anything, and nothing has to fail or die.                               *)
Fairness ==
  /\ WF_vars(PlanSettles) /\ WF_vars(RecordPreview)
  /\ WF_vars(WriteEvent \/ DeliverEvent \/ RefuseEvent)
  /\ WF_vars(WorkersEnd) /\ WF_vars(CloseEvidence)
  /\ WF_vars(Drained) /\ WF_vars(Quiet) /\ WF_vars(CloseSinks)
  /\ \A w \in Workers : WF_vars(WorkerStep(w))
  /\ \A c \in Calls : WF_vars(Revalidated(c))
FairSpec == Spec /\ Fairness

-----------------------------------------------------------------------------
Actors    == {"preview", "run", "cancel"} \cup Workers \cup Calls
Events    == [kind : Kinds, by : Actors, durable : BOOLEAN]
Ledgers   == [Ops -> Outcomes \cup {"none"}]
Previews  == [stage : {"none", "starting", "planning", "failing", "recording",
                       "finishing", "available", "gone"},
              cancelled : BOOLEAN, starting : BOOLEAN, consumed : BOOLEAN]
Jobs      == [run : {"none", "starting", "working", "ending", "closing", "ended", "lost"},
              next : 1 .. OpCount + 1, aborted : BOOLEAN,
              cancel : {"none", "published", "answered"}, failed : BOOLEAN,
              emitted : BOOLEAN, ledger : Ledgers, claims : Ledgers]
Places    == [at : {"off", "loop", "announcing", "executing", "recording",
                    "reporting", "done", "failed"},
              op : Ops \cup {NoOp}]
Histories == [status : Statuses, last : Nat, claims : Ledgers \cup {Unsaid}]
Manifests == [state : {"none", "open", "failed", "closed"}, ledger : SUBSET Ops,
              ending : TerminalStatuses \cup {"none", "shutdown"}]

(* Every variable keeps the shape the code gives it; an operation index    *)
(* never leaves the plan.                                                  *)
TypeOK ==
  /\ machine \in [status : Statuses, last : Nat] /\ events \in Seq(Events)
  /\ written \in BOOLEAN /\ up \in BOOLEAN /\ poisoned \in BOOLEAN
  /\ preview \in Previews /\ job \in Jobs /\ worker \in [Workers -> Places]
  /\ call \in [Calls -> {"idle", "revalidating", "queueing", "accepted", "refused"}]
  /\ stop \in {"no", "draining", "settling", "quiet", "closed"}
  /\ truth \in [Ops -> {"untouched", "done"}]
  /\ history \in Histories /\ evidence \in Manifests
  /\ spent \in [faults : 0 .. MaxFaults, crashes : 0 .. MaxCrashes]

(* No event is ever refused by the reducer, in memory or in the history:   *)
(* whatever the order in which workers, run and cancel append to the chain,*)
(* each event is legal when its turn comes.                                *)
EveryEventIsLegal ==
  events # <<>> =>
    /\ Accepts(machine, Head1.kind, Next1)
    /\ Head1.durable /\ ~poisoned /\ ~written => Admits(Head1.kind)

(* The types, with the event chain that the reducer and the history accept.*)
(* Code: publish and applyJobEvent.                                        *)
EventsInv == TypeOK /\ EveryEventIsLegal

(* What the durable terminal record says of each operation is what was     *)
(* done: an operation it does not report was not touched, `completed` means*)
(* that nothing failed, and a committed one is at its destination.         *)
TerminalTellsTheTruth ==
  history.status \in TerminalStatuses /\ history.claims # Unsaid =>
    /\ history.status = "completed" =>
         \A o \in Ops : history.claims[o] \in {"committed", "skipped"}
    /\ \A o \in Ops :
         /\ history.claims[o] \in {"none", "cancelled", "skipped"} => truth[o] = "untouched"
         /\ history.claims[o] \in {"committed", "residue"} => truth[o] = "done"

(* Once the terminal is on its way no file of the job changes any more;    *)
(* and after a cancellation no further operation begins, not even one whose*)
(* announcement was waiting in the chain.                                  *)
NothingAfterTheEnd ==
  [][/\ job.emitted /\ up => truth' = truth
     /\ job.aborted => \A w \in Workers :
          worker'[w].at = "executing" => worker[w].at = "executing"]_vars

(* A manifest that is closed with a terminal is complete, and the history  *)
(* has the same terminal: it is never ahead of what the user was told.     *)
EvidenceIsComplete ==
  evidence.ending \in TerminalStatuses =>
    /\ history.status = evidence.ending /\ history.claims # Unsaid
    /\ evidence.ledger = Settled(history.claims)

(* A preview whose sources drifted never runs, whatever calls overlap.     *)
DriftNeverRuns ==
  [][preview.consumed /\ job.run = "none" => job'.run = "none"]_vars

(* When shutdown has finished nothing of the coordinator is under way: the *)
(* executor and the sinks may be closed.                                   *)
ShutdownIsQuiet ==
  stop \in {"quiet", "closed"} =>
    /\ events = <<>> /\ ~Admitted
    /\ \A w \in Workers : worker[w].at \in {"off", "done", "failed"}
    /\ job.run \in {"none", "ended", "lost"}

(* After a restart no job of an earlier process is still under way.        *)
NoZombies == up /\ preview.stage = "gone" => history.status \notin ActiveStatuses

RestIsQuiet == ShutdownIsQuiet /\ NoZombies

(* The history never revises a terminal, not even across restarts.         *)
TerminalIsForever ==
  [][history.status \in TerminalStatuses => history' = history]_vars

(* Every accepted job ends, with its terminal, or without one because a    *)
(* sink has failed; and every shutdown ends.  Code: the end of runJob and  *)
(* publishTerminal, shutdownOnce.                                          *)
JobAtRest ==
  \/ job.run \in {"none", "ended"}
  \/ job.run = "lost" /\ (poisoned \/ evidence.state = "failed")

WorkEnds == <>[](up => JobAtRest /\ stop \in {"no", "closed"})
=============================================================================
