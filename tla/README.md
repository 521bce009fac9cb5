# META Mover: a verification project in TLA+

META Mover is an Electron application that copies or moves photos and videos
into a tree of dated folders. The program is TypeScript (`src/src/main`), with a
native helper in Rust (`src/native/fs-helper`) that performs every change of a
namespace. Its promise is about other people's only copies of their pictures:
no original is lost, nothing is overwritten, whatever is interrupted, and what
the job reports is what happened.

The modules here model the code that carries that promise. TLC checks them on
small instances; TLAPS proves the central ones for every value of the constants.
Paths below are relative to the repository. Abbreviations used for the long
files: `TFC` = `src/main/core/transaction/TransactionalFileCore.ts`, `helper
client` = `src/main/native/NativeFilesystemHelperClient.ts`, `unix backend` =
`native/fs-helper/src/unix_backend.rs`.

## 1. Inventory of the system

| Part | State it keeps | Operations | Talks to |
|---|---|---|---|
| Native helper (`fs-helper`) | bound root descriptors; nothing else in memory | stage_copy, hard_link_no_replace, rename_no_replace, unlink_exact, delete_source_exact, reconcile_source_delete, close | one JSON line in, one out, on its standard pipes |
| Helper client | queue of requests, the one in flight, fatal error, closing | every helper operation, abort, close | the helper's pipes and exit event |
| Transaction core (`TFC`) | allocation lock, per-target counters, committed hashes, identities of managed files | execute, recovery on open, close | helper client, journal |
| Transaction journal | journal file, sequence file, lock file; remembered size and sequence floor | open, append, fold, repair, close | file system |
| Core lock | `core.lock`, candidate and quarantine files | acquire, repair, restore, release | other processes on the same destination |
| Transaction executor | cache of cores per destination with their source roots, operations in flight | execute, close | core; reports to the coordinator |
| Processing coordinator | previews, active jobs, one event chain per job, worker loops | createPreview, startProcessing, cancelProcessing, shutdown | executor, revalidator, history, evidence, IPC |
| Job state machine | status and last sequence number | apply(event) | used by coordinator and history |
| Job history store | append-only file, ownership lock, poisoned flag | append, initialise, recover interrupted jobs | coordinator |
| Evidence manifest and adapter | one manifest per job: entries, ending, failed flag | open, append, close | coordinator |
| Application runtime, main process | which owners are held, the window, whether a quit was asked for | start, rollback of a failed start, windows, activation, quit, shutdown | all services, Electron's events |
| Processing IPC controller | subscriptions and admitted calls | request handlers, event forwarding | renderer, coordinator |
| Planner, revalidator, inventory | none that outlives a call | plan, compare | coordinator |
| Adaptive work pool | workers, one shared CPU probe, running weight | mapOrdered, abort | planner |
| ExifTool pool | children that stay open, queue of reads, open descriptors | read, abort, stop | metadata collection |
| Date resolution, cohort, metadata policies | none (pure) | score, choose | planner |
| Config, plan and override stores | small JSON files | read, write and rename | runtime, coordinator |
| AI review, review remediation, normalization audit | batch state, remediation records | run batch, remediate, audit | stores |
| Path policy, launch broker, logger, renderer, scripts | none, or display only | | |

How the parts interact in a move: the coordinator publishes `processing` events
through one promise chain; a worker takes the next operation and calls the
executor; the executor finds or opens the core of the destination; the core
reserves a name, stages, publishes, and deletes the source, each namespace
change a request through the client's queue to the helper process, each decision
a journal record; the result goes back through `mapResult` into the coordinator's
ledger, the evidence manifest and the terminal event. A signal can abort at any
await. The process, the helper or the machine can stop at any point, and the next
open of the core reads the journal and looks at the disk to finish or undo what
it finds.

### What is hard

* **Crash recovery.** Every step of a move leaves a different residue; recovery
  decides from journal and disk, may itself be interrupted, and runs again.
* **Answers that are lost.** An abort ends the helper; a request in flight may or
  may not have been performed.
* **Interleavings.** Two operations of a job want one name; two processes want
  one destination; an orphaned helper works beside its successor; workers, a
  cancellation and the end of the job append to one chain of events.
* **Outside changes.** The user replaces the source or saves a file at the
  destination between a check and the use of what was checked.
* **Partial failure.** One of two sinks fails; the write of a record fails half
  way; a sync fails after the write.
* **Locks over dead owners.** Three lock files, each with its own way of telling a
  dead owner's file from a live one's, and each reclaimed in several system calls.
* **Shared children and gates.** Reads that are aborted leave a child with an
  answer nobody waits for; workers wait for a probe, a weight or each other.
* **Ends.** Shutdown waits for calls that wait for sinks that shutdown closes; a
  job whose terminal cannot be written must still end.

`PROJECT.json` lists these hazards one by one, at the line where each bites, with
the properties aimed at it. A few have none; each of those has a note.

### What makes each part correct

* Source deletion: the original's bytes leave the disk only when a delete was
  asked for and they were verified in quarantine; a file that took the source's
  place survives; answers are true; reconciliation ends.
* Transactions: until a verified, guarded object with the same content is durable
  the source stays; nothing at a destination is replaced; two operations never
  own one name; journal and result agree with the disk; recovery settles.
* Helper client: what a caller was told stays true; one request in flight; every
  call ends.
* Journal: an acknowledged record stays; only the tail is ever torn; sequence
  numbers rise.
* The three locks: one owner; a dead owner never blocks.
* History and evidence: what was acknowledged stays and can be read again; what a
  reader is told is what the file says; a broken chain is seen.
* Pools: an answer reaches the read it belongs to; nothing is admitted beyond the
  limit; nobody waits for ever.
* Executor and runtime: a core is used by those it is bound to and closed after
  them; an owner outlives its users; a quit ends the process.
* Coordinator: every event is legal when its turn comes; the terminal reports
  what was done; nothing changes after it; nothing starts after a cancellation;
  every job and every shutdown ends.

## 2. Modules

| Module | Models | Variables and actions against the code |
|---|---|---|
| `SourceDelete` | `delete_source_exact`, `reconcile_source_delete` (unix backend 322-742) for one delete id | `path`, `quar`, `receipt` are the three places on disk; one action per system call (`MakeQuarantine`, `RenameIntoQuarantine`, `VerifyEntry`, `CreateReceipt`, `WriteReceipt`, `UnlinkEntry`, `RemoveQuarantine`, and the observations `SeeSource`, `SeeReceipt`, `SeeQuarantine`, `Decide`, `RecheckEntry`); `Kill`, `TakeSource`, `ReplaceSource` are the environment |
| `SourceDeletePromise` | what that protocol promises to its callers | three variables: bytes, intent, answers |
| `StagedTransaction` | `TFC.execute` for copies and cross-device moves, duplicates, the catch block, `recoverInterruptedOperations`, `close` | `pc[o]` walks through `execute`; `op[o]` are its locals; `rec` is the folded journal; `alloc`, `counter`, `cache` the maps of the core; recovery is `Open`, `Recover...`, `Sweep` |
| `FastMove` | `executeSameFilesystemMove` with its late journal, the executor's `mapResult`, recovery of its records | same layout; `Journal` is an append of the record |
| `CoreLock` | `acquireCoreLock` .. `releaseCoreLock` (TFC 2681-2968) | one action per system call; the initial states are every residue a dead process can leave |
| `HelperClient` | the client's queue, aborts, loss and close (helper client 1886-2218, 2598-2686), with the helper's own loop (`main.rs`) | `queueTail`, `state`, `fatal`, `broken`, `closing` are the client's fields; `stdin`, `stdout`, `helper`, `done` the world |
| `TransactionJournal` | `TransactionJournal.ts`: append, repair, sequence file | `file`, `disk` (what survives a power loss), `stored`; `known`, `floor` are the handle's fields |
| `JournalLock` | `withFileLock` of `TransactionJournal.ts`: the lock file, its reclamation and the wait for a live holder | `lockFile`, `candidate`, `reclaim` are names on disk, `stage` the place in the function; a process comes back for several rounds |
| `JobHistoryStore` | the history file: append, reconciliation after a failed append, poisoning, replay and the closing of interrupted jobs | one action per await; a durable append followed by a failed look is a fault of its own (`MaxLookFailures`) |
| `HistoryLock` | its ownership lock: `acquireLock` under the reclaimer file, `publishLock`, `inspectLock`, quarantine, `releaseLock` | `named` maps the two paths to inodes, `alias` and `aside` are the other names of an inode; `at`, `task` the place in the code |
| `EvidenceManifest` | batches, hash chain, sticky failure, and the verifier | the file is a sequence of lines that may be torn, lost or damaged; a hash is the identity of the line before |
| `ExifToolPool` | `ExifToolStayOpenPool.ts` | reads, children, pipes and descriptors; ids of commands decide whose answer is read |
| `AdaptiveWorkPool` | `mapOrdered` | `post[w]` is where a worker waits; `probe`, the running weight and the settled call |
| `ExecutorCores` | `TransactionalOperationExecutor`: `execute`, the cache of core promises, `close()` | `cached`, `coreAt`, `target`; creation and closing may fail, helpers may be lost |
| `ApplicationLifecycle` | `ApplicationRuntime.create`, rollback and shutdown; `ElectronMain`'s startup, windows, activation, quit | `held` is the set of owners, `Acquisitions` and the cleanup order are the code's; `startup`, `quitting` the places in the functions |
| `JobStateMachine` | `JobStateMachine.ts`: which event is legal when | operators only |
| `ProcessingCoordinator` | `ProcessingCoordinator.ts` with history, evidence and shutdown as it meets them | one action per stretch between two awaits; `events` is the promise chain |
| `MCDurableFiles` | six file components in one run | `active` says which one a behaviour is about |
| `MCApplication` | six components without files in one run | the same |
| other `MC...` | model values and plans for TLC | |
| `...Proofs`, `SumLemmas` | theorems: `DurableFileProofs` is about the journal, the evidence and the history, `LockProofs` about the three locks, `ExecutorAndClientProofs` about `FastMove`, `ExecutorCores` and `HelperClient`, `ApplicationProofs` about the pools and the lifecycle, the others about the module they are named after | section 5 |

How they fit together:

* `SourceDelete` is used twice: it is checked and proved in full detail against
  `SourceDeletePromise`, and `StagedTransaction` takes the promise as its `Delete`
  step.
* `StagedTransaction` and `FastMove` take a journal append as atomic.
  `TransactionJournal` shows that an acknowledged append is, assuming that one
  process at a time is inside the lock; `JournalLock` shows that for two
  processes.
* `JobStateMachine` is the reducer of the live machine and of the history in
  `ProcessingCoordinator`, and of the replay in `JobHistoryStore`.
* `ExecutorCores` treats a core as an object that holds a destination; what
  happens in the core is `StagedTransaction` and `FastMove`, what it holds is
  `CoreLock`. `ApplicationLifecycle` does the same one level higher: an owner is
  an object, its shutdown is the business of the module about it.

`MCDurableFiles` and `MCApplication` put components side by side that share no
state: a behaviour starts by choosing one (`active`), and the others keep their
initial state. This is not a composition in which they interact. It lets one run
ask the same question (do the locks exclude, does every call end) of all of them;
the price is no product of state spaces. Each component keeps a specification of
its own, and the proofs are about that.

Conventions. A definition called `Mutant` in its comment is not part of any
specification: it is the form a plausible bug would give to the action after it,
kept so that each property can be seen to fail. Digests, names and payloads are
model values or small numbers; identities are the pair of creating operation and
staging name with a link count, because the helper compares link counts.

### What the models leave out of the parts they cover

* `StagedTransaction`: `plan()`, which changes nothing; directory creation;
  permission and timestamp copying. Any step of `execute` may fail, its journal
  appends among them, which leads to the catch block; the append of the catch block
  itself may fail too, with or without its line in the file (`CatchRecord`), and
  then becomes residue of the result.
* `FastMove`: the EXDEV fallback, which enters the staged path. The sync of the
  directory after the rename, the check of the destination and the record of the
  failure may fail.
* `HelperClient`: opening (package trust, launch lease, hello, bind_roots). A broken
  pipe has its grace period (`Break`), any other error of the process or its streams
  ends the client at once (`Fail`). `MarkFatal` settles a close that waits for the
  exit; in the code a protocol failure leaves that to close's own timer, but nothing
  the modelled helper writes after its answer to close could be one.
* `TransactionJournal`: non-durable mode.
* `JournalLock`: the delay between two looks at a live holder's lock is a
  process that has not taken its step yet.
* `ExifToolPool`: parsing of the answers. The model is of Linux, where the child is
  given the number of an open descriptor; on other platforms the command has the
  path instead, and the part about descriptors says nothing.
* `AdaptiveWorkPool`: the arithmetic of the CPU sampler, a choice of below or above.
  A call may be given a weight limit or not (`gated`). The planner gives none
  (`MediaPreviewPlanner.ts` 609 passes undefined), so the limit is code that only
  its tests call today.
* `ExecutorCores`: payload parsing and root binding are one step that may refuse.
* `ProcessingCoordinator`: the planner's progress events and stage progress,
  which change no decision. The executor is taken to report truthfully; where it
  does not is the finding of `fast_abort`. The entries it settles are taken to pass the
  evidence adapter's checks of form (`CoordinatorEvidenceAdapter.ts` 1534-1561,
  1602), which refuse an entry before anything is written and leave the manifest
  open; a failing write leaves it failed, as modelled. An event's number is always the one
  after the machine's last: contexts hand over their counter only when the chain
  is idle, so the chain is one.

## 3. Runs

| Run | Question | Instance |
|---|---|---|
| `source_delete` | Do overlapping helpers, kills and a user at the source path break conservation, and does reconciliation end? | 2 helpers, 2 kills, orphans allowed; 89 thousand states |
| `staged_jobs` | Are sources, destinations, journal and results consistent for two operations wanting one name, with any two troubles? | three kinds of plan, names 0 to 2; 780 thousand states with the exchange of operations as symmetry |
| `staged_progress` | Does every call return, and every recovery end? | two moves of identical files, one crash, aborts |
| `coordinator` | Legal events, truthful terminals, quiet rest, every job and shutdown ends? | 2 operations, 2 workers, 2 overlapping starts, one failing sink write, one death; 439 thousand states |
| `durable_files` | Does what was acknowledged stay, does one live process hold each lock, does every call end? | six file components, each under its own troubles; 426 thousand states |
| `application` | Do calls to the helper, moves, metadata reads, the work pool, the cache of cores and the life of the process keep their promises and end? | six components; 631 thousand states |
| `staged_stale_marker`, `staged_lost_destination`, `fast_abort`, `core_lock_three`, `history_crash`, `history_look` | Statements of a comment, a test or a document that the code does not keep (section 6) | the smallest instance that shows it |

### Bounds and why they are enough

* **Two actors.** The races looked for are between a holder and a contender: two
  operations for a name, two helpers at a source, two handles on a journal, two
  processes at a lock, two workers at a plan. `core_lock_three` exists because one
  race needs three.
* **MaxName** gives one name more than the operations and the outside program can
  occupy. In `staged_jobs` it is 2: with at most one foreign file and two
  operations, name 2 is the last that can be reached without a second foreign file.
* **MaxCrashes, MaxFaults, MaxMeddles, MaxTroubles** of the transactions: troubles
  of each kind, and all together. Two together cover a crash during the recovery
  from a crash, a lost helper followed by a crash, and an outside change beside
  either. A fault is a lost helper or a failing record, whichever the step has. A
  cancellation counts as a trouble of its session: in `staged_jobs` one
  cancellation meets one other trouble, or both operations are cancelled. In
  `application` the same names bound `FastMove`: two moves, one crash, one fault.
* **MaxKills** 2 in `source_delete`: the deleting helper and the first reconciling
  one may both die.
* **MaxAppends** 3, **MaxTroubles** 2 of the journal in `durable_files`: a torn
  record, its repair by the peer, and a third record of another size behind it,
  which is the shortest story in which a remembered size could be equal by
  accident.
* **MaxDeaths**, **MaxUserDeaths**, **MaxStoreDeaths** 1 of the three locks: the
  initial states already hold what an earlier death left behind. **MaxRounds** 2 of
  the journal's lock: a process that has had it comes back while the other waits.
* **MaxBatches** 2, **MaxVerifies** 1, **MaxDamage** 1 of the evidence: a batch
  behind one that failed, one verification beside them, one line that was altered
  or removed.
* **MaxHistorySequence** 3, **MaxHistoryTroubles** 2 for two jobs of the history:
  events of two jobs between one another, two failures or restarts. A job's first
  two records are part of its creation, so this leaves one live event each, with
  the closing of an interrupted job behind it; the theorems have no such bound.
  **MaxLookFailures** is 0 here and 1 in `history_look`, because the failed look is
  what breaks the property.
* **Reads** 2, **Kids** 2, **PoolSize** 2 for ExifTool: both reads can meet the same
  child one after the other, or wait behind a failed one.
* **LaborerCount** 3, **ItemCount** 4, **Weights** 1, 2, 2, 3 under **MaxWeight** 3:
  light files together, heavy ones alone, a waiter that two others must make room
  for; and the same call without a limit.
* **MaxWindows** 2: a window that is closed and made again by an activation.
* **Orders** 3, **Destinations** 2, **SourceSets** 2, **Cores** 2: two operations for
  one destination, with equal or different roots, and a third elsewhere or again.
  What the first operation names is fixed, because the names are interchangeable.
* `HelperClient` needs no bound: a helper dies once and a call is made once.

### Fairness

Only continuations are fair: the event loop runs what is ready, a helper answers
a request it has read or dies, timers fire, and a process told to terminate does.
Nobody is forced to call, cancel, close, crash, fail or meddle.

* `HelperClient`: each continuation of the client and each step of the helper on its
  own. It is thereby assumed that a helper does not hang in a system call for
  ever: the code has no time limit per request, and with such a helper its calls
  do not end.
* `StagedTransaction`: per operation; taking the allocation lock is fair because
  the code queues for it in order.
* `TransactionJournal`: each handle's next step (`Step(w)`); `EvidenceManifest`: the
  writer (`Writing`). The lock modules have no fairness: what they promise is
  safety and, in `DeadNeverBlock` and `DeadAreReclaimed`, why a call gives up.
* `ExifToolPool`: `Moves`, which are the loop of `drain`, an open that returns, the
  time limits of an exchange and of a stop, and the continuation behind a stop, all
  of them steps of one event loop. No step of a child is among them: it need
  neither answer nor exit. `AdaptiveWorkPool`: each worker, the probe and the
  settling of the call. `ApplicationLifecycle` (`LifeMoves`) and `ExecutorCores`
  (`ExecutorMoves`): the continuations after an await, of which at least one moves;
  neither has a loop in which one continuation could starve another.
* `ProcessingCoordinator`: each continuation, each worker and each call.

Deadlock is checked in `source_delete`. The other systems really stop (a job
that is over, a client that is closed, a spent bound), and say so in their cfg.

## 4. What each check shows

* `source_delete`. `IInv`: the inductive invariant of section 5, the conservation
  of the original among its parts. `ReplacementPreserved`: a file that took the
  source's place is never unlinked. `VerdictsTruthful`: `deleted` and
  `source-retained` are so on disk; its part about `source-retained` holds without
  orphans only, the run allows orphans, so that part rests on the proof, which
  covers both values of `Orphans`. `PromiseKept`: each system call is a step of
  `SourceDeletePromise` or a stutter. `Converges`: after the request some helper
  ends with a definite answer, unless the state is one a person has to look at
  (a torn receipt, somebody's file in the quarantine, a source the user took).
* `staged_jobs`. `ReservationInv`: types, and a call that relies on a reservation
  still has its marker. `Conservation`: an original is set aside or deleted only
  when its content is a durable object and the journal says so.
  `AccountsTruthful`: what a record or a result says of source and destination is
  so, and a result that tells of no residue and no unknown outcome says what the
  journal says, even when the record of a failure fails itself. `NoClobber`: no step replaces what is at a name. `TerminalIsStable`: no later
  run revises an ended record. `RecoverySettles`: an open that nobody disturbs
  leaves each record terminal, or its destination published and its flags true.
  `staged_progress`. `CallsReturn`: calls and recoveries end.
* `coordinator`. `EventsInv`: types, and no event is refused when its turn comes.
  `TerminalTellsTheTruth`, `EvidenceIsComplete`: the durable terminal and the closed
  manifest report what was done. `RestIsQuiet`: after a shutdown nothing runs, and
  after a restart no earlier job is still under way. `NothingAfterTheEnd`: once the
  terminal is on its way no file of the job changes, and no operation begins after
  a cancellation. `TerminalIsForever`: no restart revises a terminal. `DriftNeverRuns`: a
  plan the disk has drifted from is never executed. `WorkEnds`: every accepted job
  ends, without its terminal only when a sink has failed, and every shutdown ends.
* `durable_files`. `JournalHolds`: only the last line of the journal is ever torn, a
  file of the size a handle remembers has a whole tail, acknowledged records stay
  and sequence numbers rise, across handles, deaths and power losses;
  `RepairKeepsRecords`: a repair removes nothing but a torn tail. `LocksExclude`: one
  live process at most holds the core lock, the journal's lock and the history's.
  `DeadNeverKeepLocks`: what a dead process left of a core or journal lock never
  makes the first one that comes give up; the history's lock breaks this, which is
  the finding `history_crash`. `EvidenceHolds`: acknowledged events stay in one
  chain, and a manifest found valid and closed is all of them. `HistoryReplays`: the
  next start can load the file. `HistoryIsTold`: what was acknowledged is in it, and
  readers are told what it says. `FilesSettle`: every journal call and evidence
  append is answered.
* `application`. `IInv` of `HelperClient`: types, one request in flight
  (`OneInFlight`), an `applied` request has taken effect and a `not-applied` one never
  does (`OutcomesTruthful`), and what ties the pipes to the client (`WireInv`).
  `CloseIsLast`: after close nothing waits and nothing can be performed.
  `LostIsQuiet`: after the loss only a request whose caller was told `unknown` can
  take effect. `AnswersWin`: an answer in the pipe is not lost to the helper's death,
  its exit or a broken pipe within its grace period; an abort, or an error that is
  not a broken pipe, does come before it. `MoveArrives`: a file moved by rename is in exactly one
  place, and a record or report that says it arrived names where. `NothingReplaced`: no
  move replaces a file, and no recovery revises a record that had ended.
  `PoolsHold`: an ExifTool answer reaches its own read and no child with an answer
  due is used again; the work pool keeps its weight limit and its one probe.
  `NothingStartsAfterFailure`: after a failure or an abort no weight is granted and
  no task starts, except one whose weight was granted just before: behind the
  await of the grant nothing looks at the abort again (`AdaptiveWorkPool.ts` 249).
  Without a weight limit none starts at all.
  `CoresHold`: one core per destination, an operation runs on an open core bound to
  its own roots, close() that resolves leaves none. `OwnersOutliveUsers`: rollback and
  shutdown settle no owner before those that use it, and an exit leaves none.
  `WindowsNeedRuntime`: a window is made only for a complete runtime and never once a
  quit has begun. `EverythingSettles`: every request, read, wait, operation,
  close() and quit comes to its end.

## 5. Proofs

Eight modules hold theorems. The properties they state are also checked by a run,
alone or as a part of a property named in section 4. None of these properties is
inductive as it stands; what is proved is an invariant that implies it, which TLC
was asked about before each proof.

`SourceDeleteProofs` proves, for any set of helpers, any number of kills, with or
without orphans:

* `Inductive`: `Spec => []IInv`, and from it `TypeCorrect`,
  `OriginalIsConserved`, `ReplacementIsPreserved`, `VerdictsAreTruthful`;
* `KeepsPromise`: `Spec => PromiseKept`, the refinement of `SourceDeletePromise`.

The argument. Nothing in "the original is conserved" says why the helper that is
about to unlink the quarantined entry may do so. `IInv` adds four parts. `PlaceInv`
relates the three places: once a receipt exists the original is not at its path
and no replacement is in quarantine. `ActorInv` says that one helper at most
deletes and one at most writes the receipt, and that nothing has happened before
the request. `ProgressInv` says what a helper may rely on at each system call (at
the unlink the receipt is exact; at the receipt's creation the quarantine holds
the original, or another helper was first). `ObservationInv` says which
observations of a reconciling helper cannot go stale, in the order in which they
are made: this is what makes the order source, receipt, quarantine the right one.
There is one lemma per action; the theorem combines them with PTL. The refinement
has one lemma for answers and one for steps, and uses `IInv` where a step erases
bytes.

`StagedTransactionProofs` proves, for any operations, plans, names, numbers of
crashes, faults and outside changes: `OriginalsAreConserved` (`Conservation`),
`EndedRecordsStay` (`TerminalIsStable`), `NothingIsReplaced` (`NoClobber`),
`AccountsAreTruthful` (`AccountsTruthful`), `ReservationsHold` (`ReservationInv`)
and `RecoveryAlwaysSettles` (`RecoverySettles`).

* `StagedInv` is a part about types (`Shape`) and one conjunct per operation
  (`OpInv(o)`): at each point of `execute` and of recovery, where its source is,
  what its record says by then, and from which point on its bytes are secured
  (`Secured(o)`: they are a conservation object, and the record is committed and
  names the destination). Operations share only the objects, to which nobody does
  anything but add, and the cache, so lemma `OneAtATime` reduces a step of one
  operation to its own conjunct; then there is one lemma per stage of `execute`
  (`Admitting`, `Preparing`, `Committing`, `Removing`, `Duplicating`, `Catching`),
  one for recovery and one for what interrupts. That ended records stay follows
  from `OpInv`: a call that may still write is at a point at which its record has
  not ended.
* `AccountInv` adds what a call may rely on of its result, its record and its marker:
  a call that ends has its record written, or says that something is left open. A call
  that has written its marker still has it, because others write only at names
  that have none, and recovery, which removes markers, runs only when no call
  does.
* `Typed` and `Callable` add the full shape of every variable. That no link count
  leaves its range needs a budget: what a call remembers was counted when the
  names of its file were counted, and there are no more names than `MaxName` and
  the two of the staging directory.
* `SettleInv` is about runs in which nobody outside interferes (`RecoverySettles`
  says nothing of the others), and follows an operation from its first record to the
  end of a recovery. A record in doubt has its destination, its staged file is gone
  or is what the record remembers, to the number of links the helper will count
  (two for a published file, one for a guard: lemma `LinksCounted`), and its marker
  is the one it names. A crash keeps all this, since it is about the disk and the
  records, so what recovery asks the helper to remove matches, and the only thing
  that can stand in its way is a marker another operation has put at the same name
  since. An operation disturbs another only by linking its own file at a free name,
  by its own markers and by adding to the records (`OthersInOrder`).

`ExecutorAndClientProofs` proves of `HelperClient`, for any set of calls: `Inductive` (`Spec => []IInv`),
`OutcomesAreTruthful`, `OneRequestInFlight` and `LossIsQuiet`. A caller may be told
something while its request is still in a pipe or in the helper. `WireInv` says
what such a request may be: it was admitted and not performed before it is read,
its answer agrees with what was done, and once the client is lost whoever waits
for it was told `unknown`. Steps of the client leave pipes and helper alone (lemma
`ClientStep`), the helper's steps leave the client alone (`HelperStep`); `Run` and
`Accept`, which touch both, use that one of the pipes and the helper holds a
request at most (`OneHolds`). A second invariant adds `CloseComesLast`
(`CloseIsLast`) and `AnswersAreHeard` (`AnswersWin`), which need the order of the
queue (`OrderInv`: whoever waits is in it, close behind everybody, and nothing is
on its way once close has passed) and what an end that the client has seen says
of the helper (`EndInv`). `AnswersAreHeard` names the three ways in which an answer
may come too late; that the third happens once, and only with the loss of the
client, is `ErrorInv`.

The same module is about the executor. About `FastMove`: `MovesArrive` (`MoveArrives`) and
`MovesReplaceNothing` (`NothingReplaced`), from types, `PlaceInv` (where a file is),
`CallInv` (what a call that has come so far may rely on), `RecordInv` (what its
record says by then) and `PromiseInv` (what a record or a report promises). About
`ExecutorCores`: `CoresAreHeld` (`CoresHold`): a core is in the cache from its
creation until the end unless its creation failed (`CacheInv`), whoever waits for a
core or runs on it finds it there (`CoreOrderInv`), and close() waits for them
(`CoreCloseInv`).

`ProcessingCoordinatorProofs` proves all the safety that the run `coordinator`
checks, for any plan of at least one operation, any workers (at least one) and
calls, any faults and crashes: `CoordinatorEvents` (`EventsInv`),
`CoordinatorTellsTheTruth` (`TerminalTellsTheTruth`), `CoordinatorEvidence`
(`EvidenceIsComplete`), `CoordinatorRests` (`RestIsQuiet`),
`CoordinatorTerminalIsForever`, `CoordinatorNothingAfterTheEnd` and
`CoordinatorDriftNeverRuns`. An event is published long before it is delivered, and
what publishers, reducer, history and manifest each believe must agree when its
turn comes. `ChainInv` says of every event that waits who waits for it and why it
will be legal; it rests on the order of the chain (`Ordered`: an actor has one
event in it at most, nobody but the run publishes behind a cancellation, nobody
behind the terminal). `HistoryInv` says how far the durable history is behind or
ahead of the machine, `TakenInv` that the ledger says what was done to the files,
`EvidenceInv` that the manifest has what was settled. A delivery is the head leaving
the chain (lemma `HeadLeaves`) and what its awaiter does next.

`ApplicationProofs` proves of the pools `ApplicationPoolsHold` (`PoolsHold`) and
`ApplicationStartsNothing` (`NothingStartsAfterFailure`), with any pool and work as
parts of `MCApplication`, and of `ApplicationLifecycle`
`WindowsHaveTheirRuntime` (`WindowsNeedRuntime`) and `OwnersAlwaysOutliveUsers`
(`OwnersOutliveUsers`).

* The work pool. The running weight is the sum over the workers that run or are about
  to (`CountInv`), so it falls by what an ending worker brought; as long as nothing
  has stopped the call every value taken is reported or with a worker (`TakenInv`),
  so a call that resolves has reported them all.
* The ExifTool pool. A read, the child that serves it and the command on its pipe
  name each other, and a child at rest has nothing due in its pipes, so that the
  next answer it gives is to the next command it is given.
* The lifecycle. A runtime, once built, keeps every owner until the shutdown walks
  them. What a walk has before it is what is still held, and it takes users before
  what they use, because the cleanups were pushed in the order of acquisition and
  are walked from the last: wherever the acquisition stopped, what is held is
  closed under use (`OwnersInv`).

`DurableFileProofs` is about three of the files, for any number of calls, troubles
and ends of the process.

* The journal: `JournalAlwaysHolds` (`JournalHolds`), `NumbersAlwaysRise` (its part
  `SequencesRise`), `RepairsKeepRecords` (`RepairKeepsRecords`). A number is safe in
  the sequence file before a record bears it (`RiseInv`), so no number in the
  journal, or in what a power loss would leave of it, is above the safe one, and
  the next one is above them all. That a file of the remembered size may be written
  behind unread compares sizes (`JournalInv`): what is torn comes on top of a size
  that no repair undercuts and that is at least what any handle remembers, so a
  file of a remembered size has nothing torn behind it.
* The evidence: `EvidenceAlwaysHolds` (`EvidenceHolds`). Its events have their
  places in one story: those acknowledged, then those of the batch begun last.
  Nothing is begun after a batch that failed, so every line that ever comes to
  the file, torn, lost or damaged as it may be, is of the story and at the place
  its number says; a chain counted from 1 is therefore a beginning of the story,
  and one that ends in the close is all of it.
* The history: `HistoryAlwaysReplays` (`HistoryReplays`) and `HistoryIsAlwaysTold`
  (`HistoryIsTold`), under the hypothesis `MaxLookFailures = 0`, which is needed: the
  run `history_look` shows what one failed look does. A record is written only when
  the replay of the file as it is accepts it; the memory is that replay, but for
  the record on its way; and a record that was applied is refused the second time,
  which is how a reconciliation knows by the last line whether it was written
  (`HistoryInv`).

`LockProofs` is about the three locks: two theorems for any number of processes and
deaths, and one for two processes, which is as far as exclusion goes.

* The history's lock: `HistoryHasOneOwner` (`OneHistoryOwner`, a part of
  `LocksExclude`), under the hypothesis that the reclaimer path never names the file
  of a dead process. A process has the reclaimer from its link to its own rename of
  it, since nobody takes a live one's away; so what it finds at the lock path stays
  there until it acts on it, a displaced reclaimer is never seen again by one that
  remembers it, and a live owner's lock stays (`HistoryLockInv`). Without the
  hypothesis the theorem is false (section 6).
* The core's and the journal's lock: `DeadNeverKeepTheLocks` (`DeadNeverKeepLocks`).
  The invariants `CoreInv` and `UserInv` say, for each process, where it is and what
  each name of a lock file names as long as no other process has started: only what
  the dead one left and what it wrote itself. A step of another process makes that
  statement empty, so there is one lemma per system call. The counts of links that
  the code compares are taken from the names (`CoreInodes`, `OnlyName`).
* All three, for two processes and any number of deaths and rounds:
  `TwoExcludeEachOther` (`LocksExclude`), from `TwoCoresExclude`, `TwoUsersExclude`
  and `TwoStoresExclude`. The hypothesis `AtMostTwo` is needed: with three processes
  it is false (`core_lock_three`). A process that reclaims may rename aside a live
  lock, having judged an earlier file at that path. The invariants (`CorePairInv`,
  `UserPairInv`, `HistoryPairInv`) say what then holds: a live owner's lock is at its
  path, or the other process displaced it and stands where it did that, to put it
  back or to be refused. Of two processes that leaves the owner alone. What lets a
  process judge wrongly is bounded by what the dead one left: the history's dead
  reclaimer, for one, is at its path only while neither has published its own
  (`RacePair`). For the history it is the reclaimer that may be displaced so, never
  the lock under it (`KeepsPair`). No process is assumed to stay alive; dying only
  takes obligations away.

`SumLemmas` has what the others need of sums: the sum over a finite set is that of
the rest and of any one of its elements, whatever order the fold takes. Induction
over a number is done on the set of the numbers for which a fact holds
(`EveryNumber`: it has 0 and with each number the next), since the prover cannot
instantiate the library's induction theorems. In the same way the proofs about the
sizes of the journal and the replays of the history walk along a file by the
number of lines read.

Assumptions: only the named ones in the modules, which say that distinguished
values are not members of the sets they stand beside and that bounds are natural
numbers, that a plan has a form the planner makes and at least one operation, and
that the coordinator has a worker.

Outside the prover's reach, and checked by TLC only: liveness under fairness
(`Converges`, `CallsReturn`, `WorkEnds`, `FilesSettle`, `EverythingSettles`)
and anything with ENABLED.

Every invariant and every other action property that a passing run checks is
stated by a theorem. `LocksExclude` is the one whose theorem is for two processes
only. It fails with three for the core's lock (`core_lock_three`) and the
journal's, and with four for the history's (section 6), so none for every set of
processes can be stated; `HistoryHasOneOwner` is what is left without the bound.

## 6. Disagreements found while modelling

Each is a run with `expect: violation`; `PROJECT.json` quotes the statement.

1. `staged_stale_marker`: a failed record remembers the identity of a marker; a
   later marker at that path is swept under the stale identity, which the helper
   refuses, at this open and every later one.
2. `staged_lost_destination`: the restoration of a destination that vanished
   after the source was unlinked passes an identity with two links; the guard has
   one, so the real helper refuses what the test's client accepts.
3. `fast_abort`: an abort during the rename is reported as cancelled before
   commit with the source retained, although the file may have moved.
4. `core_lock_three`: a reclaimer can displace a fresh live lock, and a third
   opener publishes its own meanwhile.
5. `history_crash`: a process that dies between the link of its lock and the unlink of
   the candidate leaves a lock with two names, which every later start refuses.
   The core's and the journal's lock repair theirs.
6. `history_look`: an append that is durable is followed by one more look at the file;
   if that look fails the caller is refused, the store goes on, and the sequence
   number is used again. The next start refuses the file.

Seen, and not made into runs:

* The fast path renames before it writes a record. A crash in between leaves the
  file at its destination without a record: nothing is lost (`MoveArrives`),
  but the job's report knows nothing of it, although the comment there (TFC
  973-976) calls such a crash a no-op.
* A staging file of an operation that died between its copy, or its link, and the
  record of it stays behind.
* The journal's lock has the race of the fourth finding: with three processes
  `OneInside` fails the same way. The history's lock, whose reclaimers exclude each
  other by a file of their own, does not: `OneHistoryOwner` holds with three, and
  for any number while no dead process's reclaimer is in place. But the reclaimer is
  itself removed when its owner is dead, by a rename after the last look
  (`quarantineOwnedLock`). With a dead reclaimer and a dead lock to begin with,
  and four live processes, a schedule of about fifty system calls ends with two
  owners: p and q both find the reclaimer dead; p removes it and publishes its own;
  q renames that aside, r publishes its own meanwhile, and q, whose look at the path
  came before that, renames p's back over it, so that p and r are both inside and
  both find the lock dead. p takes it over, publishes and leaves; s takes the
  reclaimer; r renames p's lock aside, and s finds none and publishes its own. p is
  told at its next operation, by the loss of its identity. The proof attempt for
  `HistoryHasOneOwner` found it; a run of it would take four processes.
* After a lost helper the cached core fails every later operation on that
  destination until the application restarts (`ExecutorCores` has it: an operation
  on such a core fails, and `ExecutorSettles` says it does end).
* The executor's `close()` rejects when the first core fails to close, while the
  others are still closing (`Promise.all`).

## 7. Not modelled

* **The bundled Perl** (`src/native/perl`) is a stock Perl that ships with ExifTool.
  Its C headers are by far the largest body of source lines in the repository,
  and the program has no logic there. No module speaks of it, so any measure
  that counts those lines finds next to none of them covered; the modules cover
  about 6400 lines of the TypeScript and Rust code named in section 2.
* **The Windows backend of the helper** carries the same protocol with other system
  calls; the Unix one is modelled.
* **Opening a helper client** (package trust, launch lease, hello, bind_roots) and the
  **launch broker**: checks in a row that either pass or refuse.
* **IPC controllers**: request validation and forwarding; that they are registered
  and disposed in time is part of `ApplicationLifecycle`.
* **Planner, revalidator, inventory**: they compute names, digests and dates and keep
  nothing. `ProcessingCoordinator` takes their answers as choices.
* **Date resolution and metadata policies**: pure tables of weights and patterns, which
  a model would only repeat. **Metadata writing, the ExifTool adapter and its health
  probe**: one process per call and the parsing of its output.
* **Evidence adapter**: reopening the manifests of a former process, and its progress
  throttle.
* **Configuration, plan and override stores**: files replaced whole, by one writer.
* **AI review, review remediation, normalization audit**: driven by the user over a
  finished job. Of the audit, the executor's question whether a change is allowed is a
  step of `ExecutorCores` that may refuse.
* **Path policy, logger, renderer, scripts**: predicates, output, layout and offline
  tools.

## 8. Plan

Done: `SourceDelete` with its refinement, `StagedTransaction`, `FastMove`, `CoreLock`,
`ProcessingCoordinator`, `HelperClient`, `TransactionJournal` with `JournalLock`,
`JobHistoryStore` with `HistoryLock`, `EvidenceManifest`, `ExifToolPool`,
`AdaptiveWorkPool`, `ExecutorCores`, `ApplicationLifecycle`, and the proofs of
section 5.

Left, in this order:

* Review remediation and the stores, should they come to be used by more than one
  writer.
* Pure parts as operators checked against reference definitions: destination
  naming of the planner, ranking of `DateResolver`.
* The Windows backend's order of system calls against `SourceDeletePromise`.
* Proofs: `OneHistoryOwner` for three processes, which TLC finds to hold; the invariant
  would have to follow a displaced reclaimer past a third process.
