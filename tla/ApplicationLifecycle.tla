----------------------- MODULE ApplicationLifecycle -----------------------
(***************************************************************************)
(* Start and end of the main process: runtime/ElectronMain.ts decides when *)
(* the runtime is built, when a window may exist and when the process may  *)
(* exit; runtime/ApplicationRuntime.ts acquires the owners of files, locks *)
(* and processes one after the other and settles them in a fixed order,    *)
(* both when a later acquisition fails and when the application quits.     *)
(*                                                                         *)
(* Electron's events (quit, activate, window closed) may come between any  *)
(* two steps of the startup.  Closing an owner may fail; it counts as      *)
(* settled then, because nobody calls it again.                            *)
(***************************************************************************)
EXTENDS Naturals, Sequences

CONSTANTS Darwin,      \* TRUE: the application outlives its last window
          MaxWindows   \* bound: windows created in one life of the process

ASSUME LifecycleAssumption == /\ Darwin \in BOOLEAN
                              /\ MaxWindows \in Nat \ {0}

(* The owners in the order ApplicationRuntime.create acquires them. *)
Acquisitions == <<"config", "history", "evidence", "audit", "metadata",
                  "transaction", "overrides", "coordinator", "ipc">>
Owners == {Acquisitions[i] : i \in 1..Len(Acquisitions)}

(* The order each owner's cleanup step is registered with. *)
CleanupOrder == [config |-> 70, history |-> 60, evidence |-> 40, audit |-> 35,
                 metadata |-> 50, transaction |-> 30, overrides |-> 32,
                 coordinator |-> 20, ipc |-> 10]

(* What each owner was handed at its construction and goes on using. *)
Uses == [o \in Owners |->
           CASE o = "transaction" -> {"audit"}
             [] o = "coordinator" -> {"config", "history", "evidence", "metadata", "transaction"}
             [] o = "ipc"         -> {"config", "history", "audit", "metadata", "overrides",
                                      "coordinator"}
             [] OTHER             -> {}]

VARIABLES startup,   \* where ElectronMain.initialize stands
          acquiring, \* runtimeAcquisitionPromise: "none", "pending", "runtime", "rejected"
          acquired,  \* how many of Acquisitions the build has made
          held,      \* the owners made and not settled yet
          cleanup,   \* the steps that runCleanup has not walked yet
          quitting,  \* quitShutdownPromise, by the step it is at
          window,    \* a live mainWindow
          loads,     \* window loads not settled yet
          windows,   \* windows created so far
          coreIpc    \* the window handlers: "none", "registered", "disposed"

lifeVars == <<startup, acquiring, acquired, held, cleanup, quitting, window, loads,
              windows, coreIpc>>

LifeTypeOK ==
  /\ startup \in {"boot", "building", "rollingBack", "built", "loading", "done"}
  /\ acquiring \in {"none", "pending", "runtime", "rejected"}
  /\ acquired \in 0..Len(Acquisitions)
  /\ held \subseteq Owners
  /\ cleanup \subseteq Owners
  /\ quitting \in {"no", "awaiting", "disposing", "closing", "logging", "allowed", "exited"}
  /\ window \in BOOLEAN
  /\ loads \in 0..MaxWindows /\ windows \in 0..MaxWindows
  /\ coreIpc \in {"none", "registered", "disposed"}

shutdownRequested == quitting # "no"

(***************************************************************************)
(* runCleanup: the steps sorted by their order, each awaited, a failure    *)
(* collected and the walk continued.  No two steps have the same order, so *)
(* that the sorted list is walked by taking the least of what is left.     *)
(***************************************************************************)
(* Mutant: the steps in the order they were pushed. *)
FirstPushed(steps) ==
  CHOOSE o \in steps : \E i \in 1..Len(Acquisitions) :
    Acquisitions[i] = o /\ \A j \in 1..i - 1 : Acquisitions[j] \notin steps

NextStep(steps) == CHOOSE o \in steps : \A p \in steps : CleanupOrder[o] <= CleanupOrder[p]

(* Mutant: the walk ends at the first failure. *)
StopAtFailure(fails) ==
  /\ held' = held \ {NextStep(cleanup)}
  /\ cleanup' = IF fails THEN {} ELSE cleanup \ {NextStep(cleanup)}

(* The owner is settled whether its close resolves or rejects. *)
SettleNext(fails) ==
  /\ held' = held \ {NextStep(cleanup)}
  /\ cleanup' = cleanup \ {NextStep(cleanup)}

CloseNext ==
  /\ cleanup # {}
  /\ \E fails \in BOOLEAN : SettleNext(fails)
  /\ UNCHANGED <<startup, acquiring, acquired, quitting, window, loads, windows, coreIpc>>

(* beginQuitShutdown: the first call starts the sequence, later ones share it. *)
BeginQuit == quitting' = IF quitting = "no" THEN "awaiting" ELSE quitting

-----------------------------------------------------------------------------
(***************************************************************************)
(* Startup: start, initialize and ApplicationRuntime.create.               *)
(***************************************************************************)

(* whenReady: a quit that was asked for first leaves nothing to build. *)
Ready ==
  /\ startup = "boot" /\ ~ (quitting = "exited")
  /\ IF shutdownRequested
       THEN /\ startup' = "done"
            /\ UNCHANGED acquiring
       ELSE /\ startup' = "building"
            /\ acquiring' = "pending"
  /\ UNCHANGED <<acquired, held, cleanup, quitting, window, loads, windows, coreIpc>>

AcquireNext ==
  /\ startup = "building" /\ acquired < Len(Acquisitions)
  /\ acquired' = acquired + 1
  /\ held' = held \cup {Acquisitions[acquired + 1]}
  /\ UNCHANGED <<startup, acquiring, cleanup, quitting, window, loads, windows, coreIpc>>

(* A factory, the runtime verification or the IPC registration rejects: *)
(* what has been acquired is rolled back before create rejects.         *)
BuildFails ==
  /\ startup = "building"
  /\ startup' = "rollingBack"
  /\ cleanup' = held
  /\ UNCHANGED <<acquiring, acquired, held, quitting, window, loads, windows, coreIpc>>

RolledBack ==
  /\ startup = "rollingBack" /\ cleanup = {}
  /\ startup' = "done"
  /\ acquiring' = "rejected"
  /\ BeginQuit
  /\ UNCHANGED <<acquired, held, cleanup, window, loads, windows, coreIpc>>

BuildEnds ==
  /\ startup = "building" /\ acquired = Len(Acquisitions)
  /\ startup' = "built"
  /\ acquiring' = "runtime"
  /\ UNCHANGED <<acquired, held, cleanup, quitting, window, loads, windows, coreIpc>>

(* createWindow up to its load; the window's handlers are registered once. *)
CreateWindow ==
  /\ windows < MaxWindows
  /\ window' = TRUE
  /\ windows' = windows + 1
  /\ loads' = loads + 1
  /\ coreIpc' = IF coreIpc = "none" THEN "registered" ELSE coreIpc

(* It throws before there is a window, or after: its handlers are not made *)
(* or not registered, or the address to load is refused.  Both callers     *)
(* turn that into a quit.                                                  *)
WindowFails ==
  /\ BeginQuit /\ UNCHANGED loads
  /\ \/ UNCHANGED <<window, windows, coreIpc>>
     \/ /\ windows < MaxWindows
        /\ window' = TRUE /\ windows' = windows + 1
        /\ coreIpc' \in {coreIpc} \cup (IF coreIpc = "none" THEN {"registered"} ELSE {})

ShowWindow == (CreateWindow /\ UNCHANGED quitting) \/ WindowFails

(* Mutant: the window is made although a quit has begun. *)
ShowAlways ==
  /\ startup = "built"
  /\ startup' = "done"
  /\ CreateWindow
  /\ UNCHANGED <<acquiring, acquired, held, cleanup, quitting>>

(* initialize, after the runtime: no window once a quit has begun. *)
ShowFirst ==
  /\ startup = "built"
  /\ startup' = "done"
  /\ IF shutdownRequested THEN UNCHANGED <<window, loads, windows, coreIpc, quitting>>
                          ELSE ShowWindow
  /\ UNCHANGED <<acquiring, acquired, held, cleanup>>

-----------------------------------------------------------------------------
(***************************************************************************)
(* Electron's events.                                                      *)
(***************************************************************************)

(* loadFile or loadURL settles; a rejection quits the application. *)
LoadSettles ==
  /\ loads > 0 /\ quitting # "exited"
  /\ loads' = loads - 1
  /\ BeginQuit \/ UNCHANGED quitting
  /\ UNCHANGED <<startup, acquiring, acquired, held, cleanup, window, windows, coreIpc>>

(* A window is closed by its user; only macOS keeps the application then. *)
WindowClosed ==
  /\ window
  /\ window' = FALSE
  /\ IF Darwin THEN UNCHANGED quitting ELSE BeginQuit
  /\ UNCHANGED <<startup, acquiring, acquired, held, cleanup, loads, windows, coreIpc>>

(* The Dock icon: createWindow throws while there is no runtime yet, and *)
(* the handler turns that into a quit.                                   *)
Activate ==
  /\ Darwin /\ ~shutdownRequested /\ ~window
  /\ IF acquiring = "runtime"
       THEN ShowWindow
       ELSE BeginQuit /\ UNCHANGED <<window, loads, windows, coreIpc>>
  /\ UNCHANGED <<startup, acquiring, acquired, held, cleanup>>

(* before-quit: held back until allowQuit, and turned into a shutdown. *)
QuitRequested ==
  /\ quitting = "no"
  /\ BeginQuit
  /\ UNCHANGED <<startup, acquiring, acquired, held, cleanup, window, loads, windows, coreIpc>>

-----------------------------------------------------------------------------
(***************************************************************************)
(* shutdownOnce and the end of beginQuitShutdown.                          *)
(***************************************************************************)
(* Mutant: the shutdown does not wait for the build in progress. *)
StartShutdown ==
  /\ quitting = "awaiting"
  /\ quitting' = "disposing"
  /\ UNCHANGED <<startup, acquiring, acquired, held, cleanup, window, loads, windows, coreIpc>>

(* Mutant: it waits for a runtime that a failed build never yields. *)
AwaitSuccess ==
  /\ quitting = "awaiting" /\ acquiring \in {"none", "runtime"}
  /\ quitting' = "disposing"
  /\ UNCHANGED <<startup, acquiring, acquired, held, cleanup, window, loads, windows, coreIpc>>

(* A build in progress is awaited, whatever its outcome. *)
AwaitAcquisition ==
  /\ quitting = "awaiting" /\ acquiring # "pending"
  /\ quitting' = "disposing"
  /\ UNCHANGED <<startup, acquiring, acquired, held, cleanup, window, loads, windows, coreIpc>>

(* The window handlers go (or fail to), then the runtime's owners are walked. *)
DisposeIpc ==
  /\ quitting = "disposing"
  /\ quitting' = "closing"
  /\ coreIpc' = IF coreIpc = "registered" THEN "disposed" ELSE coreIpc
  /\ cleanup' = IF acquiring = "runtime" THEN Owners ELSE {}
  /\ UNCHANGED <<startup, acquiring, acquired, held, window, loads, windows>>

RuntimeClosed ==
  /\ quitting = "closing" /\ cleanup = {}
  /\ quitting' = "logging"
  /\ UNCHANGED <<startup, acquiring, acquired, held, cleanup, window, loads, windows, coreIpc>>

(* closeProcessLogger; its failure is only reported. *)
LoggerClosed ==
  /\ quitting = "logging"
  /\ quitting' = "allowed"
  /\ UNCHANGED <<startup, acquiring, acquired, held, cleanup, window, loads, windows, coreIpc>>

(* app.quit with allowQuit set: Electron closes the windows and exits. *)
ExitProcess ==
  /\ quitting = "allowed"
  /\ quitting' = "exited"
  /\ window' = FALSE
  /\ UNCHANGED <<startup, acquiring, acquired, held, cleanup, loads, windows, coreIpc>>

-----------------------------------------------------------------------------
(* Without the single-instance lock the process quits without starting. *)
LifeInit ==
  /\ \/ startup = "boot" /\ quitting = "no"
     \/ startup = "done" /\ quitting = "awaiting"
  /\ acquiring = "none" /\ acquired = 0
  /\ held = {} /\ cleanup = {}
  /\ window = FALSE /\ loads = 0 /\ windows = 0
  /\ coreIpc = "none"

LifeMoves == \/ Ready \/ AcquireNext \/ BuildFails \/ RolledBack \/ BuildEnds \/ ShowFirst
             \/ CloseNext \/ AwaitAcquisition \/ DisposeIpc \/ RuntimeClosed
             \/ LoggerClosed \/ ExitProcess

LifeOver == quitting = "exited" /\ UNCHANGED lifeVars

LifeNext == LifeMoves \/ LoadSettles \/ WindowClosed \/ Activate \/ QuitRequested \/ LifeOver

(* The process' own steps go on: every close settles, which is what the runs *)
(* about the owners show.  Nobody has to quit, close a window or click.      *)
LifeSpec == LifeInit /\ [][LifeNext]_lifeVars /\ WF_lifeVars(LifeMoves)

-----------------------------------------------------------------------------
(* Whatever is still held can use what it was handed: neither a rollback   *)
(* nor a shutdown settles an owner before those that use it, and a process *)
(* that exits leaves no owner, no window and no handler behind, wherever   *)
(* in the startup the quit came (ApplicationRuntime.create and runCleanup, *)
(* ElectronMain.shutdownOnce).                                             *)
OwnersOutliveUsers ==
  /\ \A o \in held : Uses[o] \subseteq held
  /\ quitting = "exited" => held = {} /\ ~window /\ coreIpc # "registered"

(* A window is only ever made for a complete runtime, with every owner held, *)
(* and never once a quit has begun (initialize's checks of shutdownRequested *)
(* around its awaits, the activate handler).                                 *)
WindowsNeedRuntime == [][~window /\ window' => held = Owners /\ ~shutdownRequested]_lifeVars

(* A quit, once begun (it is never taken back), ends the process: no failed  *)
(* acquisition, close or load in the middle of it keeps the application alive. *)
QuitEnds == <>[](shutdownRequested => quitting = "exited")

=============================================================================
