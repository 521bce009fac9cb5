---------------------------- MODULE ExifToolPool ----------------------------
(***************************************************************************)
(* ExifToolStayOpenPool: metadata reads served by ExifTool children that   *)
(* stay open, one command at a time each.  A read opens its file, hands    *)
(* the child /proc/<pid>/fd/<number> and waits for the two markers that    *)
(* carry its id, one on stdout and one on stderr; any failure after the    *)
(* command was sent stops the child.  Pipes, descriptors, aborts, the      *)
(* timers and the deaths of children interleave freely.  This is Linux:    *)
(* elsewhere the command has the path, which a descriptor cannot retarget. *)
(***************************************************************************)
EXTENDS Integers, Sequences, FiniteSets

CONSTANTS
  Reads,     \* calls of read()
  Kids,      \* bound: children ever spawned; a spawn fails when they are used up
  NoKid, NoRead,
  PoolSize   \* the most workers in the set at once

ASSUME PoolAssumption ==
  /\ NoKid \notin Kids /\ NoRead \notin Reads /\ PoolSize \in Nat \ {0}

VARIABLES
  phase,     \* of each read
  serving,   \* the child it was given
  withdrawn, \* reads aborted while their file was being opened
  line,      \* reads that wait for a worker, oldest first
  pool,      \* the workers set
  worn,      \* workers with failed = TRUE
  kid,       \* each child: unborn, live, dying (signalled), exited, closed
  stopping,  \* the stopPromise of each child: none, waiting, over
  fds,       \* file descriptors: whose file each number is
  number,    \* the descriptor a read handed to its child
  commands, outs, errs,  \* the pipes of each child
  heard,     \* what the listeners of each read have collected
  answer,    \* what each resolved read was given: the files it describes
  draining,  \* drain() is running: nothing else happens meanwhile
  shut       \* close() was called

calling == <<phase, serving, withdrawn, line, heard, answer>>
workers == <<pool, worn, kid, stopping>>
pipes   == <<commands, outs, errs>>
files   == <<fds, number>>
poolVars == <<calling, workers, pipes, files, draining, shut>>

(* Numbers enough for every read to hold one.                              *)
Fds == 1..Cardinality(Reads)
Nothing == [out |-> <<>>, err |-> <<>>]

PoolInit ==
  /\ phase = [r \in Reads |-> "new"] /\ serving = [r \in Reads |-> NoKid]
  /\ withdrawn = {} /\ line = <<>>
  /\ heard = [r \in Reads |-> Nothing] /\ answer = [r \in Reads |-> <<>>]
  /\ pool = {} /\ worn = {}
  /\ kid = [k \in Kids |-> "unborn"] /\ stopping = [k \in Kids |-> "none"]
  /\ commands = [k \in Kids |-> <<>>] /\ outs = commands /\ errs = commands
  /\ fds = [n \in Fds |-> NoRead] /\ number = [r \in Reads |-> 0]
  /\ draining = FALSE /\ shut = FALSE

-----------------------------------------------------------------------------
Ended   == {"answered", "rejected"}
Busy(k) == \E r \in Reads : serving[r] = k /\ phase[r] \in {"opening", "sent", "stopping"}
Alive(k) == kid[k] \in {"live", "dying"}

(* stop(): out of the set and signalled; an exited child needs no waiting. *)
StopAll(ks) ==
  LET fresh == {k \in ks : stopping[k] = "none" /\ Alive(k)} IN
  /\ worn' = worn \cup ks /\ pool' = pool \ ks
  /\ kid' = [k \in Kids |-> IF k \in fresh THEN "dying" ELSE kid[k]]
  /\ stopping' = [k \in Kids |-> IF k \in fresh THEN "waiting" ELSE stopping[k]]

(* The end of execute: the descriptor is closed, the worker is free and    *)
(* drain() runs.                                                           *)
SettleRead(r, how) ==
  /\ phase' = [phase EXCEPT ![r] = how]
  /\ fds' = [n \in Fds |-> IF fds[n] = r THEN NoRead ELSE fds[n]]
  /\ number' = [number EXCEPT ![r] = 0]
  /\ heard' = [heard EXCEPT ![r] = Nothing]
  /\ serving' = [serving EXCEPT ![r] = NoKid] /\ withdrawn' = withdrawn \ {r}
  /\ draining' = ~shut

-----------------------------------------------------------------------------
StartRead(r) ==
  /\ ~draining /\ phase[r] = "new"
  /\ \/ /\ phase' = [phase EXCEPT ![r] = "rejected"]      \* closed, or aborted already
        /\ UNCHANGED <<line, draining>>
     \/ /\ ~shut /\ phase' = [phase EXCEPT ![r] = "queued"]
        /\ line' = Append(line, r) /\ draining' = TRUE
  /\ UNCHANGED <<serving, withdrawn, heard, answer, workers, pipes, files, shut>>

(* drain(), one turn of its loop: the head of the queue goes to an idle    *)
(* worker, or to a new one; a spawn that throws fails the request.         *)
IdleWorker(k)  == k \in pool /\ ~Busy(k) /\ k \notin worn
HasRoom  == Cardinality(pool) < PoolSize
Assign(k) ==
  /\ phase' = [phase EXCEPT ![Head(line)] = "opening"]
  /\ serving' = [serving EXCEPT ![Head(line)] = k]
  /\ line' = Tail(line)

DrainOnto ==
  /\ draining /\ ~shut /\ line # <<>>
  /\ \E k \in Kids : IdleWorker(k) /\ Assign(k)
  /\ UNCHANGED <<withdrawn, heard, answer, workers, pipes, files, draining, shut>>

DrainSpawn ==
  /\ draining /\ ~shut /\ line # <<>>
  /\ HasRoom /\ \A k \in Kids : ~IdleWorker(k)
  /\ \/ \E k \in Kids :
          /\ kid[k] = "unborn" /\ kid' = [kid EXCEPT ![k] = "live"]
          /\ pool' = pool \cup {k} /\ Assign(k)
     \/ /\ phase' = [phase EXCEPT ![Head(line)] = "rejected"]
        /\ line' = Tail(line) /\ UNCHANGED <<kid, pool, serving>>
  /\ UNCHANGED <<withdrawn, heard, answer, worn, stopping, pipes, files, draining, shut>>

DrainEnds ==
  /\ draining
  /\ shut \/ line = <<>> \/ (~HasRoom /\ \A k \in Kids : ~IdleWorker(k))
  /\ draining' = FALSE
  /\ UNCHANGED <<calling, workers, pipes, files, shut>>

-----------------------------------------------------------------------------
(* execute: the file is opened; a worker that failed meanwhile, an abort   *)
(* or close() stop the child before anything is sent.                      *)
OpenFails(r) ==
  /\ ~draining /\ phase[r] = "opening" /\ SettleRead(r, "rejected")
  /\ UNCHANGED <<line, answer, workers, pipes, shut>>

Lowest(n) == fds[n] = NoRead /\ \A m \in Fds : m < n => fds[m] # NoRead

OpenFile(r) ==
  \E n \in Fds :
    LET k == serving[r] IN
    /\ ~draining /\ phase[r] = "opening" /\ Lowest(n)
    /\ fds' = [fds EXCEPT ![n] = r] /\ number' = [number EXCEPT ![r] = n]
    /\ IF r \in withdrawn \/ shut \/ k \in worn
         THEN phase' = [phase EXCEPT ![r] = "stopping"] /\ StopAll({k}) /\ UNCHANGED commands
         ELSE /\ phase' = [phase EXCEPT ![r] = "sent"] /\ UNCHANGED workers
              /\ commands' = [commands EXCEPT ![k] = Append(@, [of |-> r, fd |-> n])]
    /\ UNCHANGED <<serving, withdrawn, line, heard, answer, outs, errs, draining, shut>>

(* The child: reads whatever file the number names by now, and answers on  *)
(* both pipes; a child that was told to stop may still do so.              *)
Serve(k) ==
  /\ Alive(k) /\ commands[k] # <<>>
  /\ \E ok \in BOOLEAN :
       LET c == Head(commands[k]) IN
       /\ outs' = [outs EXCEPT ![k] = Append(@, [of |-> c.of, file |-> fds[c.fd]])]
       /\ errs' = [errs EXCEPT ![k] = Append(@, [of |-> c.of, ok |-> ok /\ fds[c.fd] # NoRead])]
       /\ commands' = [commands EXCEPT ![k] = Tail(@)]
  /\ UNCHANGED <<calling, workers, files, draining, shut>>

(* finish: both markers of this id have been heard, each at the end of     *)
(* what was collected.                                                     *)
Complete(r, h) ==
  /\ h.out # <<>> /\ h.out[Len(h.out)].of = r
  /\ h.err # <<>> /\ h.err[Len(h.err)].of = r

(* A status that is not zero rejects the exchange, after which execute     *)
(* stops the child, as it does for any failure behind the command.         *)
FailRead(r) == phase' = [phase EXCEPT ![r] = "stopping"] /\ StopAll({serving[r]})

Hear(k, h) ==
  \/ /\ \A r \in Reads : ~(serving[r] = k /\ phase[r] = "sent")   \* nobody listens
     /\ UNCHANGED <<phase, serving, withdrawn, heard, answer, workers, files, draining>>
  \/ \E r \in Reads :
       /\ serving[r] = k /\ phase[r] = "sent"
       /\ IF ~Complete(r, h[r])
            THEN /\ heard' = [heard EXCEPT ![r] = h[r]]
                 /\ UNCHANGED <<phase, serving, withdrawn, answer, workers, files, draining>>
          ELSE IF h[r].err[Len(h[r].err)].ok
            THEN /\ answer' = [answer EXCEPT ![r] = [i \in 1..Len(h[r].out) |-> h[r].out[i].file]]
                 /\ SettleRead(r, "answered") /\ UNCHANGED workers
            ELSE FailRead(r) /\ UNCHANGED <<serving, withdrawn, heard, answer, files, draining>>

OutData(k) ==
  /\ ~draining /\ outs[k] # <<>>
  /\ outs' = [outs EXCEPT ![k] = Tail(@)]
  /\ Hear(k, [r \in Reads |-> [heard[r] EXCEPT !.out = Append(@, Head(outs[k]))]])
  /\ UNCHANGED <<line, commands, errs, shut>>

ErrData(k) ==
  /\ ~draining /\ errs[k] # <<>>
  /\ errs' = [errs EXCEPT ![k] = Tail(@)]
  /\ Hear(k, [r \in Reads |-> [heard[r] EXCEPT !.err = Append(@, Head(errs[k]))]])
  /\ UNCHANGED <<line, commands, outs, shut>>

-----------------------------------------------------------------------------
(* fail: the 120 s are over, a stream breaks, the output is too long.      *)
(* Mutant: the worker is kept for the next read.                           *)
FailKeepsWorker(r) ==
  /\ ~draining /\ phase[r] = "sent" /\ SettleRead(r, "rejected")
  /\ UNCHANGED <<line, answer, workers, pipes, shut>>

FailExchange(r) ==
  /\ ~draining /\ phase[r] = "sent"
  /\ FailRead(r)
  /\ UNCHANGED <<serving, withdrawn, line, heard, answer, pipes, files, draining, shut>>

(* An abort takes a waiting read out of the queue, fails one that was sent *)
(* and is noticed by one that opens its file.                              *)
AbortRead(r) ==
  /\ ~draining /\ r \notin withdrawn /\ phase[r] \in {"queued", "opening", "sent"}
  /\ withdrawn' = IF phase[r] = "opening" THEN withdrawn \cup {r} ELSE withdrawn
  /\ phase' = [phase EXCEPT ![r] = IF @ = "queued" THEN "rejected"
                                   ELSE IF @ = "sent" THEN "stopping" ELSE @]
  /\ IF phase[r] = "queued"
       THEN \E i \in DOMAIN line :
              line[i] = r /\ line' = SubSeq(line, 1, i - 1) \o SubSeq(line, i + 1, Len(line))
       ELSE UNCHANGED line
  /\ StopAll(IF phase[r] = "sent" THEN {serving[r]} ELSE {})
  /\ UNCHANGED <<serving, heard, answer, pipes, files, draining, shut>>

(* A failed execute waits for the stop before it closes the descriptor.    *)
(* Mutant: nothing is left to end the wait for a child that is gone.       *)
StoppedByPromise(r) ==
  /\ ~draining /\ phase[r] = "stopping" /\ stopping[serving[r]] = "over"
  /\ SettleRead(r, "rejected")
  /\ UNCHANGED <<line, answer, workers, pipes, shut>>

Stopped(r) ==
  /\ ~draining /\ phase[r] = "stopping" /\ stopping[serving[r]] # "waiting"
  /\ SettleRead(r, "rejected")
  /\ UNCHANGED <<line, answer, workers, pipes, shut>>

(* boundTimer: two seconds are enough for everybody.                       *)
StopBound(k) ==
  /\ ~draining /\ stopping[k] = "waiting" /\ stopping' = [stopping EXCEPT ![k] = "over"]
  /\ UNCHANGED <<calling, pool, worn, kid, pipes, files, draining, shut>>

KidExits(k) ==
  /\ Alive(k) /\ kid' = [kid EXCEPT ![k] = "exited"]
  /\ commands' = [commands EXCEPT ![k] = <<>>]
  /\ UNCHANGED <<calling, pool, worn, stopping, outs, errs, files, draining, shut>>

(* The close event, once both pipes are read to the end.                   *)
KidCloses(k) ==
  /\ ~draining /\ kid[k] = "exited" /\ outs[k] = <<>> /\ errs[k] = <<>>
  /\ kid' = [kid EXCEPT ![k] = "closed"] /\ worn' = worn \cup {k} /\ pool' = pool \ {k}
  /\ stopping' = [stopping EXCEPT ![k] = IF @ = "waiting" THEN "over" ELSE @]
  /\ phase' = [r \in Reads |-> IF serving[r] = k /\ phase[r] = "sent" THEN "stopping" ELSE phase[r]]
  /\ draining' = TRUE
  /\ UNCHANGED <<serving, withdrawn, line, heard, answer, pipes, files, shut>>

ClosePool ==
  /\ ~draining /\ ~shut /\ shut' = TRUE
  /\ phase' = [r \in Reads |-> IF phase[r] = "queued" THEN "rejected" ELSE phase[r]]
  /\ line' = <<>> /\ StopAll(pool)
  /\ UNCHANGED <<serving, withdrawn, heard, answer, pipes, files, draining>>

-----------------------------------------------------------------------------
Drain   == DrainOnto \/ DrainSpawn \/ DrainEnds
ReadSteps(r) == StartRead(r) \/ OpenFails(r) \/ OpenFile(r) \/ FailExchange(r) \/ AbortRead(r) \/ Stopped(r)
Child(k) == Serve(k) \/ OutData(k) \/ ErrData(k) \/ StopBound(k) \/ KidExits(k) \/ KidCloses(k)

PoolNext == Drain \/ ClosePool \/ (\E r \in Reads : ReadSteps(r)) \/ (\E k \in Kids : Child(k))

(* JavaScript runs on, opens return, timers fire, and a signalled child    *)
(* that its timers outlive has its pipes read.  A child need not answer,   *)
(* nor exit.                                                               *)
Moves ==
  \/ Drain
  \/ \E r \in Reads : OpenFile(r) \/ FailExchange(r) \/ Stopped(r)
  \/ \E k \in Kids : StopBound(k)

PoolSpec == PoolInit /\ [][PoolNext]_poolVars
FairPool == PoolSpec /\ WF_poolVars(Moves)

-----------------------------------------------------------------------------
(* A read that is answered is given what ExifTool said of its own file and *)
(* nothing else: no output left in a pipe by a read that was aborted, timed*)
(* out or failed before it, and no file that took over its descriptor.     *)
AnswersAreOwn == \A r \in Reads : phase[r] = "answered" => answer[r] = <<r>>

(* A child serves at most one read, the pipes of an idle worker are empty, *)
(* and no descriptor outlives its read.                                    *)
WorkersAreClean ==
  /\ \A r, q \in Reads :
       /\ serving[r] = serving[q] /\ r # q
       /\ phase[r] \in {"opening", "sent", "stopping"}
       => phase[q] \notin {"opening", "sent", "stopping"}
  /\ \A k \in pool : ~Busy(k) => commands[k] = <<>> /\ outs[k] = <<>> /\ errs[k] = <<>>
  /\ \A n \in Fds : fds[n] # NoRead => phase[fds[n]] \in {"sent", "stopping"}

PoolHolds == AnswersAreOwn /\ WorkersAreClean

(* Every read that was made settles, whether children answer, hang or die: *)
(* in the end there are none but those answered, rejected or never made.   *)
ReadsSettle == <>[](\A r \in Reads : phase[r] \in {"new"} \cup Ended)
=============================================================================
