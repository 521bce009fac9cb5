-------------------------- MODULE AdaptiveWorkPool --------------------------
(***************************************************************************)
(* AdaptiveWorkPool.mapOrdered: workers take the values in order; each     *)
(* waits for CPU capacity (a probe they share), then, if the caller gave a *)
(* limit, for weight under it, then runs its task and the completion       *)
(* callback.  The first failure, or the caller's abort, stops the          *)
(* admission of work.  The planner gives no limit; the tests do.           *)
(***************************************************************************)
EXTENDS Naturals, FiniteSets, FiniteSetsExt

CONSTANTS
  LaborerCount, \* maxConcurrency
  ItemCount, \* values 1 .. ItemCount
  Weights,   \* the weight of each
  MaxWeight  \* maxInFlightWeight

Items    == 1..ItemCount
Laborers == 1..Min({LaborerCount, ItemCount})
ASSUME WeightsAssumption ==
  /\ LaborerCount \in Nat \ {0} /\ ItemCount \in Nat \ {0} /\ MaxWeight \in Nat
  /\ Weights \in [Items -> Nat]

VARIABLES
  gated,     \* the call was given a weightedLimit
  nextIndex,
  post,      \* where each worker is
  index,     \* the value it took
  finished,  \* values whose result was stored and reported
  probe,     \* the shared probe: none, waiting, or settled and not yet forgotten
  timers,    \* probes that are waiting
  weight,    \* activeWeight
  failed, stopped, \* a value failed; the controller is aborted
  settledAs    \* of the call: none, resolved, rejected

workVars == <<gated, nextIndex, post, index, finished, probe, timers, weight, failed, stopped, settledAs>>

WorkInit ==
  /\ gated \in BOOLEAN
  /\ index = [w \in Laborers |-> w] /\ post = [w \in Laborers |-> "capacity"]
  /\ nextIndex = Cardinality(Laborers) + 1
  /\ finished = {} /\ probe = "none" /\ timers = 0 /\ weight = 0
  /\ failed = FALSE /\ stopped = FALSE /\ settledAs = "none"

-----------------------------------------------------------------------------
Go(w, p)  == post' = [post EXCEPT ![w] = p]
Parked    == {w \in Laborers : post[w] = "parked"}

(* The catch block: the controller is aborted, which rejects the waits for *)
(* weight, and this worker takes no more.                                  *)
Throw(w) ==
  /\ failed' = TRUE /\ stopped' = TRUE
  /\ post' = [v \in Laborers |-> IF v = w THEN "over"
                                 ELSE IF v \in Parked THEN "refused" ELSE post[v]]

ExternalAbort ==
  /\ settledAs = "none" /\ ~stopped /\ stopped' = TRUE
  /\ post' = [v \in Laborers |-> IF v \in Parked THEN "refused" ELSE post[v]]
  /\ UNCHANGED <<gated, nextIndex, index, finished, probe, timers, weight, failed, settledAs>>

(* waitForCapacity and sample: join the probe that is there or start one.  *)
Sample(w) ==
  /\ post[w] = "capacity"
  /\ IF stopped THEN Throw(w) /\ UNCHANGED <<probe, timers>>
     ELSE /\ UNCHANGED <<failed, stopped>>
          /\ CASE probe = "none"    -> /\ probe' = "waiting" /\ timers' = timers + 1
                                       /\ Go(w, "sampling")
               [] probe = "waiting" -> Go(w, "sampling") /\ UNCHANGED <<probe, timers>>
               [] probe = "settled" -> /\ Go(w, "high") \/ Go(w, "low") \/ Go(w, "rejected")
                                       /\ UNCHANGED <<probe, timers>>
  /\ UNCHANGED <<gated, nextIndex, index, finished, weight, settledAs>>

(* The wait ends, or is aborted: everyone on the probe has its result, the *)
(* usage or the failure of the sampler.                                    *)
ProbeSettles ==
  /\ probe = "waiting"
  /\ \E usage \in {"high", "low", "rejected"} :
       /\ stopped => usage = "rejected"
       /\ post' = [w \in Laborers |-> IF post[w] = "sampling" THEN usage ELSE post[w]]
  /\ probe' = "settled" /\ timers' = timers - 1
  /\ UNCHANGED <<gated, nextIndex, index, finished, weight, failed, stopped, settledAs>>

(* The finally of sample: its probe is forgotten, a newer one is not.      *)
(* Mutant: whatever probe is there is forgotten.                           *)
ForgetAny == probe' = "none"
Forget    == probe' = IF probe = "settled" THEN "none" ELSE probe

Sampled(w) ==
  /\ post[w] \in {"high", "low"} /\ Forget
  /\ Go(w, IF post[w] = "low" THEN "admitted" ELSE "capacity")
  /\ UNCHANGED <<gated, nextIndex, index, finished, timers, weight, failed, stopped, settledAs>>

Rejected(w) ==
  /\ post[w] \in {"rejected", "refused"} /\ Throw(w)
  /\ IF post[w] = "rejected" THEN Forget ELSE UNCHANGED probe
  /\ UNCHANGED <<gated, nextIndex, index, finished, timers, weight, settledAs>>

-----------------------------------------------------------------------------
(* The abort check, weight() and acquire, up to its next await.  Without a *)
(* limit the task starts in the same step.  With one, acquire looks for    *)
(* room again after every wake-up, and the weight it takes is `granted':   *)
(* the task starts when the worker resumes.                                *)
WeightOf(i)  == IF gated THEN Weights[i] ELSE 0
HasRoomFor(w) == weight + WeightOf(index[w]) <= MaxWeight
Admit(w)     == IF gated THEN "granted" ELSE "task"

(* Mutant: a woken waiter does not look again.                             *)
AcquireUnchecked(w) ==
  /\ post[w] \in {"admitted", "woken"} /\ ~stopped
  /\ IF post[w] = "woken" \/ HasRoomFor(w)
       THEN Go(w, Admit(w)) /\ weight' = weight + WeightOf(index[w])
       ELSE Go(w, "parked") /\ UNCHANGED weight
  /\ UNCHANGED <<gated, nextIndex, index, finished, probe, timers, failed, stopped, settledAs>>

(* Mutant: an abort during the wait goes unnoticed.                        *)
AcquireUnaware(w) ==
  /\ post[w] \in {"admitted", "woken"}
  /\ IF HasRoomFor(w) THEN Go(w, Admit(w)) /\ weight' = weight + WeightOf(index[w])
                      ELSE Go(w, "parked") /\ UNCHANGED weight
  /\ UNCHANGED <<gated, nextIndex, index, finished, probe, timers, failed, stopped, settledAs>>

(* weight() may throw, or weigh a value beyond the limit.                  *)
Acquire(w) ==
  /\ post[w] \in {"admitted", "woken"}
  /\ \/ /\ stopped \/ (gated /\ (post[w] = "admitted" \/ WeightOf(index[w]) > MaxWeight))
        /\ Throw(w) /\ UNCHANGED weight
     \/ /\ ~stopped /\ HasRoomFor(w)
        /\ Go(w, Admit(w)) /\ weight' = weight + WeightOf(index[w])
        /\ UNCHANGED <<failed, stopped>>
     \/ /\ ~stopped /\ ~HasRoomFor(w) /\ WeightOf(index[w]) <= MaxWeight
        /\ Go(w, "parked") /\ UNCHANGED <<weight, failed, stopped>>
  /\ UNCHANGED <<gated, nextIndex, index, finished, probe, timers, settledAs>>

(* After the await nothing looks at the abort again.                       *)
StartTask(w) ==
  /\ post[w] = "granted" /\ Go(w, "task")
  /\ UNCHANGED <<gated, nextIndex, index, finished, probe, timers, weight, failed, stopped, settledAs>>

(* The task ends: its weight is given back, which wakes every waiter.      *)
(* Mutant: nobody is woken.                                                *)
TaskEndsSilently(w) ==
  /\ post[w] = "task" /\ weight' = weight - WeightOf(index[w]) /\ Go(w, "reporting")
  /\ UNCHANGED <<gated, nextIndex, index, finished, probe, timers, failed, stopped, settledAs>>

TaskEnds(w) ==
  /\ post[w] = "task" /\ weight' = weight - WeightOf(index[w])
  /\ \/ /\ post' = [v \in Laborers |-> IF v = w THEN "reporting"
                                       ELSE IF v \in Parked THEN "woken" ELSE post[v]]
        /\ UNCHANGED <<failed, stopped>>
     \/ /\ failed' = TRUE /\ stopped' = TRUE
        /\ post' = [v \in Laborers |-> IF v = w THEN "over"
                                       ELSE IF v \in Parked THEN "woken" ELSE post[v]]
  /\ UNCHANGED <<gated, nextIndex, index, finished, probe, timers, settledAs>>

(* completed() ends; the worker takes the next value.                      *)
ReportItem(w) ==
  LET more == ~stopped /\ nextIndex <= ItemCount IN
  /\ post[w] = "reporting"
  /\ \/ /\ finished' = finished \cup {index[w]}
        /\ index' = [index EXCEPT ![w] = IF more THEN nextIndex ELSE 0]
        /\ nextIndex' = IF more THEN nextIndex + 1 ELSE nextIndex
        /\ Go(w, IF more THEN "capacity" ELSE "over")
        /\ UNCHANGED <<failed, stopped>>
     \/ Throw(w) /\ UNCHANGED <<nextIndex, index, finished>>
  /\ UNCHANGED <<gated, probe, timers, weight, settledAs>>

(* Mutant: Promise.all, which does not wait for the others.                *)
SettleAtOnce ==
  /\ settledAs = "none" /\ (failed \/ \A w \in Laborers : post[w] = "over")
  /\ settledAs' = IF failed \/ stopped THEN "rejected" ELSE "resolved"
  /\ UNCHANGED <<gated, nextIndex, post, index, finished, probe, timers, weight, failed, stopped>>

SettleMap ==
  /\ settledAs = "none" /\ \A w \in Laborers : post[w] = "over"
  /\ settledAs' = IF failed \/ stopped THEN "rejected" ELSE "resolved"
  /\ UNCHANGED <<gated, nextIndex, post, index, finished, probe, timers, weight, failed, stopped>>

Work(w) == Sample(w) \/ Sampled(w) \/ Rejected(w) \/ Acquire(w) \/ StartTask(w)
           \/ TaskEnds(w) \/ ReportItem(w)
WorkNext == ExternalAbort \/ ProbeSettles \/ SettleMap \/ (\E w \in Laborers : Work(w))

WorkSpec == WorkInit /\ [][WorkNext]_workVars
FairWork ==
  /\ WorkSpec
  /\ WF_workVars(ProbeSettles \/ SettleMap)
  /\ \A w \in Laborers : WF_workVars(Work(w))

-----------------------------------------------------------------------------
Weighed == {w \in Laborers : post[w] \in {"granted", "task"}}

(* The files analysed at one time never weigh more than the limit, however *)
(* waiters are woken; one CPU probe is on its way at a time; and a call    *)
(* that has settled runs nothing any more, and has resolved only if every  *)
(* value was stored and reported.                                          *)
WorkIsBounded ==
  /\ MapThenSumSet(LAMBDA w : WeightOf(index[w]), Weighed) <= MaxWeight
  /\ timers <= 1
  /\ settledAs # "none" => \A w \in Laborers : post[w] = "over"
  /\ settledAs = "resolved" => finished = Items

(* Once a value failed or the caller aborted, no weight is granted and no  *)
(* task is started, except, where there is a limit, one whose weight had   *)
(* been granted before: nothing looks again between the grant and the      *)
(* start.  Without a limit, as the planner calls it, nothing starts.       *)
NothingStartsAfterFailure ==
  [][stopped => \A w \in Laborers :
       /\ post'[w] = "granted" => post[w] = "granted"
       /\ post'[w] = "task"    => post[w] = "task" \/ (gated /\ post[w] = "granted")]_workVars

(* An abort or a failure ends the call as soon as the running tasks end,   *)
(* at whatever a worker was waiting for, the CPU busy or not; and nobody   *)
(* waits for weight that has been given back.                              *)
NobodyWaitsForever == <>[](Parked = {} /\ (stopped => settledAs # "none"))
=============================================================================
