---------------------------- MODULE MCApplication ----------------------------
(* The components of the running application that own no file of their own,*)
(* each explored on its own: `active` says which one a behaviour is about. *)
(* They share no state.                                                    *)
EXTENDS HelperClient, FastMove, ExifToolPool, AdaptiveWorkPool, ApplicationLifecycle, ExecutorCores

(* Four values, three of which do not fit together under the limit.        *)
FileWeights == <<1, 2, 2, 3>>

(* Destinations and source roots are interchangeable: what the first       *)
(* operation names is fixed.                                               *)
FirstOrder == CHOOSE o \in Orders : TRUE

VARIABLE active

applicationVars == <<active, vars, moveVars, poolVars, workVars, lifeVars, executorVars>>

ApplicationInit ==
  /\ active \in {"client", "move", "exiftool", "work", "life", "executor"}
  /\ Init /\ MoveInit /\ PoolInit /\ WorkInit /\ LifeInit /\ ExecutorInit
  /\ active # "life" => startup = "boot"
  /\ active # "work" => ~gated
  /\ target[FirstOrder] = CHOOSE b \in Bindings : TRUE
  /\ active # "executor" => \A o \in Orders : target[o] = target[FirstOrder]

ApplicationNext ==
  \/ /\ active = "client" /\ Next
     /\ UNCHANGED <<active, moveVars, poolVars, workVars, lifeVars, executorVars>>
  \/ /\ active = "move" /\ MoveNext
     /\ UNCHANGED <<active, vars, poolVars, workVars, lifeVars, executorVars>>
  \/ /\ active = "exiftool" /\ PoolNext
     /\ UNCHANGED <<active, vars, moveVars, workVars, lifeVars, executorVars>>
  \/ /\ active = "work" /\ WorkNext
     /\ UNCHANGED <<active, vars, moveVars, poolVars, lifeVars, executorVars>>
  \/ /\ active = "life" /\ LifeNext
     /\ UNCHANGED <<active, vars, moveVars, poolVars, workVars, executorVars>>
  \/ /\ active = "executor" /\ ExecutorNext
     /\ UNCHANGED <<active, vars, moveVars, poolVars, workVars, lifeVars>>

(* The fairness of the parts, each while it is the active one.             *)
ClientMoves(A) == active = "client" /\ A

ApplicationSpec ==
  /\ ApplicationInit /\ [][ApplicationNext]_applicationVars
  /\ WF_vars(ClientMoves(Run)) /\ WF_vars(ClientMoves(Accept)) /\ WF_vars(ClientMoves(Grace))
  /\ WF_vars(ClientMoves(StdoutEnd)) /\ WF_vars(ClientMoves(Exit))
  /\ WF_vars(ClientMoves(ExitTimeout)) /\ WF_vars(ClientMoves(Read))
  /\ WF_vars(ClientMoves(Perform)) /\ WF_vars(ClientMoves(Answer))
  /\ WF_vars(ClientMoves(Leave)) /\ WF_vars(ClientMoves(fatal /\ Die))
  /\ WF_poolVars(active = "exiftool" /\ Moves)
  /\ WF_workVars(active = "work" /\ (ProbeSettles \/ SettleMap))
  /\ \A w \in Laborers : WF_workVars(active = "work" /\ Work(w))
  /\ WF_lifeVars(active = "life" /\ LifeMoves)
  /\ WF_executorVars(active = "executor" /\ ExecutorMoves)

(* Every read on an ExifTool child and every item of the work pool.        *)
PoolsHold == PoolHolds /\ WorkIsBounded

(* Every request to the helper, every metadata read, every wait of the work*)
(* pool, every operation of the executor, its close() and every quit comes *)
(* to its end.                                                             *)
EverythingSettles ==
  CallsSettle /\ ReadsSettle /\ NobodyWaitsForever /\ QuitEnds /\ ExecutorSettles
=============================================================================
