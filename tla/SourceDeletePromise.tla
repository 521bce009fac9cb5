------------------------ MODULE SourceDeletePromise ------------------------
(***************************************************************************)
(* What the native helper promises about one source deletion, whatever     *)
(* crashes: the bytes are kept until a durable intent (the exact receipt)  *)
(* exists, the intent is a point of no return, and an answer that claims a *)
(* terminal state is given only in that state.                             *)
(***************************************************************************)
CONSTANTS
  Callers,            \* whoever receives an answer
  StaleAnswers        \* TRUE: a retained answer may be overtaken by an orphan

VARIABLES bytes, intent, answer

Init == bytes = "kept" /\ intent = FALSE /\ answer = [c \in Callers |-> "none"]

CommitIntent ==
  /\ bytes = "kept" /\ ~intent
  /\ intent' = TRUE /\ UNCHANGED <<bytes, answer>>

Erase ==
  /\ bytes = "kept" /\ intent
  /\ bytes' = "gone" /\ UNCHANGED <<intent, answer>>

(* The user takes the source away: only before the point of no return.     *)
Take ==
  /\ bytes = "kept" /\ ~intent
  /\ bytes' = "taken" /\ UNCHANGED <<intent, answer>>

(* Retained: not erased (unless an orphan overtook the answer); deleted:   *)
(* erased; not applied: the point of no return was not passed.             *)
MaySay(v) ==
  \/ v \in {"none", "unknown"}
  \/ v = "deleted" /\ bytes = "gone" /\ intent
  \/ v = "source-retained" /\ (StaleAnswers \/ bytes # "gone")
  \/ v = "not-applied" /\ ~intent

Reply(c) == \E v \in {"none", "unknown", "deleted", "source-retained", "not-applied"} :
  /\ MaySay(v)
  /\ answer' = [answer EXCEPT ![c] = v] /\ UNCHANGED <<bytes, intent>>

Next == CommitIntent \/ Erase \/ Take \/ \E c \in Callers : Reply(c)

Spec == Init /\ [][Next]_<<bytes, intent, answer>>
=============================================================================
