--------------------------- MODULE JobStateMachine ---------------------------
(* src/main/core/JobStateMachine.ts: the reducer of processing events.  The*)
(* coordinator evaluates every event with it before it publishes one, the  *)
(* history store again before it writes one and when it replays its file.  *)
(* A machine is [status, last]: the status and the last accepted sequence. *)
(* Events carry the job they belong to by the machine they are given to,   *)
(* so the job-id check has no counterpart here.                            *)
EXTENDS Naturals

TerminalStatuses == {"completed", "partial", "failed", "cancelled"}

Transitions ==
  [draft      |-> {"previewing"},
   previewing |-> {"ready", "failed", "cancelled"},
   ready      |-> {"queued", "cancelling", "cancelled"},
   queued     |-> {"processing", "cancelling", "failed", "cancelled"},
   processing |-> {"cancelling"} \cup TerminalStatuses,
   cancelling |-> {"failed", "cancelled"},
   completed  |-> {}, partial |-> {}, failed |-> {}, cancelled |-> {}]

Statuses == DOMAIN Transitions

(* statusForEvent: every kind of event names the status it leads to; the   *)
(* two kinds of progress lead nowhere and are tied to a status.            *)
ProgressStatus == [preview_progress |-> "previewing", job_progress |-> "processing"]
ProgressKinds  == DOMAIN ProgressStatus
Kinds          == (Statuses \ {"draft"}) \cup ProgressKinds

NewMachine == [status |-> "draft", last |-> 0]

Accepts(m, kind, seq) ==
  /\ m.status \notin TerminalStatuses
  /\ seq > m.last
  /\ IF kind \in ProgressKinds
       THEN m.status = ProgressStatus[kind]
       ELSE kind \in Transitions[m.status]

After(m, kind, seq) ==
  [status |-> IF kind \in ProgressKinds THEN m.status ELSE kind, last |-> seq]
=============================================================================
