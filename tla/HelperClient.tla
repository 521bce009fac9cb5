---------------------------- MODULE HelperClient ----------------------------
(***************************************************************************)
(* NativeFilesystemHelperClient: the queue of requests to one helper       *)
(* process, one of them in flight.  Abort signals before and after         *)
(* transmission, the loss of the helper at any point, the grace period     *)
(* after a broken pipe, other stream errors, and close().  The helper reads a request, performs *)
(* it, answers, and may die between any two of these; what it performed    *)
(* stays performed, whatever the client learns of it.                      *)
(***************************************************************************)
EXTENDS Naturals, Sequences

CONSTANTS
  Calls,   \* requests the callers make
  Close,   \* the request that close() makes
  Nobody   \* no request

ASSUME CallsAssumption == Close \notin Calls /\ Nobody \notin Calls \cup {Close}

Requests == Calls \cup {Close}

VARIABLES
  state,     \* of each request: "idle", "queued", "pending", "exiting", "settled"
  result,    \* what its caller was told: "none", "applied", "not-applied", "unknown"
  aborted,   \* requests whose signal is aborted
  queueTail, \* the chain of runs, oldest first
  closing,   \* close() was called
  fatal,     \* fatalError is set
  broken,    \* deferredBrokenPipeFailure is set
  erred,     \* an error other than a broken pipe was reported
  ended,     \* stdout has ended, as the client has seen it
  exited,    \* processExited: the close event of the child was delivered
  stdin, stdout,  \* the pipes
  helper,    \* the helper process, and the request it serves
  done       \* requests the helper performed

calls  == <<state, result, aborted, queueTail, closing>>
client == <<fatal, broken, erred, ended, exited>>
world  == <<stdin, stdout, helper, done>>
vars   == <<calls, client, world>>

(* An answer says what was done; a garbled one fails validation.           *)
Answers == {"applied", "not-applied", "unknown", "garbled"}
Idle    == [at |-> "reading", req |-> Nobody, says |-> "none"]
Gone(code) == [at |-> "gone", req |-> Nobody, says |-> code]

Init ==
  /\ state = [r \in Requests |-> "idle"]
  /\ result = [r \in Requests |-> "none"]
  /\ aborted = {} /\ queueTail = <<>> /\ closing = FALSE
  /\ fatal = FALSE /\ broken = FALSE /\ erred = FALSE /\ ended = FALSE /\ exited = FALSE
  /\ stdin = <<>> /\ stdout = <<>> /\ helper = Idle /\ done = {}

-----------------------------------------------------------------------------
Pending(r) == state[r] = "pending"
CloseAnswered == state[Close] = "exiting" \/ result[Close] = "applied"

Settle(r, what) ==
  /\ state' = [state EXCEPT ![r] = "settled"]
  /\ result' = [result EXCEPT ![r] = what]

Lost(r) == state[r] \in {"pending", "exiting"}

(* Mutant: the request in flight is forgotten and never rejected.          *)
MarkFatalSilent == fatal' = TRUE /\ broken' = FALSE /\ UNCHANGED <<state, result>>

(* markFatal: the request in flight is rejected, its fate unknown, and so  *)
(* is a close that waits for the exit, which every caller that can find one*)
(* does beside markFatal; the helper is told to terminate.                 *)
MarkFatal ==
  /\ fatal' = TRUE /\ broken' = FALSE
  /\ state' = [r \in Requests |-> IF Lost(r) THEN "settled" ELSE state[r]]
  /\ result' = [r \in Requests |-> IF Lost(r) THEN "unknown" ELSE result[r]]

-----------------------------------------------------------------------------
(* Mutant: close() does not refuse the calls that come after it.           *)
CallLate(c) ==
  /\ state[c] = "idle"
  /\ \/ fatal /\ Settle(c, "unknown") /\ UNCHANGED queueTail
     \/ /\ ~fatal
        /\ state' = [state EXCEPT ![c] = "queued"]
        /\ queueTail' = Append(queueTail, c) /\ UNCHANGED result
  /\ UNCHANGED <<aborted, closing, client, world>>

(* enqueue and schedule: a call of a client that closes or is lost settles *)
(* at once, any other joins the queue.                                     *)
Call(c) ==
  /\ state[c] = "idle"
  /\ \/ closing /\ Settle(c, "not-applied") /\ UNCHANGED queueTail
     \/ ~closing /\ fatal /\ Settle(c, "unknown") /\ UNCHANGED queueTail
     \/ /\ ~closing /\ ~fatal
        /\ state' = [state EXCEPT ![c] = "queued"]
        /\ queueTail' = Append(queueTail, c) /\ UNCHANGED result
  /\ UNCHANGED <<aborted, closing, client, world>>

CallClose ==
  /\ ~closing /\ closing' = TRUE
  /\ state' = [state EXCEPT ![Close] = "queued"]
  /\ queueTail' = Append(queueTail, Close)
  /\ UNCHANGED <<result, aborted, client, world>>

(* Mutant: an abort settles a transmitted request as never applied.        *)
AbortAsQueued(c) ==
  /\ c \notin aborted /\ state[c] \in {"queued", "pending"}
  /\ aborted' = aborted \cup {c}
  /\ Settle(c, "not-applied")
  /\ UNCHANGED <<queueTail, closing, client, world>>

(* The caller's signal: onQueuedAbort before transmission, onAbort after.  *)
Abort(c) ==
  /\ c \notin aborted /\ state[c] \in {"queued", "pending"}
  /\ aborted' = aborted \cup {c}
  /\ \/ state[c] = "queued" /\ Settle(c, "not-applied") /\ UNCHANGED <<fatal, broken>>
     \/ Pending(c) /\ MarkFatal
  /\ UNCHANGED <<queueTail, closing, erred, ended, exited, world>>

(* Mutant: performRequest does not look at fatalError.                     *)
RunUnaware ==
  /\ queueTail # <<>> /\ \A r \in Requests : ~Pending(r)
  /\ queueTail' = Tail(queueTail)
  /\ LET r == Head(queueTail) IN
       \/ state[r] = "settled" /\ UNCHANGED <<state, result, stdin>>
       \/ /\ state[r] = "queued"
          /\ state' = [state EXCEPT ![r] = "pending"]
          /\ stdin' = Append(stdin, r) /\ UNCHANGED result
  /\ UNCHANGED <<aborted, closing, client, stdout, helper, done>>

(* The next run of the chain, once the one before it has settled: a        *)
(* withdrawn request is passed over, performRequest transmits the others,  *)
(* or rejects them with the fatal error, or as malformed before it writes. *)
Run ==
  /\ queueTail # <<>> /\ \A r \in Requests : ~Pending(r)
  /\ queueTail' = Tail(queueTail)
  /\ LET r == Head(queueTail) IN
       \/ state[r] = "settled" /\ UNCHANGED <<state, result, stdin>>
       \/ state[r] = "queued" /\ fatal /\ Settle(r, "unknown") /\ UNCHANGED stdin
       \/ /\ state[r] = "queued" /\ ~fatal /\ r # Close
          /\ Settle(r, "not-applied") /\ UNCHANGED stdin
       \/ /\ state[r] = "queued" /\ ~fatal
          /\ state' = [state EXCEPT ![r] = "pending"]
          /\ stdin' = Append(stdin, r) /\ UNCHANGED result
  /\ UNCHANGED <<aborted, closing, client, stdout, helper, done>>

(* acceptStdout and acceptResponse: after a fatal error nothing is read    *)
(* any more; an unsolicited or garbled answer is a protocol failure.  The  *)
(* answer to close ends the input, and close goes on to wait for the exit. *)
Accept ==
  /\ stdout # <<>> /\ stdout' = Tail(stdout)
  /\ LET a == Head(stdout) IN
       \/ fatal /\ UNCHANGED <<state, result, fatal, broken>>
       \/ /\ ~fatal /\ (a.says = "garbled" \/ ~Pending(a.req))
          /\ MarkFatal
       \/ /\ ~fatal /\ a.says # "garbled" /\ Pending(a.req)
          /\ IF a.req = Close /\ a.says = "applied"
               THEN state' = [state EXCEPT ![Close] = "exiting"] /\ UNCHANGED result
               ELSE Settle(a.req, a.says)
          /\ UNCHANGED <<fatal, broken>>
  /\ UNCHANGED <<aborted, queueTail, closing, erred, ended, exited, stdin, helper, done>>

-----------------------------------------------------------------------------
(* Mutant: a broken pipe is fatal at once.                                 *)
BreakAtOnce ==
  /\ helper.at = "gone" /\ ~fatal /\ ~exited /\ ~broken
  /\ MarkFatal
  /\ UNCHANGED <<aborted, queueTail, closing, erred, ended, exited, world>>

(* handleProcessFailure on EPIPE: the failure waits for the output that    *)
(* may still be in the pipe.                                               *)
Break ==
  /\ helper.at = "gone" /\ ~fatal /\ ~exited /\ ~broken
  /\ broken' = TRUE
  /\ UNCHANGED <<calls, fatal, erred, ended, exited, world>>

(* handleProcessFailure on any other error of the process, of one of its   *)
(* streams or of a write: the client is lost at once, whether or not an    *)
(* answer is in the pipe or the grace period is running.                   *)
Fail ==
  /\ ~fatal /\ ~exited /\ erred' = TRUE /\ MarkFatal
  /\ UNCHANGED <<aborted, queueTail, closing, ended, exited, world>>

(* The grace period ends first.                                            *)
Grace ==
  /\ broken /\ MarkFatal
  /\ UNCHANGED <<aborted, queueTail, closing, erred, ended, exited, world>>

(* onStdoutEnd, delivered after all that was written to the pipe.          *)
StdoutEnd ==
  /\ helper.at = "gone" /\ stdout = <<>> /\ ~ended /\ ended' = TRUE
  /\ IF fatal \/ CloseAnswered THEN UNCHANGED <<state, result, fatal, broken>>
                               ELSE MarkFatal
  /\ UNCHANGED <<aborted, queueTail, closing, erred, exited, world>>

(* onExit, the close event of the child, which follows the end of stdout.  *)
Exit ==
  /\ ended /\ ~exited /\ exited' = TRUE
  /\ \/ fatal /\ UNCHANGED <<state, result, fatal, broken>>
     \/ ~fatal /\ (broken \/ ~CloseAnswered \/ helper.says # "clean") /\ MarkFatal
     \/ /\ ~fatal /\ ~broken /\ CloseAnswered /\ helper.says = "clean"
        /\ Settle(Close, "applied") /\ UNCHANGED <<fatal, broken>>
  /\ UNCHANGED <<aborted, queueTail, closing, erred, ended, world>>

(* waitForCleanExit: the helper did not exit in time after the close.      *)
ExitTimeout ==
  /\ state[Close] = "exiting" /\ ~exited /\ MarkFatal
  /\ UNCHANGED <<aborted, queueTail, closing, erred, ended, exited, world>>

-----------------------------------------------------------------------------
(* The helper process: run_stdio, one request at a time.                   *)
Read ==
  /\ helper.at = "reading" /\ stdin # <<>>
  /\ helper' = [at |-> "serving", req |-> Head(stdin), says |-> "none"]
  /\ stdin' = Tail(stdin)
  /\ UNCHANGED <<calls, client, stdout, done>>

Perform ==
  /\ helper.at = "serving"
  /\ \E says \in Answers :
       /\ helper' = [helper EXCEPT !.at = "answering", !.says = says]
       /\ \/ says # "not-applied" /\ done' = done \cup {helper.req}
          \/ says # "applied" /\ UNCHANGED done
  /\ UNCHANGED <<calls, client, stdin, stdout>>

(* The answer is flushed; after the answer to close the loop ends.         *)
Answer ==
  /\ helper.at = "answering"
  /\ stdout' = Append(stdout, [req |-> helper.req, says |-> helper.says])
  /\ helper' = IF helper.req = Close /\ helper.says = "applied"
               THEN [Idle EXCEPT !.at = "leaving"] ELSE Idle
  /\ UNCHANGED <<calls, client, stdin, done>>

Leave ==
  /\ helper.at = "leaving" /\ helper' = Gone("clean")
  /\ UNCHANGED <<calls, client, stdin, stdout, done>>

(* It crashes, or is killed, at any point; a request it was serving may    *)
(* have taken effect.                                                      *)
Die ==
  /\ helper.at # "gone" /\ helper' = Gone("killed")
  /\ done' \in {done} \cup
       (IF helper.at = "serving" THEN {done \cup {helper.req}} ELSE {})
  /\ UNCHANGED <<calls, client, stdin, stdout>>

Next ==
  \/ \E c \in Calls : Call(c) \/ Abort(c)
  \/ CallClose \/ Run \/ Accept
  \/ Break \/ Fail \/ Grace \/ StdoutEnd \/ Exit \/ ExitTimeout
  \/ Read \/ Perform \/ Answer \/ Leave \/ Die

Spec == Init /\ [][Next]_vars

(* The client's callbacks are delivered, timers fire, the helper answers   *)
(* what it reads, and dies when it is told to.  Nobody has to call, close, *)
(* abort, or crash.                                                        *)
FairSpec ==
  /\ Spec
  /\ WF_vars(Run) /\ WF_vars(Accept) /\ WF_vars(Grace)
  /\ WF_vars(StdoutEnd) /\ WF_vars(Exit) /\ WF_vars(ExitTimeout)
  /\ WF_vars(Read) /\ WF_vars(Perform) /\ WF_vars(Answer) /\ WF_vars(Leave)
  /\ WF_vars(fatal /\ Die)

-----------------------------------------------------------------------------
(* Types, and: a request is settled exactly when its caller was told.      *)
TypeOK ==
  /\ state \in [Requests -> {"idle", "queued", "pending", "exiting", "settled"}]
  /\ result \in [Requests -> {"none", "applied", "not-applied", "unknown"}]
  /\ aborted \subseteq Calls /\ queueTail \in Seq(Requests)
  /\ {closing, fatal, broken, erred, ended, exited} \subseteq BOOLEAN
  /\ stdin \in Seq(Requests)
  /\ stdout \in Seq([req : Requests, says : Answers])
  /\ helper \in [at : {"reading", "serving", "answering", "leaving", "gone"},
                 req : Requests \cup {Nobody},
                 says : Answers \cup {"none", "clean", "killed"}]
  /\ done \subseteq Requests
  /\ \A r \in Requests : state[r] = "settled" <=> result[r] # "none"

OnWire(r) ==
  \/ \E i \in DOMAIN stdin : stdin[i] = r
  \/ helper.req = r
  \/ \E i \in DOMAIN stdout : stdout[i].req = r

(* What a caller is told stays true for good: an applied request has taken *)
(* effect, and one that was not applied never does, whatever the helper    *)
(* still holds.  Code: the outcomes of schedule, performRequest, acceptResponse. *)
OutcomesTruthful ==
  \A r \in Requests :
    /\ result[r] = "applied" => r \in done
    /\ result[r] = "not-applied" =>
         /\ r \notin done
         /\ \A i \in DOMAIN stdin : stdin[i] # r
         /\ ~(helper.at = "serving" /\ helper.req = r)

(* One request is on its way at a time, in the pipes or in the helper, and *)
(* while the client is not lost its caller is waiting for it.  Code: the   *)
(* chain of runs and the single `pending` of performRequest.               *)
OneInFlight ==
  /\ Len(stdin) + Len(stdout) + (IF helper.req = Nobody THEN 0 ELSE 1) <= 1
  /\ \A r \in Requests : OnWire(r) => Pending(r) \/ fatal

(* Once close has taken effect in the helper no call waits any more, none  *)
(* can still be performed, and a close that succeeded left no helper.      *)
(* Code: `closing` and the place of close at the end of the queue.         *)
CloseIsLast ==
  /\ Close \in done /\ ~fatal => \A c \in Calls : state[c] \in {"idle", "settled"}
  /\ result[Close] = "applied" =>
       helper.at = "gone" /\ stdin = <<>> /\ stdout = <<>> /\ ~fatal

(* After the loss of the helper only a request whose caller was told       *)
(* `unknown` can still take effect.  Code: markFatal and performRequest.   *)
LostIsQuiet ==
  [][fatal => \A r \in done' \ done : result[r] = "unknown"]_vars

(* An answer that is in the pipe reaches its caller: only an abort, the    *)
(* end of the grace period, or an error that is not a broken pipe, may     *)
(* settle the request first; the death of the helper, the end of its       *)
(* output and its exit may not.  Code: the comment and the two branches of *)
(* handleProcessFailure, and the order of data, end and close.             *)
AnswersWin ==
  [][\A i \in DOMAIN stdout :
       LET a == stdout[i] IN
         Pending(a.req) /\ a.says # "garbled" /\ result'[a.req] = "unknown"
           => \/ a.says = "unknown" \/ a.req \in aborted'
              \/ broken \/ (erred' /\ ~erred)]_vars

(* Every admitted request settles, close included, whatever dies when: in  *)
(* the end there are none but those settled or never made.                 *)
CallsSettle == <>[](\A r \in Requests : state[r] \in {"idle", "settled"})

-----------------------------------------------------------------------------
(* The inductive strengthening.  What is on its way was admitted and not   *)
(* performed yet, an answer agrees with what was done, and whoever waits   *)
(* for what is on its way is told `unknown` when the client is lost.       *)
Agrees(r, says) ==
  /\ says = "applied" => r \in done
  /\ says = "not-applied" => r \notin done

WireInv ==
  /\ \A r \in Requests : state[r] \in {"idle", "queued"} => r \notin done /\ ~OnWire(r)
  /\ \A r \in Requests : fatal /\ OnWire(r) => result[r] = "unknown"
  /\ \A i \in DOMAIN stdin : stdin[i] \notin done
  /\ \A i \in DOMAIN stdout : Agrees(stdout[i].req, stdout[i].says)
  /\ helper.req = Nobody <=> helper.at \notin {"serving", "answering"}
  /\ helper.at = "serving" => helper.req \notin done
  /\ helper.at = "answering" => helper.says \in Answers /\ Agrees(helper.req, helper.says)
  /\ state[Close] = "exiting" => Close \in done
  /\ ~closing => state[Close] = "idle"

(* All that a state of the client and its helper satisfies, OneInFlight and *)
(* OutcomesTruthful among it.  Code: schedule, performRequest, markFatal.  *)
IInv == TypeOK /\ OneInFlight /\ WireInv /\ OutcomesTruthful
=============================================================================
