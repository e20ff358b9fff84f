----------------------------- MODULE InvokeRun ------------------------------
(***************************************************************************)
(* One run on the invoke path, from dispatch to exit, over every dispatch  *)
(* it takes: the process that creates the run row, captures the vars       *)
(* snapshot, executes or replays the durable calls of the body and reports *)
(* the end; the backend's store; the HTTP layer that loses replies and     *)
(* gives up; and the crashes, cancellations and resumptions around it.     *)
(*                                                                         *)
(*   solidactions.ts run(), invoke/invoke.ts, invoke/run-status-lifecycle  *)
(*   invoke/invoke-system-database.ts, http_system_database.ts, http_client*)
(*   testing/mock_server.ts     the handlers of the store                  *)
(*                                                                         *)
(* The body makes the durable calls 0..Calls-1 in order; a call is a step  *)
(* or, when in Sleeps, a durable sleep.                                    *)
(***************************************************************************)
EXTENDS Naturals

CONSTANTS
  Calls,       \* how many durable calls the body makes
  Sleeps,      \* the calls that are sleeps
  Guarded,     \* the steps whose error the body catches
  Vars,        \* what the adapter may supply as ctx.vars
  MaxLost,     \* bound: requests served whose reply is lost
  MaxOutages,  \* bound: requests that fail after every retry
  MaxCrashes,  \* bound: processes that die
  MaxRequests  \* bound: cancellations and resumptions by an operator

Ids == 0..(Calls - 1)

ASSUME InvokeRunAssumption ==
  /\ Calls \in Nat \ {0}
  /\ Sleeps \subseteq Ids
  /\ Guarded \subseteq Ids \ Sleeps
  /\ "unset" \notin Vars
  /\ {MaxLost, MaxOutages, MaxCrashes, MaxRequests} \subseteq Nat

VARIABLES
  row,       \* status of the run row
  snapshot,  \* the vars captured on the row
  ops,       \* the recorded operations, by function id
  reports,   \* the workflow-complete statuses posted
  trigger,   \* what the dispatcher knows of the run
  due,       \* the sleeps whose wake-up time has passed
  phase,     \* the request the process waits on
  at,        \* the function id of the current call
  supplied,  \* the vars the adapter supplied to this dispatch
  result,    \* what invoke() returned
  seen,      \* the vars bodies of this run have been given
  observed,  \* what the body saw last of each call
  ran,       \* the steps whose function was executed in this dispatch
  threw,     \* the steps whose function threw in some dispatch
  lost, outages, crashes, requests

store == <<row, snapshot, ops, reports, trigger>>
process == <<phase, at, supplied, result>>
history == <<seen, observed, ran, threw>>
bounds == <<lost, outages, crashes, requests>>
vars == <<store, due, process, history, bounds>>

RowStatuses == {"absent", "PENDING", "SUCCESS", "ERROR", "CANCELLED"}

(* The process waits on one request at a time; at "exit" invoke() is over. *)
Requests == {"create", "health", "snapshot", "call", "record", "recordError",
             "sleep", "save", "complete"}

TypeOK ==
  /\ row \in RowStatuses
  /\ snapshot \in Vars \cup {"unset"}
  /\ ops \in [Ids -> {"none", "output", "error", "sleep"}]
  /\ reports \subseteq {"completed", "failed"}
  /\ trigger \in {"pending", "started", "waiting", "over"}
  /\ due \subseteq Sleeps
  /\ phase \in Requests \cup {"down", "exit"}
  /\ at \in 0..Calls
  /\ supplied \in Vars \cup {"unset"}
  /\ result \in {"none", "completed", "failed", "cancelled", "suspended"}
  /\ seen \subseteq Vars
  /\ observed \in [Ids -> {"none", "output", "error"}]
  /\ ran \subseteq Ids
  /\ threw \subseteq Ids
  /\ lost \in 0..MaxLost
  /\ outages \in 0..MaxOutages
  /\ crashes \in 0..MaxCrashes
  /\ requests \in 0..MaxRequests

Init ==
  /\ row = "absent"
  /\ snapshot = "unset"
  /\ ops = [i \in Ids |-> "none"]
  /\ reports = {}
  /\ trigger = "pending"
  /\ due = {}
  /\ phase = "down"
  /\ at = 0
  /\ supplied = "unset"
  /\ result = "none"
  /\ seen = {}
  /\ observed = [i \in Ids |-> "none"]
  /\ ran = {}
  /\ threw = {}
  /\ lost = 0
  /\ outages = 0
  /\ crashes = 0
  /\ requests = 0

-----------------------------------------------------------------------------
(* The backend's handlers: what each does to the store, whether or not its *)
(* reply arrives.                                                          *)

(* Mutant: the row is not created before the body runs. *)
CreateWorkflowMissing == row' = row

(* createWorkflow leaves an existing row alone. *)
CreateWorkflow == row' = IF row = "absent" THEN "PENDING" ELSE row

(* Mutants: the last write wins; nothing is stored but the word null. *)
CaptureVarsLatest == snapshot' = IF row # "absent" THEN supplied ELSE snapshot

CaptureVarsNull == snapshot' = "null"

(* captureVarsSnapshot: the first write wins. *)
CaptureVars ==
  snapshot' = IF row # "absent" /\ snapshot = "unset" THEN supplied
              ELSE snapshot

(* recordOperation with checkConflict: 404 without a row, 409 when the     *)
(* operation exists.                                                       *)
Accepts(i) == row # "absent" /\ ops[i] = "none"

(* Mutant: errors are not recorded. *)
RecordOperationOutputs(kind) ==
  ops' = IF Accepts(at) /\ kind # "error" THEN [ops EXCEPT ![at] = kind]
         ELSE ops

RecordOperation(kind) ==
  ops' = IF Accepts(at) THEN [ops EXCEPT ![at] = kind] ELSE ops

(* POST sleep records the wake-up time and puts the run to sleep. *)
ScheduleSleep ==
  /\ RecordOperation("sleep")
  /\ trigger' = IF row # "absent" /\ at \notin due THEN "waiting" ELSE trigger

(* recordOutput and recordError: a cancelled row is not overwritten. *)
StatusOf == [completed |-> "SUCCESS", failed |-> "ERROR",
             cancelled |-> "CANCELLED"]

(* Mutant: a late result overwrites a cancelled row. *)
SaveResultAnyway == row' = IF row = "absent" THEN row ELSE StatusOf[result]

SaveResult ==
  row' = IF row \in {"absent", "CANCELLED"} THEN row ELSE StatusOf[result]

(* The request the process waits on is handled. *)
Handle ==
  \/ /\ phase = "create"
     /\ CreateWorkflow
     /\ UNCHANGED <<snapshot, ops, reports, trigger>>
  \/ /\ phase = "snapshot"
     /\ CaptureVars
     /\ UNCHANGED <<row, ops, reports, trigger>>
  \/ /\ phase = "record" /\ RecordOperation("output")
     /\ UNCHANGED <<row, snapshot, reports, trigger>>
  \/ /\ phase = "recordError" /\ RecordOperation("error")
     /\ UNCHANGED <<row, snapshot, reports, trigger>>
  \/ /\ phase = "sleep"
     /\ ScheduleSleep
     /\ UNCHANGED <<row, snapshot, reports>>
  \/ /\ phase = "save"
     /\ SaveResult
     /\ UNCHANGED <<snapshot, ops, reports, trigger>>
  \/ /\ phase = "complete"
     /\ reports' = reports \cup {result}
     /\ UNCHANGED <<row, snapshot, ops, trigger>>
  \/ /\ phase \in {"health", "call"}
     /\ UNCHANGED store

-----------------------------------------------------------------------------
(* How the process goes on. *)

Goto(p) == phase' = p /\ UNCHANGED <<at, result>>

(* Mutant: the function id is not advanced. *)
ContinueInPlace ==
  /\ phase' = "call"
  /\ UNCHANGED <<at, result>>

(* The body makes its next call, or returns. *)
Continue ==
  /\ at' = at + 1
  /\ IF at + 1 = Calls
     THEN phase' = "save" /\ result' = "completed"
     ELSE phase' = "call" /\ UNCHANGED result

(* invoke() maps what the body threw; a suspension reports nothing. *)
EndBody(r) ==
  /\ result' = r
  /\ phase' = IF r = "suspended" THEN "exit" ELSE "save"
  /\ UNCHANGED at

(* The current call throws r into the body. *)
Throw(r) == IF at \in Guarded THEN Continue ELSE EndBody(r)

Sees(kind) == observed' = [observed EXCEPT ![at] = kind]

(* The body starts, with the vars v. *)
StartBody(v) == Goto("call") /\ seen' = seen \cup {v}

-----------------------------------------------------------------------------
(* A request is answered. *)

Answered(p) ==
  /\ phase = p
  /\ Handle
  /\ UNCHANGED <<due, supplied, bounds>>

CreateRow ==
  /\ Answered("create")
  /\ Goto("health")
  /\ UNCHANGED history

Health ==
  /\ Answered("health")
  /\ Goto("snapshot")
  /\ UNCHANGED history

(* The stored snapshot replaces ctx.vars; without a row it is a 404. *)
CaptureVarsSnapshot ==
  /\ Answered("snapshot")
  /\ StartBody(IF row = "absent" THEN supplied ELSE snapshot')
  /\ UNCHANGED <<observed, ran, threw>>

(* Every durable call reads its operation first; a cancelled run throws.   *)
CallCancelled ==
  /\ Answered("call")
  /\ row = "CANCELLED"
  /\ Throw("cancelled")
  /\ UNCHANGED history

(* Mutant: a recorded error is not rethrown. *)
ReplayStepSilently ==
  /\ Answered("call")
  /\ row # "CANCELLED"
  /\ at \notin Sleeps
  /\ ops[at] # "none"
  /\ Sees(ops[at])
  /\ Continue
  /\ UNCHANGED <<seen, ran, threw>>

(* A recorded step is replayed, and a recorded error rethrown. *)
ReplayStep ==
  /\ Answered("call")
  /\ row # "CANCELLED"
  /\ at \notin Sleeps
  /\ ops[at] # "none"
  /\ Sees(ops[at])
  /\ IF ops[at] = "error" THEN Throw("failed") ELSE Continue
  /\ UNCHANGED <<seen, ran, threw>>

(* Mutant: the function runs although its operation is recorded. *)
RunStepAgain ==
  /\ Answered("call")
  /\ row # "CANCELLED"
  /\ at \notin Sleeps
  /\ ran' = ran \cup {at}
  /\ \/ Goto("record") /\ UNCHANGED threw
     \/ Goto("recordError") /\ threw' = threw \cup {at}
  /\ UNCHANGED <<seen, observed>>

(* Otherwise the function runs, returning or throwing. *)
RunStep ==
  /\ Answered("call")
  /\ row # "CANCELLED"
  /\ at \notin Sleeps
  /\ ops[at] = "none"
  /\ ran' = ran \cup {at}
  /\ \/ Goto("record") /\ UNCHANGED threw
     \/ Goto("recordError") /\ threw' = threw \cup {at}
  /\ UNCHANGED <<seen, observed>>

(* The output is recorded; a refusal is caught like a failure of the       *)
(* function and sends the step on to record an error.                      *)
RecordOutput ==
  /\ Answered("record")
  /\ IF Accepts(at)
     THEN Sees("output") /\ Continue
     ELSE Goto("recordError") /\ UNCHANGED observed
  /\ UNCHANGED <<seen, ran, threw>>

(* Recorded or refused, the body sees an error. *)
RecordError ==
  /\ Answered("recordError")
  /\ Sees("error")
  /\ Throw("failed")
  /\ UNCHANGED <<seen, ran, threw>>

(* durableSleepms: a wake-up that passed lets the body go on, one that has *)
(* not suspends again without another schedule.                            *)
ReadSleep ==
  /\ Answered("call")
  /\ row # "CANCELLED"
  /\ at \in Sleeps
  /\ IF ops[at] = "none" THEN Goto("sleep")
     ELSE IF at \in due THEN Continue
     ELSE EndBody("suspended")
  /\ UNCHANGED history

Sleep ==
  /\ Answered("sleep")
  /\ EndBody(IF row = "absent" THEN "failed" ELSE "suspended")
  /\ UNCHANGED history

(* reportTerminalState: the row, then, unless the run was cancelled, the   *)
(* workflow-complete post.  A refused or failed row write is swallowed.    *)
AfterSave == Goto(IF result = "cancelled" THEN "exit" ELSE "complete")

Save ==
  /\ Answered("save")
  /\ AfterSave
  /\ UNCHANGED history

Complete ==
  /\ Answered("complete")
  /\ Goto("exit")
  /\ UNCHANGED history

Exit ==
  /\ phase = "exit"
  /\ phase' = "down"
  /\ trigger' = IF trigger = "started" THEN "over" ELSE trigger
  /\ UNCHANGED <<row, snapshot, ops, reports, due, at, supplied, result,
                 history, bounds>>

-----------------------------------------------------------------------------
(* What goes wrong. *)

(* The backend handled the request but the reply is lost: the HTTP client  *)
(* sends it again.                                                         *)
ReplyLost ==
  /\ lost < MaxLost
  /\ lost' = lost + 1
  /\ phase \in Requests
  /\ Handle
  /\ UNCHANGED <<due, process, history, outages, crashes, requests>>

(* Every attempt failed before reaching the backend: the request throws.   *)
Outage ==
  /\ outages < MaxOutages
  /\ outages' = outages + 1
  /\ \/ phase = "create" /\ Goto("health") /\ UNCHANGED history
     \/ phase = "health" /\ EndBody("failed") /\ UNCHANGED history
     \/ /\ phase = "snapshot"
        /\ StartBody(supplied)
        /\ UNCHANGED <<observed, ran, threw>>
     \/ phase \in {"call", "sleep"} /\ Throw("failed") /\ UNCHANGED history
     \/ phase = "record" /\ Goto("recordError") /\ UNCHANGED history
     \/ /\ phase = "recordError"
        /\ Sees("error")
        /\ Throw("failed")
        /\ UNCHANGED <<seen, ran, threw>>
     \/ phase = "save" /\ AfterSave /\ UNCHANGED history
     \/ phase = "complete" /\ Goto("exit") /\ UNCHANGED history
  /\ UNCHANGED <<store, due, supplied, lost, crashes, requests>>

(* The process dies; a run it held in flight is dispatched again. *)
Crash ==
  /\ crashes < MaxCrashes
  /\ crashes' = crashes + 1
  /\ phase # "down"
  /\ phase' = "down"
  /\ trigger' = IF trigger = "started" THEN "pending" ELSE trigger
  /\ UNCHANGED <<row, snapshot, ops, reports, due, at, supplied, result,
                 history, lost, outages, requests>>

-----------------------------------------------------------------------------
(* The dispatcher, the clock and the operator. *)

(* One process at a time, with the vars the environment has now. *)
Dispatch ==
  /\ trigger = "pending"
  /\ phase = "down"
  /\ trigger' = "started"
  /\ phase' = "create"
  /\ at' = 0
  /\ result' = "none"
  /\ ran' = {}
  /\ supplied' \in Vars
  /\ UNCHANGED <<row, snapshot, ops, reports, due, seen, observed, threw,
                 bounds>>

(* A sleep's wake-up time passes and its run is dispatched. *)
Wake ==
  /\ \E i \in Sleeps \ due : ops[i] = "sleep" /\ due' = due \cup {i}
  /\ trigger' = IF trigger = "waiting" THEN "pending" ELSE trigger
  /\ UNCHANGED <<row, snapshot, ops, reports, process, history, bounds>>

CancelWorkflow ==
  /\ requests < MaxRequests
  /\ requests' = requests + 1
  /\ row # "absent"
  /\ row' = "CANCELLED"
  /\ UNCHANGED <<snapshot, ops, reports, trigger, due, process, history,
                 lost, outages, crashes>>

(* A cancelled or failed run whose dispatch is over is resumed.  The       *)
(* store's handler writes the row whatever it is; when a run may be        *)
(* resumed, and that it is then dispatched again, is the platform's part.  *)
ResumeWorkflow ==
  /\ trigger = "over"
  /\ phase = "down"
  /\ row \in {"CANCELLED", "ERROR"}
  /\ requests < MaxRequests
  /\ requests' = requests + 1
  /\ row' = "PENDING"
  /\ trigger' = "pending"
  /\ UNCHANGED <<snapshot, ops, reports, due, process, history, lost,
                 outages, crashes>>

Process ==
  \/ CreateRow \/ Health \/ CaptureVarsSnapshot
  \/ CallCancelled \/ ReplayStep \/ RunStep \/ RecordOutput \/ RecordError
  \/ ReadSleep \/ Sleep
  \/ Save \/ Complete \/ Exit

Next ==
  \/ Process
  \/ ReplyLost \/ Outage \/ Crash
  \/ Dispatch \/ Wake \/ CancelWorkflow \/ ResumeWorkflow

Spec == Init /\ [][Next]_vars

(* A live process goes on, the dispatcher polls and the clock advances;    *)
(* faults and operators owe nothing.                                       *)
Fairness == WF_vars(Process) /\ WF_vars(Dispatch) /\ WF_vars(Wake)

FairSpec == Spec /\ Fairness

-----------------------------------------------------------------------------
(* Properties. *)

(* A run is saved as a success only when every step it did not guard has   *)
(* its output recorded and every sleep it took has passed, over all the    *)
(* dispatches it took to get there (invoke.ts step, durableSleepms).       *)
SuccessIsEarned ==
  row = "SUCCESS" =>
    \A i \in Ids \ Guarded :
      IF i \in Sleeps THEN i \in due ELSE ops[i] = "output"

(* Nothing but a step function that threw fails a run (the retries of      *)
(* http_system_database.ts:46-47 are there to ensure it).                  *)
ErrorHasCause == row = "ERROR" => threw # {}

(* It holds while every request is answered at once: invoke.ts itself      *)
(* turns no outcome of a step into another.                                *)
Reliable == lost = 0 /\ outages = 0

ErrorHasCauseIfReliable == Reliable => ErrorHasCause

(* A run the dispatcher gave up has an end its row tells, unless a request *)
(* failed for good: reportTerminalState swallows that.                     *)
OverMeansSaved ==
  trigger = "over" /\ outages = 0 => row \in {"SUCCESS", "ERROR", "CANCELLED"}

(* However the environment drifts between dispatches, the bodies of a run  *)
(* all see the same vars (invoke.ts:189-203); a snapshot request that fails*)
(* for good falls back to the environment's.                               *)
SameVars == outages = 0 => \A v, w \in seen : v = w

(* An operation is written once: neither a retry nor a replay changes it. *)
OpsWriteOnce ==
  [][\A i \in Ids : ops[i] # "none" => ops'[i] = ops[i]]_vars

(* A cancelled row leaves CANCELLED only through a resume, however late    *)
(* the process saves its result and however often it creates the row.      *)
CancelSticks ==
  [][(row = "CANCELLED" /\ row' # "CANCELLED") => ResumeWorkflow]_vars

(* A step whose output a body has seen is not executed again, in no later  *)
(* dispatch.                                                               *)
SeenNotRerun ==
  [][\A i \in ran' \ ran : observed[i] # "output"]_vars

(* Replay agrees with what was seen: a body never gets an error where an   *)
(* earlier dispatch got an output, nor the other way round.  A lost reply  *)
(* or a request that fails for good does break it: the body is given an    *)
(* error that is not the recorded outcome, and the next dispatch is not.   *)
ReplayAgrees ==
  [][Reliable' =>
       \A i \in Ids : observed[i] # "none" => observed'[i] = observed[i]]_vars

(* The inductive invariant behind them: where the process is tells which   *)
(* calls it has passed, and what the body saw is what is recorded.         *)
Passed(i) ==
  i \notin Guarded => IF i \in Sleeps THEN i \in due ELSE ops[i] = "output"

Early == {"create", "health", "snapshot"}
InBody == {"call", "record", "recordError", "sleep"}

ProcessKnows ==
  /\ phase \in Early => at = 0 /\ result = "none" /\ supplied \in Vars
  /\ phase \in InBody => at < Calls /\ \A i \in 0..(at - 1) : Passed(i)
  /\ phase \in {"record", "recordError"} => at \notin Sleeps
  /\ phase = "sleep" => at \in Sleeps
  /\ phase = "save" => result \in {"completed", "failed", "cancelled"}
  /\ phase = "complete" => result \in {"completed", "failed"}
  /\ result = "completed" => \A i \in Ids : Passed(i)

SeenIsRecorded == \A i \in Ids : observed[i] = "output" => ops[i] = "output"

OnlySleepsSleep == \A i \in Ids : ops[i] = "sleep" => i \in Sleeps

IInv == TypeOK /\ ProcessKnows /\ SuccessIsEarned /\ SeenIsRecorded
        /\ OnlySleepsSleep

(* A sleep is recorded once every call before it is behind the body, and   *)
(* only a recorded sleep comes due: what the run's promise needs of them.  *)
SleepsInOrder ==
  /\ \A i \in due : ops[i] = "sleep"
  /\ \A i \in Ids : ops[i] = "sleep" => \A j \in 0..(i - 1) : Passed(j)

(* The run as the readers of its row see it: a sleep is done once its      *)
(* wake-up time passed.                                                    *)
Run == INSTANCE DurableRun WITH
  status <- row,
  log <- [i \in Ids |-> IF ops[i] # "sleep" THEN ops[i]
                        ELSE IF i \in due THEN "output" ELSE "none"]

(* Every behaviour of the invoke path is one a durable run promises. *)
ImplementsRun == Run!RunSpec

(* Every run is over at last. *)
RunEnds == <>[](trigger = "over")

=============================================================================
