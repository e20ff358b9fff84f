------------------------------ MODULE Executor -------------------------------
(***************************************************************************)
(* The launch-time engine: one workflow id, the processes that may execute *)
(* it at the same time, and the backend's row and operations they share.   *)
(*                                                                         *)
(*   solidactions-executor.ts   internalWorkflow, callStepFunction,        *)
(*                              recoverPendingWorkflows, executeWorkflowId *)
(*   http_system_database.ts    the requests, the cancellation cache and   *)
(*                              the table of running workflows             *)
(*   testing/mock_server.ts     the handlers of the store                  *)
(*                                                                         *)
(* The body calls the steps 0..Calls-1 in order.  The processes share one  *)
(* executor id, so each may be told to recover what another still runs.    *)
(***************************************************************************)
EXTENDS Naturals

CONSTANTS
  Procs,        \* the processes
  Calls,        \* how many steps the body calls
  Retried,      \* the steps configured with retriesAllowed
  Guarded,      \* the steps whose errors the body catches
  MaxAttempts,  \* maxAttempts of every retried step
  Deadline,     \* the workflow may be given a deadline
  MaxCrashes,   \* bound: processes that die
  MaxLost,      \* bound: operation records whose reply is lost
  MaxRequests,  \* bound: cancellations and resumptions
  MaxGranted    \* bound: executions a process may have been granted at once

Ids == 0..(Calls - 1)

ASSUME ExecutorAssumption ==
  /\ Calls \in Nat \ {0}
  /\ Retried \subseteq Ids
  /\ Guarded \subseteq Ids
  /\ MaxAttempts \in Nat \ {0}
  /\ Deadline \in BOOLEAN
  /\ {MaxCrashes, MaxLost, MaxRequests} \subseteq Nat
  /\ MaxGranted \in Nat \ {0}

(* An outcome carries the process that computed it: two executions of a    *)
(* step need not agree.                                                    *)
Results == [kind : {"output", "error"}, by : Procs]
None == [kind |-> "none"]

VARIABLES
  row,      \* status of the workflow's row
  ops,      \* the recorded operations, by function id
  reports,  \* the workflow-complete statuses posted
  pc,       \* what each process waits on
  at,       \* the function id of its current step
  attempt,  \* the number of its current attempt
  fails,    \* how often the step's function threw in this call
  outcome,  \* the outcome it is to record or save
  granted,  \* executions the backend granted it that have not begun
  cache,    \* workflowCancellationMap
  timer,    \* the deadline's timer of its execution
  seen,     \* the last value its bodies got from each step
  crashes, lost, requests

store == <<row, ops, reports>>
frame == <<at, attempt, fails, outcome>>
bounds == <<crashes, lost, requests>>
vars == <<store, pc, frame, granted, cache, timer, seen, bounds>>

(* callStepFunction waits on the cancellation check, on the operation, on  *)
(* the check before a retried attempt, on the function, on the record;     *)
(* runWorkflow on the row's write, the report, the cancel its deadline     *)
(* posts, or the result of whoever else executes the workflow.             *)
InBody == {"check", "read", "try", "function", "record"}
Running == InBody \cup {"settled", "save", "complete", "await"}

RowStatuses == {"absent", "PENDING", "SUCCESS", "ERROR", "CANCELLED"}

TypeOK ==
  /\ row \in RowStatuses
  /\ ops \in [Ids -> Results \cup {None}]
  /\ reports \subseteq {"completed", "failed"}
  /\ pc \in [Procs -> Running \cup {"down", "idle"}]
  /\ at \in [Procs -> Ids]
  /\ attempt \in [Procs -> 1..MaxAttempts]
  /\ fails \in [Procs -> 0..MaxAttempts]
  /\ outcome \in [Procs -> {"none", "output", "error"}]
  /\ granted \in [Procs -> 0..MaxGranted]
  /\ cache \in [Procs -> BOOLEAN]
  /\ timer \in [Procs -> {"none", "armed", "fired", "posted"}]
  /\ seen \in [Procs -> [Ids -> Results \cup {None}]]
  /\ crashes \in 0..MaxCrashes
  /\ lost \in 0..MaxLost
  /\ requests \in 0..MaxRequests

Init ==
  /\ row = "absent"
  /\ ops = [i \in Ids |-> None]
  /\ reports = {}
  /\ pc = [p \in Procs |-> "idle"]
  /\ at = [p \in Procs |-> 0]
  /\ attempt = [p \in Procs |-> 1]
  /\ fails = [p \in Procs |-> 0]
  /\ outcome = [p \in Procs |-> "none"]
  /\ granted = [p \in Procs |-> 0]
  /\ cache = [p \in Procs |-> FALSE]
  /\ timer = [p \in Procs |-> "none"]
  /\ seen = [p \in Procs |-> [i \in Ids |-> None]]
  /\ crashes = 0
  /\ lost = 0
  /\ requests = 0

-----------------------------------------------------------------------------
(* The backend's handlers. *)

(* createWorkflow: only the first creates, and is told to execute. *)
CreateWorkflow == row' = IF row = "absent" THEN "PENDING" ELSE row

(* recordOperation with checkConflict. *)
Accepts(i) == ops[i] = None

(* Mutant: the conflict check dropped. *)
RecordOperationAgain(p) ==
  ops' = [ops EXCEPT ![at[p]] = [kind |-> outcome[p], by |-> p]]

RecordOperation(p) ==
  ops' = IF Accepts(at[p])
         THEN [ops EXCEPT ![at[p]] = [kind |-> outcome[p], by |-> p]]
         ELSE ops

(* recordOutput and recordError: a cancelled row answers 409. *)
SaveAccepted == row # "CANCELLED"

SaveResult(p) ==
  row' = IF ~ SaveAccepted THEN row
         ELSE IF outcome[p] = "output" THEN "SUCCESS" ELSE "ERROR"

-----------------------------------------------------------------------------
(* How a process goes on. *)

Goto(p, where) == pc' = [pc EXCEPT ![p] = where]

(* checkIfCanceled: the cache, then the backend, whose word is cached. *)
Cancelled(p) == cache[p] \/ row = "CANCELLED"

Remember(p) ==
  cache' = [cache EXCEPT ![p] = IF pc[p] \in {"check", "try"}
                                THEN Cancelled(p) ELSE @]

(* The promise of the execution settles: registerRunningWorkflow's finally *)
(* forgets it and its cached cancellation.                                 *)
Finish(p) ==
  /\ Goto(p, "idle")
  /\ cache' = [cache EXCEPT ![p] = FALSE]
  /\ timer' = [timer EXCEPT ![p] = "none"]

(* Mutant: a result that arrives after the deadline is kept. *)
EndBodyLate(p, why) ==
  /\ UNCHANGED <<at, attempt>>
  /\ outcome' = [outcome EXCEPT ![p] = IF why \in {"output", "error"}
                                       THEN why ELSE "none"]
  /\ IF why = "cancelled" THEN Finish(p)
     ELSE /\ Goto(p, IF why = "conflict" THEN "await" ELSE "save")
          /\ timer' = [timer EXCEPT ![p] = "none"]
          /\ Remember(p)

(* The body settled with why.  A fired deadline has won the race; else     *)
(* its timer is cleared and runWorkflow maps what the body did.            *)
EndBody(p, why) ==
  /\ UNCHANGED <<at, attempt>>
  /\ outcome' = [outcome EXCEPT ![p] = IF why \in {"output", "error"}
                                       THEN why ELSE "none"]
  /\ IF timer[p] \in {"fired", "posted"}
     THEN Goto(p, "settled") /\ Remember(p) /\ UNCHANGED timer
     ELSE IF why = "cancelled" THEN Finish(p)
     ELSE /\ Goto(p, IF why = "conflict" THEN "await" ELSE "save")
          /\ timer' = [timer EXCEPT ![p] = "none"]
          /\ Remember(p)

(* The body calls its next step, or returns. *)
Continue(p) ==
  IF at[p] + 1 = Calls THEN EndBody(p, "output")
  ELSE /\ Goto(p, "check")
       /\ at' = [at EXCEPT ![p] = @ + 1]
       /\ Remember(p)
       /\ UNCHANGED <<attempt, outcome, timer>>

(* The current step throws into the body. *)
Throw(p, why) == IF at[p] \in Guarded THEN Continue(p) ELSE EndBody(p, why)

(* The current step ends with a recorded result. *)
Return(p, result) ==
  /\ seen' = [seen EXCEPT ![p][at[p]] = result]
  /\ IF result.kind = "output" THEN Continue(p) ELSE Throw(p, "error")

(* Mutant: one attempt too many. *)
NextAttemptOver(p) ==
  /\ IF at[p] \in Retried /\ attempt[p] <= MaxAttempts
     THEN /\ Goto(p, "try")
          /\ attempt' = [attempt EXCEPT ![p] = @ + 1]
          /\ UNCHANGED outcome
     ELSE /\ Goto(p, "record")
          /\ outcome' = [outcome EXCEPT ![p] = "error"]
          /\ UNCHANGED attempt
  /\ Remember(p)
  /\ UNCHANGED <<at, timer>>

(* An attempt failed: another one, or the error is recorded. *)
NextAttempt(p) ==
  /\ IF at[p] \in Retried /\ attempt[p] < MaxAttempts
     THEN /\ Goto(p, "try")
          /\ attempt' = [attempt EXCEPT ![p] = @ + 1]
          /\ UNCHANGED outcome
     ELSE /\ Goto(p, "record")
          /\ outcome' = [outcome EXCEPT ![p] = "error"]
          /\ UNCHANGED attempt
  /\ Remember(p)
  /\ UNCHANGED <<at, timer>>

-----------------------------------------------------------------------------
(* callStepFunction. *)

Check(p) ==
  /\ pc[p] = "check"
  /\ IF Cancelled(p) THEN Throw(p, "cancelled")
     ELSE /\ Goto(p, "read")
          /\ UNCHANGED <<at, attempt, outcome, cache, timer>>
  /\ UNCHANGED <<store, fails, granted, seen, bounds>>

(* getOperationResultAndThrowIfCancelled. *)
ReadCancelled(p) ==
  /\ pc[p] = "read"
  /\ row = "CANCELLED"
  /\ Throw(p, "cancelled")
  /\ UNCHANGED <<store, fails, granted, seen, bounds>>

ReadRecorded(p) ==
  /\ pc[p] = "read"
  /\ row # "CANCELLED"
  /\ ops[at[p]] # None
  /\ Return(p, ops[at[p]])
  /\ UNCHANGED <<store, fails, granted, bounds>>

ReadMissing(p) ==
  /\ pc[p] = "read"
  /\ row # "CANCELLED"
  /\ ops[at[p]] = None
  /\ Goto(p, IF at[p] \in Retried THEN "try" ELSE "function")
  /\ attempt' = [attempt EXCEPT ![p] = 1]
  /\ fails' = [fails EXCEPT ![p] = 0]
  /\ UNCHANGED <<store, at, outcome, granted, cache, timer, seen, bounds>>

(* Mutant: the retry loop does not ask. *)
TryUnchecked(p) ==
  /\ pc[p] = "try"
  /\ Goto(p, "function")
  /\ UNCHANGED <<at, attempt, outcome, cache, timer>>
  /\ UNCHANGED <<store, fails, granted, seen, bounds>>

(* The check before a retried attempt: the loop catches the cancellation   *)
(* like any failure of the attempt.                                        *)
Try(p) ==
  /\ pc[p] = "try"
  /\ IF Cancelled(p) THEN NextAttempt(p)
     ELSE /\ Goto(p, "function")
          /\ UNCHANGED <<at, attempt, outcome, cache, timer>>
  /\ UNCHANGED <<store, fails, granted, seen, bounds>>

FunctionReturns(p) ==
  /\ pc[p] = "function"
  /\ Goto(p, "record")
  /\ outcome' = [outcome EXCEPT ![p] = "output"]
  /\ UNCHANGED <<store, at, attempt, fails, granted, cache, timer, seen,
                 bounds>>

(* Mutant: the retries give up one attempt early. *)
FunctionThrowsEarly(p) ==
  /\ pc[p] = "function"
  /\ fails' = [fails EXCEPT ![p] = @ + 1]
  /\ IF attempt[p] + 1 < MaxAttempts THEN NextAttempt(p)
     ELSE /\ Goto(p, "record")
          /\ outcome' = [outcome EXCEPT ![p] = "error"]
          /\ UNCHANGED <<at, attempt, cache, timer>>
  /\ UNCHANGED <<store, granted, seen, bounds>>

FunctionThrows(p) ==
  /\ pc[p] = "function"
  /\ fails' = [fails EXCEPT ![p] = @ + 1]
  /\ NextAttempt(p)
  /\ UNCHANGED <<store, granted, seen, bounds>>

(* Mutant: a conflict is taken for success. *)
RecordBlindly(p) ==
  /\ pc[p] = "record"
  /\ RecordOperation(p)
  /\ Return(p, [kind |-> outcome[p], by |-> p])
  /\ UNCHANGED <<row, reports, fails, granted, bounds>>

(* The step returns only what is recorded; another process's record throws *)
(* a conflict into the body.                                               *)
Record(p) ==
  /\ pc[p] = "record"
  /\ RecordOperation(p)
  /\ IF Accepts(at[p]) THEN Return(p, [kind |-> outcome[p], by |-> p])
     ELSE Throw(p, "conflict") /\ UNCHANGED seen
  /\ UNCHANGED <<row, reports, fails, granted, bounds>>

(* The record is served and its reply lost: it is sent again. *)
RecordLost(p) ==
  /\ lost < MaxLost
  /\ lost' = lost + 1
  /\ pc[p] = "record"
  /\ RecordOperation(p)
  /\ UNCHANGED <<row, reports, pc, frame, granted, cache, timer, seen,
                 crashes, requests>>

CallStep(p) ==
  \/ Check(p)
  \/ ReadCancelled(p) \/ ReadRecorded(p) \/ ReadMissing(p)
  \/ Try(p) \/ FunctionReturns(p) \/ FunctionThrows(p)
  \/ Record(p)

-----------------------------------------------------------------------------
(* internalWorkflow and its runWorkflow. *)

(* A caller starts the workflow: initWorkflowStatus creates the row. *)
StartWorkflow(p) ==
  /\ pc[p] # "down"
  /\ row = "absent"
  /\ CreateWorkflow
  /\ granted' = [granted EXCEPT ![p] = @ + 1]
  /\ UNCHANGED <<ops, reports, pc, frame, cache, timer, seen, bounds>>

(* The answer of initWorkflowStatus is back: the body begins unless the    *)
(* process runs the workflow already.  A deadline is the backend's word.   *)
Launch(p) ==
  /\ pc[p] # "down"
  /\ granted[p] > 0
  /\ granted' = [granted EXCEPT ![p] = @ - 1]
  /\ IF pc[p] = "idle"
     THEN /\ Goto(p, "check")
          /\ at' = [at EXCEPT ![p] = 0]
          /\ \E deadline \in {FALSE, Deadline} :
               timer' = [timer EXCEPT ![p] = IF deadline THEN "armed"
                                             ELSE "none"]
     ELSE UNCHANGED <<pc, at, timer>>
  /\ UNCHANGED <<store, attempt, fails, outcome, cache, seen, bounds>>

(* callPromiseWithTimeout: the deadline passes while the body runs, ... *)
TimerFires(p) ==
  /\ timer[p] = "armed"
  /\ timer' = [timer EXCEPT ![p] = "fired"]
  /\ UNCHANGED <<store, pc, frame, granted, cache, seen, bounds>>

(* ... the workflow is cancelled, ... *)
PostCancel(p) ==
  /\ timer[p] = "fired"
  /\ timer' = [timer EXCEPT ![p] = "posted"]
  /\ row' = "CANCELLED"
  /\ cache' = [cache EXCEPT ![p] = TRUE]
  /\ UNCHANGED <<ops, reports, pc, frame, granted, seen, bounds>>

(* ... and once the body has settled too, the execution is a cancelled one.*)
TimedOut(p) ==
  /\ pc[p] = "settled"
  /\ timer[p] = "posted"
  /\ Finish(p)
  /\ UNCHANGED <<store, frame, granted, seen, bounds>>

(* recordWorkflowOutput and recordWorkflowError.  A refused output is a    *)
(* conflict, and awaited; a refused error leaves the handler as it is.     *)
Save(p) ==
  /\ pc[p] = "save"
  /\ SaveResult(p)
  /\ IF SaveAccepted THEN Goto(p, "complete") /\ UNCHANGED <<cache, timer>>
     ELSE IF outcome[p] = "output"
     THEN Goto(p, "await") /\ UNCHANGED <<cache, timer>>
     ELSE Finish(p)
  /\ UNCHANGED <<ops, reports, frame, granted, seen, bounds>>

Complete(p) ==
  /\ pc[p] = "complete"
  /\ reports' = reports \cup {IF outcome[p] = "output" THEN "completed"
                              ELSE "failed"}
  /\ Finish(p)
  /\ UNCHANGED <<row, ops, frame, granted, seen, bounds>>

(* Mutant: the poll does not know of cancellations. *)
AwaitResult(p) ==
  /\ pc[p] = "await"
  /\ row \in {"SUCCESS", "ERROR"}
  /\ Finish(p)
  /\ UNCHANGED <<store, frame, granted, seen, bounds>>

(* The conflict branch polls until the row is no longer pending. *)
Await(p) ==
  /\ pc[p] = "await"
  /\ row # "PENDING"
  /\ Finish(p)
  /\ UNCHANGED <<store, frame, granted, seen, bounds>>

RunWorkflow(p) == TimedOut(p) \/ Save(p) \/ Complete(p) \/ Await(p)

-----------------------------------------------------------------------------
(* The processes, their operators and the network. *)

(* recoverPendingWorkflows on a live process: a pending workflow is        *)
(* executed with isRecoveryDispatch, which the backend grants.             *)
Grant(p) == granted' = [granted EXCEPT ![p] = IF row = "PENDING" THEN @ + 1
                                              ELSE @]

Recover(p) ==
  /\ pc[p] # "down"
  /\ granted[p] < MaxGranted
  /\ row = "PENDING"
  /\ Grant(p)
  /\ UNCHANGED <<store, pc, frame, cache, timer, seen, bounds>>

Crash(p) ==
  /\ crashes < MaxCrashes
  /\ crashes' = crashes + 1
  /\ pc[p] # "down"
  /\ Goto(p, "down")
  /\ granted' = [granted EXCEPT ![p] = 0]
  /\ cache' = [cache EXCEPT ![p] = FALSE]
  /\ timer' = [timer EXCEPT ![p] = "none"]
  /\ UNCHANGED <<store, frame, seen, lost, requests>>

(* Mutant: init() recovers nothing. *)
RestartOnly(p) ==
  /\ pc[p] = "down"
  /\ Goto(p, "idle")
  /\ UNCHANGED <<store, frame, granted, cache, timer, seen, bounds>>

(* executor.init() recovers what is pending. *)
Restart(p) ==
  /\ pc[p] = "down"
  /\ Goto(p, "idle")
  /\ Grant(p)
  /\ UNCHANGED <<store, frame, cache, timer, seen, bounds>>

(* cancelWorkflow through a process, which caches it, or from outside. *)
CancelWorkflow(p) ==
  /\ requests < MaxRequests
  /\ requests' = requests + 1
  /\ row # "absent"
  /\ row' = "CANCELLED"
  /\ \/ pc[p] # "down" /\ cache' = [cache EXCEPT ![p] = TRUE]
     \/ UNCHANGED cache
  /\ UNCHANGED <<ops, reports, pc, frame, granted, timer, seen, crashes,
                 lost>>

(* resumeWorkflow of a cancelled or failed workflow, likewise. *)
ResumeWorkflow(p) ==
  /\ requests < MaxRequests
  /\ requests' = requests + 1
  /\ row \in {"CANCELLED", "ERROR"}
  /\ row' = "PENDING"
  /\ \/ pc[p] # "down" /\ cache' = [cache EXCEPT ![p] = FALSE]
     \/ UNCHANGED cache
  /\ UNCHANGED <<ops, reports, pc, frame, granted, timer, seen, crashes,
                 lost>>

Next ==
  \E p \in Procs :
    \/ StartWorkflow(p) \/ Recover(p) \/ Launch(p)
    \/ CallStep(p) \/ RunWorkflow(p)
    \/ TimerFires(p) \/ PostCancel(p)
    \/ RecordLost(p) \/ Crash(p) \/ Restart(p)
    \/ CancelWorkflow(p) \/ ResumeWorkflow(p)

Spec == Init /\ [][Next]_vars

(* A live process goes on, step functions settle, and a dead process is    *)
(* started again; callers, operators and faults owe nothing.               *)
Fairness ==
  \A p \in Procs : /\ WF_vars(Launch(p))
                   /\ WF_vars(CallStep(p))
                   /\ WF_vars(RunWorkflow(p))
                   /\ WF_vars(PostCancel(p))
                   /\ WF_vars(Restart(p))

FairSpec == Spec /\ Fairness

-----------------------------------------------------------------------------
(* Properties. *)

(* A row that says SUCCESS or ERROR says so of the recorded operations,    *)
(* whichever process wrote it last: two executions never settle the same   *)
(* workflow differently.                                                   *)
Done(i) == i \notin Guarded => ops[i].kind = "output"

RowFollowsOps ==
  /\ row = "SUCCESS" => \A i \in Ids : Done(i)
  /\ row = "ERROR" => \E i \in Ids : ~ Done(i) /\ ops[i] # None

(* However many executions race, every body is given the one recorded      *)
(* result of a step, never its own unrecorded one.                         *)
SeenIsRecorded ==
  \A p \in Procs, i \in Ids : seen[p][i] # None => seen[p][i] = ops[i]

(* An operation is written once. *)
OpsWriteOnce ==
  [][\A i \in Ids : ops[i] # None => ops'[i] = ops[i]]_vars

(* The backend is never told both ends of a workflow. *)
OneVerdict == reports # {"completed", "failed"}

(* A step's error is recorded only after its function threw as often as    *)
(* its retries allow.                                                      *)
ErrorIsExhaustion ==
  [][\A i \in Ids : ops[i] = None /\ ops'[i].kind = "error" =>
       fails[ops'[i].by] = IF i \in Retried THEN MaxAttempts ELSE 1]_vars

(* No attempt of a step begins on a row the backend says is cancelled. *)
CancelStopsAttempts ==
  [][\A p \in Procs : (pc[p] # "function" /\ pc'[p] = "function")
                        => row # "CANCELLED"]_vars

(* A cancelled row leaves CANCELLED only through a resume, however late a  *)
(* process saves its result or recovers the workflow.                      *)
CancelSticks ==
  [][(row = "CANCELLED" /\ row' # "CANCELLED") =>
       \E p \in Procs : ResumeWorkflow(p)]_vars

(* The inductive invariant behind them: what a process waits on tells      *)
(* which steps its body is past and what it is about to save.              *)
Failed == \E i \in Ids : ~ Done(i) /\ ops[i] # None
Succeeded == \A i \in Ids : Done(i)

NothingBeforeStart ==
  row = "absent" =>
    \A p \in Procs : granted[p] = 0 /\ pc[p] \notin Running

Knows(p) ==
  /\ pc[p] = "down" => granted[p] = 0
  /\ timer[p] # "none" => pc[p] \in InBody \cup {"settled"}
  /\ pc[p] \in {"try", "function"} => fails[p] < attempt[p]
  /\ pc[p] \in InBody => \A j \in 0..(at[p] - 1) : Done(j)
  /\ pc[p] = "record" => outcome[p] \in {"output", "error"}
  /\ pc[p] \in {"save", "complete"} =>
       \/ outcome[p] = "output" /\ Succeeded
       \/ outcome[p] = "error" /\ Failed

ProcessKnows == \A p \in Procs : Knows(p)

ReportsFollowOps ==
  /\ "completed" \in reports => Succeeded
  /\ "failed" \in reports => Failed

IInv ==
  /\ TypeOK
  /\ NothingBeforeStart
  /\ ProcessKnows
  /\ RowFollowsOps
  /\ SeenIsRecorded
  /\ ReportsFollowOps

(* A workflow that was started is settled at last. *)
Settles == row = "PENDING" ~> row # "PENDING"

(* The executions of a cancelled workflow end. *)
CancelEnds ==
  row = "CANCELLED" ~>
    (row # "CANCELLED" \/ \A p \in Procs : pc[p] \in {"idle", "down"})

(* A deadline that passed cancels the workflow. *)
DeadlineCancels ==
  \A p \in Procs :
    timer[p] = "fired" ~> (row = "CANCELLED" \/ pc[p] = "down")

(* The workflow as the readers of its row see it. *)
Run == INSTANCE DurableRun WITH
  status <- row,
  log <- [i \in Ids |-> ops[i].kind]

(* Every behaviour of the engine is one a durable run promises. *)
ImplementsRun == Run!RunSpec

=============================================================================
