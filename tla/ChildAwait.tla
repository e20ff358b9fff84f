----------------------------- MODULE ChildAwait -----------------------------
(***************************************************************************)
(* The parent side of child workflows on the invoke path: one parent run,  *)
(* the sessions (one-shot processes) that execute and replay its body, the *)
(* operations recorded under the parent, and the trigger status a sleeping *)
(* parent is woken through.                                                *)
(*                                                                         *)
(*   invoke/child-workflow.ts         the calls a body makes               *)
(*   invoke/invoke-system-database.ts the requests those calls send        *)
(*   testing/mock_server.ts           the backend's handlers               *)
(*   invoke/invoke.ts, run-status-lifecycle.ts   how a session ends        *)
(*                                                                         *)
(* A body starts every child of Children and joins those of Awaited, in    *)
(* any order and with any number of calls in flight.  The enqueue and      *)
(* result function ids of a child are deterministic, so a child stands for *)
(* both: enqueueOp[c] and resultOp[c] are the two operations.              *)
(***************************************************************************)
EXTENDS Naturals

CONSTANTS
  Children,    \* the children the body starts
  Awaited,     \* those it joins with getResult()
  Sessions,    \* processes that may execute the parent's body
  Exclusive,   \* the dispatcher starts a session only when none is live
  Settles,     \* the body joins with Promise.allSettled
  MaxCrashes,  \* bound: sessions that die
  MaxLost      \* bound: child-wait replies lost and retried

ASSUME ChildAwaitAssumption ==
  /\ Awaited \subseteq Children
  /\ Exclusive \in BOOLEAN
  /\ Settles \in BOOLEAN
  /\ MaxCrashes \in Nat
  /\ MaxLost \in Nat

VARIABLES
  triggerStatus,  \* the parent's trigger, which the dispatcher watches
  cancelled,      \* the parent's run row is CANCELLED
  row,            \* the child runs' rows
  enqueueOp,      \* the children whose enqueue operation is recorded
  resultOp,       \* the result operation of each child, keyed to the parent
  live,           \* the sessions whose process is running
  pc,             \* where each session is in its calls for each child
  crashes, lost   \* counters behind the two bounds

vars == <<triggerStatus, cancelled, row, enqueueOp, resultOp, live, pc,
          crashes, lost>>

(* The statuses of a trigger: "started" stands for every in-flight status  *)
(* (started, running, dispatched), "pending" for pending and queued.       *)
Active == {"pending", "started"}
Terminal == {"completed", "failed", "cancelled"}
TriggerStatuses == Active \cup {"waiting"} \cup Terminal

(* The calls of a session for one child: spawnChildByName is at "create"   *)
(* or "record" between its requests and returns a "handle"; getResult is   *)
(* at "wait" or "reread" between its own and ends with the result, or      *)
(* throws SuspensionRequired, a cancellation or a conflict.                *)
CallStates == {"none", "create", "record", "handle", "wait", "reread",
               "output", "error", "suspended", "cancelled", "conflict"}

Joined == {"output", "error"}

TypeOK ==
  /\ triggerStatus \in TriggerStatuses
  /\ cancelled \in BOOLEAN
  /\ row \in [Children -> {"absent", "PENDING", "SUCCESS", "ERROR"}]
  /\ enqueueOp \subseteq Children
  /\ resultOp \in [Children -> {"none", "output", "error"}]
  /\ live \subseteq Sessions
  /\ pc \in [Sessions -> [Children -> CallStates]]
  /\ crashes \in 0..MaxCrashes
  /\ lost \in 0..MaxLost

Init ==
  /\ triggerStatus = "pending"
  /\ cancelled = FALSE
  /\ row = [c \in Children |-> "absent"]
  /\ enqueueOp = {}
  /\ resultOp = [c \in Children |-> "none"]
  /\ live = {}
  /\ pc = [s \in Sessions |-> [c \in Children |-> "none"]]
  /\ crashes = 0
  /\ lost = 0

-----------------------------------------------------------------------------
(* The backend's handlers. *)

(* Mutant: an existing row is overwritten. *)
CreateWorkflowOverwrites(c) == row' = [row EXCEPT ![c] = "PENDING"]

(* createWorkflow: an existing row is left alone. *)
CreateWorkflow(c) ==
  row' = IF row[c] = "absent" THEN [row EXCEPT ![c] = "PENDING"] ELSE row

(* The child-wait compare-and-set: the awaited operation is resolved, or   *)
(* an active trigger moves to waiting in the same step.                    *)
Resolved(c) == resultOp[c] # "none"

(* Mutant: the compare-and-set without its compare. *)
MarkWaitingBlindly(c) ==
  triggerStatus' = IF triggerStatus \in Active THEN "waiting"
                   ELSE triggerStatus

MarkWaiting(c) ==
  triggerStatus' = IF ~ Resolved(c) /\ triggerStatus \in Active
                   THEN "waiting" ELSE triggerStatus

(* Mutants: the wake-up forgotten, given to any parent, and written as the *)
(* status of a row.                                                        *)
RependNever == triggerStatus' = triggerStatus

RependAny == triggerStatus' = "pending"

RependAsRow ==
  triggerStatus' = IF triggerStatus = "waiting" THEN "PENDING"
                   ELSE triggerStatus

(* rependParentTrigger: only a waiting parent is woken. *)
RependParent ==
  triggerStatus' = IF triggerStatus = "waiting" THEN "pending"
                   ELSE triggerStatus

(* The trigger of a run that ended; a terminal trigger is never moved. *)
EndTrigger(status) ==
  triggerStatus' = IF triggerStatus \in Terminal THEN triggerStatus
                   ELSE status

-----------------------------------------------------------------------------
(* The calls a session makes. *)

Step(s, c, from, to) ==
  /\ s \in live
  /\ pc[s][c] = from
  /\ pc' = [pc EXCEPT ![s][c] = to]

Clear(s) == pc' = [pc EXCEPT ![s] = [c \in Children |-> "none"]]

(* Mutant: the enqueue is recorded before the child is created. *)
SpawnReadRecordFirst(s, c) ==
  /\ Step(s, c, "none", IF c \in enqueueOp THEN "handle" ELSE "record")
  /\ UNCHANGED <<triggerStatus, cancelled, row, enqueueOp, resultOp, live,
                 crashes, lost>>

(* spawnChildByName: the guarded read of the enqueue operation. *)
SpawnRead(s, c) ==
  /\ Step(s, c, "none",
          CASE cancelled -> "cancelled"
            [] ~ cancelled /\ c \in enqueueOp -> "handle"
            [] OTHER -> "create")
  /\ UNCHANGED <<triggerStatus, cancelled, row, enqueueOp, resultOp, live,
                 crashes, lost>>

(* spawnChildByName: POST /runs/status for the child. *)
SpawnCreate(s, c) ==
  /\ Step(s, c, "create", "record")
  /\ CreateWorkflow(c)
  /\ UNCHANGED <<triggerStatus, cancelled, enqueueOp, resultOp, live,
                 crashes, lost>>

(* spawnChildByName: record the enqueue operation; the backend answers 409 *)
(* when another session recorded it first.                                 *)
SpawnRecord(s, c) ==
  /\ Step(s, c, "record", IF c \in enqueueOp THEN "conflict" ELSE "handle")
  /\ enqueueOp' = enqueueOp \cup {c}
  /\ UNCHANGED <<triggerStatus, cancelled, row, resultOp, live, crashes,
                 lost>>

(* Mutant: a missing operation is taken for a null output. *)
AwaitReadNull(s, c) ==
  /\ c \in Awaited
  /\ Step(s, c, "handle", IF Resolved(c) THEN resultOp[c] ELSE "output")
  /\ UNCHANGED <<triggerStatus, cancelled, row, enqueueOp, resultOp, live,
                 crashes, lost>>

(* getResult: the first read of the result operation. *)
AwaitRead(s, c) ==
  /\ c \in Awaited
  /\ Step(s, c, "handle",
          CASE cancelled -> "cancelled"
            [] ~ cancelled /\ Resolved(c) -> resultOp[c]
            [] OTHER -> "wait")
  /\ UNCHANGED <<triggerStatus, cancelled, row, enqueueOp, resultOp, live,
                 crashes, lost>>

(* getResult: POST child-wait and its answer. *)
ChildWait(s, c) ==
  /\ Step(s, c, "wait", IF Resolved(c) THEN "reread" ELSE "suspended")
  /\ MarkWaiting(c)
  /\ UNCHANGED <<cancelled, row, enqueueOp, resultOp, live, crashes, lost>>

(* The child-wait request is served and its reply lost: the HTTP client    *)
(* sends it again.                                                         *)
ChildWaitLost(s, c) ==
  /\ lost < MaxLost
  /\ lost' = lost + 1
  /\ Step(s, c, "wait", "wait")
  /\ MarkWaiting(c)
  /\ UNCHANGED <<cancelled, row, enqueueOp, resultOp, live, crashes>>

(* getResult: the one re-read after ready:true; an operation that is still *)
(* not visible falls through to the suspension.                            *)
AwaitReread(s, c) ==
  /\ Step(s, c, "reread",
          CASE cancelled -> "cancelled"
            [] ~ cancelled /\ Resolved(c) -> resultOp[c]
            [] OTHER -> "suspended")
  /\ UNCHANGED <<triggerStatus, cancelled, row, enqueueOp, resultOp, live,
                 crashes, lost>>

Call(s, c) ==
  \/ SpawnRead(s, c) \/ SpawnCreate(s, c) \/ SpawnRecord(s, c)
  \/ AwaitRead(s, c) \/ ChildWait(s, c) \/ AwaitReread(s, c)

-----------------------------------------------------------------------------
(* How a session ends: invoke() maps what the body returned or threw, and  *)
(* reportTerminalState tells the backend.                                  *)

Leave(s) ==
  /\ s \in live
  /\ live' = live \ {s}
  /\ Clear(s)
  /\ UNCHANGED <<cancelled, row, enqueueOp, resultOp, crashes, lost>>

(* A thrown SuspensionRequired: the process exits and reports nothing. *)
Suspend(s) ==
  /\ ~ Settles
  /\ \E c \in Children : pc[s][c] = "suspended"
  /\ Leave(s)
  /\ UNCHANGED triggerStatus

(* A thrown cancellation. *)
EndCancelled(s) ==
  /\ \E c \in Children : pc[s][c] = "cancelled"
  /\ Leave(s)
  /\ EndTrigger("cancelled")

(* A child's failure rethrown by getResult, or a conflict: the body may    *)
(* let it escape.                                                          *)
EndFailed(s) ==
  /\ \E c \in Children : pc[s][c] \in {"error", "conflict"}
  /\ Leave(s)
  /\ EndTrigger("failed")

(* The body returns once its calls did.  A body that joins with            *)
(* Promise.allSettled takes a thrown suspension for a settled call.        *)
Returned(s, c) ==
  IF c \in Awaited
  THEN pc[s][c] \in (IF Settles THEN Joined \cup {"suspended"} ELSE Joined)
  ELSE pc[s][c] = "handle"

EndCompleted(s) ==
  /\ \A c \in Children : Returned(s, c)
  /\ Leave(s)
  /\ EndTrigger("completed")

-----------------------------------------------------------------------------
(* The rest of the world. *)

(* The dispatcher starts a process for a pending trigger. *)
Dispatch(s) ==
  /\ triggerStatus = "pending"
  /\ s \notin live
  /\ Exclusive => live = {}
  /\ triggerStatus' = "started"
  /\ live' = live \cup {s}
  /\ Clear(s)
  /\ UNCHANGED <<cancelled, row, enqueueOp, resultOp, crashes, lost>>

(* completeChild and failChildFromInfra: the child's row, the operation    *)
(* under the parent, and the wake-up, in one request.  The handlers do not *)
(* look at the row: that a child is completed once is the platform's part. *)
CompleteChild(c, result) ==
  /\ row[c] = "PENDING"
  /\ row' = [row EXCEPT ![c] = IF result = "output" THEN "SUCCESS"
                               ELSE "ERROR"]
  /\ resultOp' = [resultOp EXCEPT ![c] = result]
  /\ RependParent
  /\ UNCHANGED <<cancelled, enqueueOp, live, pc, crashes, lost>>

ChildFinishes(c) == \E result \in Joined : CompleteChild(c, result)

(* An operator cancels the parent run: the row is the only thing written. *)
CancelWorkflow ==
  /\ ~ cancelled
  /\ cancelled' = TRUE
  /\ UNCHANGED <<triggerStatus, row, enqueueOp, resultOp, live, pc, crashes,
                 lost>>

(* A session's process dies between two requests; a trigger it held        *)
(* in flight is dispatched again.                                          *)
Crash(s) ==
  /\ crashes < MaxCrashes
  /\ crashes' = crashes + 1
  /\ s \in live
  /\ live' = live \ {s}
  /\ Clear(s)
  /\ triggerStatus' = IF triggerStatus = "started" THEN "pending"
                      ELSE triggerStatus
  /\ UNCHANGED <<cancelled, row, enqueueOp, resultOp, lost>>

(* The infrastructure fails the run while its process may still be alive. *)
FailTrigger ==
  /\ triggerStatus \notin Terminal
  /\ triggerStatus' = "failed"
  /\ UNCHANGED <<cancelled, row, enqueueOp, resultOp, live, pc, crashes,
                 lost>>

EndSession(s) ==
  Suspend(s) \/ EndCancelled(s) \/ EndFailed(s) \/ EndCompleted(s)

Next ==
  \/ \E s \in Sessions, c \in Children : Call(s, c) \/ ChildWaitLost(s, c)
  \/ \E s \in Sessions : EndSession(s) \/ Dispatch(s) \/ Crash(s)
  \/ \E c \in Children : ChildFinishes(c)
  \/ CancelWorkflow
  \/ FailTrigger

Spec == Init /\ [][Next]_vars

(* A running process keeps going, the dispatcher keeps polling and every   *)
(* created child finishes; crashes, lost replies, cancellation and         *)
(* infrastructure failures are never owed.                                 *)
Fairness ==
  /\ \A s \in Sessions :
       /\ \A c \in Children : WF_vars(Call(s, c))
       /\ WF_vars(EndSession(s))
       /\ WF_vars(Dispatch(s))
  /\ \A c \in Children : WF_vars(ChildFinishes(c))

FairSpec == Spec /\ Fairness

-----------------------------------------------------------------------------
(* Properties. *)

(* No lost wake-up: a run that is not over has a process, or is about to   *)
(* get one, or waits while a child that exists has yet to finish and will  *)
(* wake it.  (The race child-workflow.ts:99-105 describes.)                *)
NotStranded ==
  \/ triggerStatus \in Terminal
  \/ live # {}
  \/ triggerStatus = "pending"
  \/ triggerStatus = "waiting" /\ \E c \in Children : row[c] = "PENDING"

(* An enqueue operation is recorded only for a child that was created, so  *)
(* no replay waits for a child nobody started (child-workflow.ts:171-176). *)
EnqueuedWasCreated == \A c \in enqueueOp : row[c] # "absent"

(* Replays never run a child twice: a row that exists is never set back,   *)
(* however often a crashed parent posts the create again.                  *)
NeverRestarted ==
  [][\A c \in Children :
       /\ row[c] # "absent" => row'[c] # "absent"
       /\ row[c] \in {"SUCCESS", "ERROR"} => row'[c] = row[c]]_vars

(* A trigger that ended is never set back to waiting or pending, by a late *)
(* child-wait of a live process or by a late child completion.             *)
NoResurrection ==
  [][(triggerStatus \in Terminal) => triggerStatus' = triggerStatus]_vars

(* A run is reported completed only when every child it joins has a result.*)
CompletedMeansJoined ==
  triggerStatus = "completed" => \A c \in Awaited : Resolved(c)

(* The inductive invariant behind NotStranded, EnqueuedWasCreated and      *)
(* CompletedMeansJoined: who may still wake a waiting parent, who holds a  *)
(* started trigger, and what each call already knows about its child.      *)
WaitingHasWaker ==
  triggerStatus = "waiting" => \E c \in Children : row[c] = "PENDING"

StartedHasHolder ==
  triggerStatus = "started" =>
    \E s \in live : \A c \in Children : pc[s][c] # "suspended"

ResolvedMeansOver ==
  \A c \in Children : Resolved(c) <=> row[c] \in {"SUCCESS", "ERROR"}

CallsKnow ==
  \A s \in Sessions, c \in Children :
    /\ pc[s][c] \notin {"none", "create", "cancelled"} => row[c] # "absent"
    /\ pc[s][c] \in Joined \cup {"reread"} => Resolved(c)

IInv ==
  /\ TypeOK
  /\ WaitingHasWaker
  /\ StartedHasHolder
  /\ ResolvedMeansOver
  /\ CallsKnow
  /\ EnqueuedWasCreated
  /\ ~ Settles => CompletedMeansJoined

(* Every run ends. *)
RunEnds == <>(triggerStatus \in Terminal)

(* The join as its callers see it. *)
Join == INSTANCE ChildJoin WITH
  parent <- IF triggerStatus \in Terminal THEN "ended"
            ELSE IF triggerStatus = "waiting" THEN "blocked" ELSE "runnable",
  started <- {c \in Children : row[c] # "absent"},
  finished <- {c \in Children : Resolved(c)}

(* Every behaviour of the protocol is one the join promises. *)
ImplementsJoin == Join!JoinSpec

=============================================================================
