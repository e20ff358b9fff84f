------------------------------- MODULE Remote --------------------------------
(***************************************************************************)
(* What reaches a workflow from outside: messages, events, streams, and    *)
(* the management calls, over HTTP requests that are retried.              *)
(*                                                                         *)
(*   http_client.ts             an attempt, its failure and its retry      *)
(*   http_system_database.ts    the requests of a call                     *)
(*   solidactions.ts, solidactions-executor.ts, client.ts, adminserver.ts, *)
(*   conductor/conductor.ts     who makes the calls, and what a failure is *)
(*                              to each of them                            *)
(*   testing/mock_server.ts     the handlers of the store                  *)
(*                                                                         *)
(* An actor makes the calls of its script one after the other.  A request  *)
(* the client gave up, by its timeout, may still arrive at the backend.    *)
(***************************************************************************)
EXTENDS Naturals, Sequences, FiniteSets

CONSTANTS
  Actors,
  Rows,       \* ids a workflow's row may have
  NoRow,      \* the workflow an actor outside of all workflows executes
  Bodies,     \* what messages, events and stream entries carry
  Nothing,    \* no body, no recorded result
  Waiting,    \* what is recorded of a recv that waits
  Null,       \* the result of a recv that timed out
  Fresh,      \* the ids forks are given
  Procs,      \* the processes the actors live in
  Void,       \* the recorded result of a call that returns nothing
  Thrown,     \* a recorded error
  Jobs,       \* the jobs the actors may be given, see IsJob
  MaxRetries, \* the retries of a request after its first attempt
  MaxCalls,   \* the longest script
  MaxYields,  \* bound: the values a consumer takes of a stream
  MaxFaults,  \* bound: failed attempts and crashes
  MaxWakes    \* bound: re-dispatches of a workflow that waits

Results == Rows \cup {Void, Thrown}

Kinds == {"workflow", "app", "client", "admin", "conductor"}

Calls == [op : {"send", "recv", "setEvent", "getEvent", "write", "close",
                "readStream", "sendOnce", "clientSend", "cancel", "resume",
                "fork", "globalTimeout", "return"},
          wf : Rows \cup {NoRow}, body : Bodies \cup {Nothing},
          temp : Rows \cup {NoRow}]

(* Who may make a call: an event or a stream is written, and a message     *)
(* received, in a workflow; a send with a key is refused there.  The row   *)
(* of a key is no fork's and no workflow's.                                *)
Allowed(j, a, c) ==
  /\ c.op \in {"recv", "setEvent", "write", "close", "return"}
       => j.kind[a] = "workflow"
  /\ c.op \in {"sendOnce", "readStream"} => j.kind[a] # "workflow"
  /\ c.op \in {"sendOnce", "clientSend"}
       => c.temp \in Rows \ Fresh /\ \A b \in Actors : j.me[b] # c.temp
  /\ c.op = "readStream" => c.wf \in Rows

(* The store is the platform's server, as the client's comments describe   *)
(* it, or the repository's own mock.                                       *)
IsJob(j) ==
  /\ j.store \in {"server", "mock"}
  /\ j.kind \in [Actors -> Kinds]
  /\ j.me \in [Actors -> Rows \cup {NoRow}]
  /\ j.proc \in [Actors -> Procs]
  /\ j.script \in [Actors -> Seq(Calls)]
  /\ \A a \in Actors : Len(j.script[a]) \in 1..MaxCalls
  /\ j.row \in [Rows -> {"absent", "ENQUEUED", "PENDING"}]
  /\ \A a \in Actors : j.kind[a] = "workflow" =>
       j.me[a] \in Rows \ Fresh /\ j.row[j.me[a]] # "absent"
  /\ \A w \in Fresh : j.row[w] = "absent"
  /\ \A a \in Actors : \A i \in DOMAIN j.script[a] : Allowed(j, a, j.script[a][i])
  \* the executions of a workflow run one body
  /\ \A a, b \in Actors :
       j.kind[a] = "workflow" /\ j.kind[b] = "workflow" /\ j.me[a] = j.me[b]
         => j.script[a] = j.script[b]
  \* a reader is one generator
  /\ \A a \in Actors : \A i, k \in DOMAIN j.script[a] :
       j.script[a][i].op = "readStream" /\ j.script[a][k].op = "readStream" => i = k

ASSUME RemoteAssumption ==
  /\ \A j \in Jobs : IsJob(j)
  /\ {MaxRetries, MaxCalls, MaxYields, MaxFaults, MaxWakes} \subseteq Nat
  /\ Fresh \subseteq Rows
  /\ NoRow \notin Rows /\ Nothing \notin Bodies \cup Results
  /\ Void \notin Rows /\ Thrown \notin Rows
  /\ {Nothing, Waiting, Null} \cap Nat = {}
  /\ Nothing # Waiting /\ Nothing # Null /\ Waiting # Null

VARIABLES
  job,
  \* the backend
  row,      \* the status of each row
  ops,      \* the results recorded for a workflow, by the call's place
  received, \* the result recorded for a workflow's recv, by its place
  messages, \* everything sent, in the order of arrival
  event,    \* the value of the event a workflow has set
  stream,   \* the values written to the stream of a workflow
  closed,   \* the streams that are closed
  late,     \* requests given up by the client and still under way
  \* the actors
  at,       \* the place of the current call in the script
  leg,      \* the request the call is at, or "over"
  tries,    \* failed attempts at this request
  reply,    \* how the backend answered the request, or "none"
  value,    \* what the answer carries
  todo,     \* the workflows a global timeout is still to cancel
  memo,     \* the result the call is to record
  flags,    \* the workflowCancellationMap of each process
  \* what can be observed
  got,      \* what each recv has returned: a message's place, or Null
  seen,     \* the values readStream has yielded
  ended,    \* readStream has come to the stream's end
  acked,    \* the bodies whose send has returned
  returned, \* what the management calls of a workflow have returned to it
  faults, wakes

backend == <<row, ops, received, messages, event, stream, closed>>
control == <<at, leg, tries, reply, value, todo, memo>>
seenOutside == <<got, seen, ended, acked, returned>>
vars == <<job, backend, late, control, flags, seenOutside, faults, wakes>>

Call(a) == job.script[a][at[a]]
Me(a) == job.me[a]
InWorkflow(a) == job.kind[a] = "workflow"
Has(a) == at[a] <= Len(job.script[a])

RowStatuses == {"absent", "ENQUEUED", "PENDING", "SUCCESS", "ERROR", "CANCELLED"}
Active == {"ENQUEUED", "PENDING"}

-----------------------------------------------------------------------------
(* The handlers of the store: what is so after the request r, and how it   *)
(* is answered.                                                            *)

Exists(w) == w \in Rows /\ row[w] # "absent"

(* createWorkflow: the first request creates the row. *)
CreateWorkflow(r) ==
  IF Exists(r.wf) THEN row ELSE [row EXCEPT ![r.wf] = r.status]

CancelWorkflow(r) ==
  IF Exists(r.wf) THEN [row EXCEPT ![r.wf] = "CANCELLED"] ELSE row

ResumeWorkflow(r) ==
  IF Exists(r.wf) THEN [row EXCEPT ![r.wf] = "PENDING"] ELSE row

(* recordOutput and recordError: not over a cancellation. *)
RecordResult(r) ==
  IF Exists(r.wf) /\ row[r.wf] # "CANCELLED"
  THEN [row EXCEPT ![r.wf] = r.status] ELSE row

(* forkWorkflow: the fork starts over, whatever was under its id. *)
ForkWorkflow(r) ==
  IF Exists(r.wf) THEN [row EXCEPT ![r.new] = "PENDING"] ELSE row

RowAfter(r) ==
  CASE r.kind = "create" -> CreateWorkflow(r)
    [] r.kind = "cancel" -> CancelWorkflow(r)
    [] r.kind = "resume" -> ResumeWorkflow(r)
    [] r.kind = "fork" -> ForkWorkflow(r)
    [] r.kind = "result" -> RecordResult(r)
    [] OTHER -> row

RecordOperation(r) ==
  IF Exists(r.wf) /\ ops[r.wf][r.id] = Nothing
  THEN [ops EXCEPT ![r.wf][r.id] = r.new] ELSE ops

OpsAfter(r) ==
  CASE r.kind = "putOp" -> RecordOperation(r)
    [] r.kind = "fork" /\ Exists(r.wf) ->
         [ops EXCEPT ![r.new] = [i \in DOMAIN @ |-> Nothing]]
    [] OTHER -> ops

(* Mutant: what is read stays there to be read. *)
ReceiveMessageKeeping(r) == messages

(* sendMessage and receiveMessage. *)
SendMessage(r) ==
  Append(messages, [wf |-> r.wf, body |-> r.body, consumed |-> FALSE])

Unconsumed(w) ==
  {i \in DOMAIN messages : messages[i].wf = w /\ ~ messages[i].consumed}

First(w) == CHOOSE i \in Unconsumed(w) : \A j \in Unconsumed(w) : i <= j

(* The server answers a recv it has a result of from its record; the mock  *)
(* keeps none.                                                             *)
HasResult(r) ==
  job.store = "server" /\ received[r.wf][r.id] \notin {Nothing, Waiting}

ReceiveMessage(r) ==
  IF HasResult(r) \/ Unconsumed(r.wf) = {} THEN messages
  ELSE [messages EXCEPT ![First(r.wf)].consumed = TRUE]

MessagesAfter(r) ==
  CASE r.kind = "send" -> SendMessage(r)
    [] r.kind = "take" -> ReceiveMessage(r)
    [] OTHER -> messages

(* On the server a message is recorded as the recv's result when it is     *)
(* consumed, and a recv that finds none as waiting.                        *)
RecordReceived(r) ==
  CASE job.store = "mock" \/ r.kind \notin {"take", "wait"} -> received
    [] r.kind = "take" /\ ~ HasResult(r) /\ Unconsumed(r.wf) # {} ->
         [received EXCEPT ![r.wf][r.id] = First(r.wf)]
    [] r.kind = "wait" /\ received[r.wf][r.id] = Nothing ->
         [received EXCEPT ![r.wf][r.id] = Waiting]
    [] OTHER -> received

SetEvent(r) ==
  IF r.kind = "setEvent" THEN [event EXCEPT ![r.wf] = r.body] ELSE event

WriteStream(r) ==
  IF r.kind = "write" THEN [stream EXCEPT ![r.wf] = Append(@, r.body)]
  ELSE stream

(* closeStream: nothing to close before the first value. *)
CloseStream(r) ==
  IF r.kind = "close" /\ stream[r.wf] # << >> THEN closed \cup {r.wf}
  ELSE closed

Effect(r) ==
  /\ row' = RowAfter(r)
  /\ ops' = OpsAfter(r)
  /\ received' = RecordReceived(r)
  /\ messages' = MessagesAfter(r)
  /\ event' = SetEvent(r)
  /\ stream' = WriteStream(r)
  /\ closed' = CloseStream(r)

-----------------------------------------------------------------------------
(* The answers. *)

(* Mutant: a closed stream is at its end wherever the reader is. *)
ReadAnswerClosedFirst(r) ==
  IF r.wf \in closed THEN "closed"
  ELSE IF r.id <= Len(stream[r.wf]) \/ job.store = "mock"
  THEN "found" ELSE "empty"

(* Past the end of an open stream the reader expects to be told that no    *)
(* value is found; the mock answers with null.                             *)
ReadAnswer(r) ==
  IF r.id <= Len(stream[r.wf]) THEN "found"
  ELSE IF r.wf \in closed THEN "closed"
  ELSE IF job.store = "mock" THEN "found" ELSE "empty"

(* getOperation, recordOperation, receiveMessage, getEvent, getWorkflow:   *)
(* how a request is answered.                                              *)
Answer(r) ==
  CASE r.kind = "create" -> IF Exists(r.wf) THEN "exists" ELSE "ok"
    [] r.kind \in {"cancel", "resume", "fork"} ->
         IF Exists(r.wf) THEN "ok" ELSE "missing"
    [] r.kind = "result" ->
         IF row[r.wf] = "CANCELLED" THEN "conflict" ELSE "ok"
    [] r.kind = "cancelled" ->
         IF row[r.wf] = "CANCELLED" THEN "cancelled" ELSE "ok"
    [] r.kind = "getOp" ->
         IF row[r.wf] = "CANCELLED" THEN "cancelled"
         ELSE IF ops[r.wf][r.id] = Nothing THEN "empty" ELSE "found"
    [] r.kind = "putOp" ->
         IF r.check /\ ops[r.wf][r.id] # Nothing THEN "conflict" ELSE "ok"
    [] r.kind = "take" ->
         IF HasResult(r) \/ Unconsumed(r.wf) # {} THEN "found" ELSE "empty"
    [] r.kind = "getEvent" ->
         IF event[r.wf] = Nothing THEN "empty" ELSE "found"
    [] r.kind = "read" -> ReadAnswer(r)
    [] r.kind = "status" -> IF row[r.wf] \in Active THEN "ok" ELSE "empty"
    [] r.kind = "await" -> IF row[r.wf] \in Active THEN "empty"
                           ELSE IF row[r.wf] = "SUCCESS" THEN "ok" ELSE "failed"
    [] OTHER -> "ok"

Carries(r) ==
  CASE r.kind = "getOp" -> ops[r.wf][r.id]
    [] r.kind = "take" /\ HasResult(r) -> received[r.wf][r.id]
    [] r.kind = "take" /\ ~ HasResult(r) /\ Unconsumed(r.wf) # {} ->
         First(r.wf)
    [] r.kind = "read" /\ r.id \in DOMAIN stream[r.wf] -> stream[r.wf][r.id]
    [] OTHER -> Nothing

Listed(r) ==
  IF r.kind = "list" THEN {w \in Rows : row[w] = r.status} ELSE {}

-----------------------------------------------------------------------------
(* The requests of the calls. *)

Ask(kind, wf) ==
  [kind |-> kind, wf |-> wf, id |-> 0, body |-> Nothing, status |-> "absent",
   new |-> Nothing, check |-> FALSE]

(* The row of the workflow a call creates for itself, or of the caller's.  *)
Own(a) == IF InWorkflow(a) THEN Me(a) ELSE Call(a).temp

Request(a) ==
  CASE leg[a] \in {"send", "resume", "getEvent", "status"} ->
         [Ask(leg[a], Call(a).wf) EXCEPT !.body = Call(a).body]
    [] leg[a] = "cancel" -> Ask("cancel", Call(a).wf)
    [] leg[a] \in {"cancelPending", "cancelEnqueued"} -> Ask("cancel", memo[a])
    [] leg[a] = "fork" -> [Ask("fork", Call(a).wf) EXCEPT !.new = memo[a]]
    [] leg[a] = "read" ->
         [Ask("read", Call(a).wf) EXCEPT !.id = Len(seen[a]) + 1]
    [] leg[a] = "create" ->
         [Ask("create", Call(a).temp) EXCEPT
            !.status = IF Call(a).op = "sendOnce" THEN "PENDING" ELSE "SUCCESS"]
    [] leg[a] = "await" -> Ask("await", Call(a).temp)
    [] leg[a] = "output" -> [Ask("result", Own(a)) EXCEPT !.status = "SUCCESS"]
    [] leg[a] = "error" -> [Ask("result", Own(a)) EXCEPT !.status = "ERROR"]
    [] leg[a] = "listPending" -> [Ask("list", NoRow) EXCEPT !.status = "PENDING"]
    [] leg[a] = "listEnqueued" -> [Ask("list", NoRow) EXCEPT !.status = "ENQUEUED"]
    [] leg[a] = "putOp" ->
         [Ask("putOp", Me(a)) EXCEPT !.id = at[a], !.check = TRUE,
            !.new = IF memo[a] = Nothing THEN Void ELSE memo[a]]
    [] leg[a] = "putError" ->
         [Ask("putOp", Me(a)) EXCEPT !.id = at[a], !.new = Thrown]
    [] OTHER -> [Ask(leg[a], Me(a)) EXCEPT !.id = at[a], !.body = Call(a).body]

-----------------------------------------------------------------------------
(* Going from one request to the next. *)

(* The body's management calls are recorded steps. *)
FirstLeg(a, i) ==
  IF i > Len(job.script[a]) THEN "over"
  ELSE LET op == job.script[a][i].op IN
       CASE op = "recv" -> "cancelled"
         [] op = "readStream" -> "read"
         [] op \in {"sendOnce", "clientSend"} -> "create"
         [] op = "globalTimeout" -> "listPending"
         [] op = "return" -> "output"
         [] op \in {"cancel", "resume", "fork"} /\ InWorkflow(a) -> "getOp"
         [] OTHER -> op

(* The id of a fork is chosen by who asks for it. *)
Unused == {w \in Fresh : /\ row[w] = "absent"
                         /\ \A a \in Actors : memo[a] # w
                         /\ \A l \in late : l.request.new # w}

Enter(a, i, l, m) ==
  /\ at' = [at EXCEPT ![a] = i]
  /\ leg' = [leg EXCEPT ![a] = l]
  /\ tries' = [tries EXCEPT ![a] = 0]
  /\ reply' = [reply EXCEPT ![a] = "none"]
  /\ value' = [value EXCEPT ![a] = Nothing]
  /\ IF l = "fork" THEN \E w \in Unused : memo' = [memo EXCEPT ![a] = w]
     ELSE memo' = [memo EXCEPT ![a] = m]

AskFor(a, l) == Enter(a, at[a], l, Nothing)

Proceed(a) == Enter(a, at[a] + 1, FirstLeg(a, at[a] + 1), Nothing)

Flag(a, w) == flags' = flags \cup {<<job.proc[a], w>>}
Unflag(a, w) == flags' = flags \ {<<job.proc[a], w>>}

(* The workflow's promise settles: registerRunningWorkflow forgets it. *)
Over(a) == Enter(a, Len(job.script[a]) + 1, "over", Nothing) /\ Unflag(a, Me(a))

(* The call throws.  A body does not catch it: the workflow's error is     *)
(* recorded.  Outside of a workflow the caller is told, and goes on.       *)
Fail(a) ==
  IF InWorkflow(a)
  THEN IF leg[a] = "error" THEN Over(a)
       ELSE AskFor(a, "error") /\ UNCHANGED flags
  ELSE /\ UNCHANGED flags
       /\ IF Call(a).op = "sendOnce" /\ leg[a] \in {"send", "output"}
          THEN AskFor(a, "error") ELSE Proceed(a)

-----------------------------------------------------------------------------
(* The HTTP client. *)

Asking(a) == leg[a] \notin {"over", "left"} /\ reply[a] = "none"

(* checkIfCanceled asks its own cache first. *)
KnowsCancelled(a) ==
  leg[a] = "cancelled" /\ <<job.proc[a], Me(a)>> \in flags

(* An attempt that is answered. *)
Serve(a) ==
  /\ Asking(a) /\ ~ KnowsCancelled(a)
  /\ Effect(Request(a))
  /\ reply' = [reply EXCEPT ![a] = Answer(Request(a))]
  /\ value' = [value EXCEPT ![a] = Carries(Request(a))]
  /\ todo' = [todo EXCEPT ![a] = IF leg[a] \in {"listPending", "listEnqueued"}
                                 THEN Listed(Request(a)) ELSE @]
  /\ UNCHANGED <<job, late, at, leg, tries, memo, flags, seenOutside, faults,
                 wakes>>

(* An attempt that fails is repeated, and the last one throws. *)
Retry(a) ==
  /\ faults < MaxFaults
  /\ faults' = faults + 1
  /\ IF tries[a] < MaxRetries
     THEN tries' = [tries EXCEPT ![a] = @ + 1] /\ UNCHANGED reply
     ELSE reply' = [reply EXCEPT ![a] = "threw"] /\ UNCHANGED tries
  /\ UNCHANGED <<job, at, leg, value, todo, memo, flags, seenOutside, wakes>>

(* A server error, or no connection: nothing was done. *)
Refused(a) == Asking(a) /\ ~ KnowsCancelled(a) /\ Retry(a) /\ UNCHANGED <<backend, late>>

(* The reply is lost. *)
ReplyLost(a) ==
  Asking(a) /\ ~ KnowsCancelled(a) /\ Effect(Request(a)) /\ Retry(a) /\ UNCHANGED late

(* The client's timeout aborts a request that the backend will still get. *)
Abandoned(a) ==
  /\ Asking(a) /\ ~ KnowsCancelled(a)
  /\ Retry(a)
  /\ late' = late \cup {[request |-> Request(a), nth |-> faults]}
  /\ UNCHANGED backend

Arrive(l) ==
  /\ l \in late
  /\ Effect(l.request)
  /\ late' = late \ {l}
  /\ UNCHANGED <<job, control, flags, seenOutside, faults, wakes>>

-----------------------------------------------------------------------------
(* What a call makes of the answer. *)

Answered(a, legs) ==
  /\ leg[a] \in legs /\ reply[a] # "none"
  /\ UNCHANGED <<job, backend, late, faults, wakes>>

Threw(a) == reply[a] = "threw"

Acked(a) == acked' = acked \cup {Call(a).body}

(* send; a temporary workflow records that it is done. *)
SendAnswered(a) ==
  /\ Answered(a, {"send"})
  /\ IF Threw(a) THEN Fail(a) /\ UNCHANGED acked
     ELSE /\ UNCHANGED flags
          /\ IF Call(a).op = "sendOnce"
             THEN AskFor(a, "output") /\ UNCHANGED acked
             ELSE Proceed(a) /\ Acked(a)
  /\ UNCHANGED <<todo, got, seen, ended, returned>>

(* Mutant: the temporary workflow runs whoever created its row. *)
CreateAnsweredBlindly(a) ==
  /\ Answered(a, {"create"})
  /\ IF Threw(a) THEN Fail(a) ELSE AskFor(a, "send") /\ UNCHANGED flags
  /\ UNCHANGED <<todo, seenOutside>>

(* The key's row is there: SolidActions.send waits for its result, the     *)
(* client sends all the same.                                              *)
CreateAnswered(a) ==
  /\ Answered(a, {"create"})
  /\ IF Threw(a) THEN Fail(a)
     ELSE /\ UNCHANGED flags
          /\ AskFor(a, IF Call(a).op = "sendOnce" /\ reply[a] = "exists"
                     THEN "await" ELSE "send")
  /\ UNCHANGED <<todo, seenOutside>>

(* The result of the row that somebody else executes. *)
AwaitAnswered(a) ==
  /\ Answered(a, {"await"})
  /\ IF reply[a] = "empty" THEN AskFor(a, "await") ELSE Proceed(a)
  /\ IF reply[a] = "ok" THEN Acked(a) ELSE UNCHANGED acked
  /\ UNCHANGED <<todo, flags, got, seen, ended, returned>>

(* The end of a body, or of a temporary workflow. *)
ResultAnswered(a) ==
  /\ Answered(a, {"output", "error"})
  /\ IF InWorkflow(a)
     THEN /\ UNCHANGED acked
          /\ IF leg[a] = "output" /\ Threw(a) THEN Fail(a) ELSE Over(a)
     ELSE /\ IF leg[a] = "error" THEN Proceed(a) /\ UNCHANGED <<flags, acked>>
             ELSE CASE Threw(a) -> Fail(a) /\ UNCHANGED acked
                    [] reply[a] = "conflict" ->
                         AskFor(a, "await") /\ UNCHANGED <<flags, acked>>
                    [] OTHER -> Proceed(a) /\ Acked(a) /\ UNCHANGED flags
  /\ UNCHANGED <<todo, got, seen, ended, returned>>

(* A workflow that is to wait exits its process. *)
Exit(a) ==
  /\ leg' = [b \in Actors |->
               IF b = a THEN "left"
               ELSE IF job.proc[b] = job.proc[a] THEN "over" ELSE leg[b]]
  /\ reply' = [b \in Actors |->
                 IF job.proc[b] = job.proc[a] THEN "none" ELSE reply[b]]
  /\ flags' = {f \in flags : f[1] # job.proc[a]}
  /\ UNCHANGED <<at, tries, value, memo>>

(* recv: the cancellation check, the message or the null of a timeout, the *)
(* wait.                                                                   *)
RecvAnswered(a) ==
  /\ Answered(a, {"cancelled", "take", "wait"})
  /\ IF leg[a] = "take" /\ reply[a] = "found"
     THEN got' = [got EXCEPT ![a] =
                    Append(@, [at |-> at[a], what |-> value[a]])]
     ELSE UNCHANGED got
  /\ CASE Threw(a) -> Fail(a)
       [] reply[a] = "cancelled" -> Over(a)
       [] reply[a] = "ok" /\ leg[a] = "cancelled" ->
            AskFor(a, "take") /\ UNCHANGED flags
       [] reply[a] = "found" -> Proceed(a) /\ UNCHANGED flags
       [] reply[a] = "empty" -> AskFor(a, "wait") /\ UNCHANGED flags
       [] OTHER -> Exit(a)
  /\ UNCHANGED <<todo, seen, ended, acked, returned>>

(* The flag was set in this process: WorkflowCancelledError. *)
StopsCancelled(a) ==
  /\ Asking(a) /\ KnowsCancelled(a)
  /\ Over(a)
  /\ UNCHANGED <<job, backend, late, faults, wakes, todo, seenOutside>>

(* getEvent polls until its deadline. *)
EventAnswered(a) ==
  /\ Answered(a, {"setEvent", "getEvent"})
  /\ CASE Threw(a) -> Fail(a)
       [] reply[a] = "empty" ->
            (AskFor(a, "getEvent") \/ Proceed(a)) /\ UNCHANGED flags
       [] OTHER -> Proceed(a) /\ UNCHANGED flags
  /\ UNCHANGED <<todo, seenOutside>>

(* writeStream, closeStream, and readStream: one value after the other;    *)
(* without a next one it asks whether the workflow is still active.  Who   *)
(* reads may stop after any value.                                         *)
StreamAnswered(a) ==
  /\ Answered(a, {"write", "close", "read", "status"})
  /\ IF leg[a] = "read" /\ reply[a] = "found"
     THEN seen' = [seen EXCEPT ![a] = Append(@, value[a])] ELSE UNCHANGED seen
  /\ ended' = IF reply[a] = "closed" THEN ended \cup {a} ELSE ended
  /\ IF leg[a] = "write" /\ ~ Threw(a) THEN Acked(a) ELSE UNCHANGED acked
  /\ CASE Threw(a) -> Fail(a)
       [] reply[a] = "found" ->
            /\ (Len(seen[a]) < MaxYields /\ AskFor(a, "read")) \/ Proceed(a)
            /\ UNCHANGED flags
       [] leg[a] = "status" /\ reply[a] = "ok" ->
            AskFor(a, "read") /\ UNCHANGED flags
       [] leg[a] = "read" /\ reply[a] = "empty" ->
            AskFor(a, "status") /\ UNCHANGED flags
       [] OTHER -> Proceed(a) /\ UNCHANGED flags
  /\ UNCHANGED <<todo, got, returned>>

-----------------------------------------------------------------------------
(* The management calls; in a body they are recorded (runInternalStep).    *)

Returns(a, result) == returned' = returned \cup {<<Me(a), at[a], result>>}

(* A call that was recorded is not made again. *)
GetOpAnswered(a) ==
  /\ Answered(a, {"getOp"})
  /\ IF reply[a] = "found" THEN Returns(a, value[a]) ELSE UNCHANGED returned
  /\ CASE Threw(a) -> Fail(a)
       [] reply[a] = "cancelled" -> Over(a)
       [] reply[a] = "empty" -> AskFor(a, Call(a).op) /\ UNCHANGED flags
       [] value[a] = Thrown -> Fail(a)
       [] OTHER -> Proceed(a) /\ UNCHANGED flags
  /\ UNCHANGED <<todo, got, seen, ended, acked>>

(* Mutant: what a resume has ended is still held to be cancelled. *)
KeepsFlag(a) ==
  IF leg[a] = "resume" THEN UNCHANGED flags ELSE Flag(a, Call(a).wf)

(* cancelWorkflow and resumeWorkflow keep the local cache in step. *)
KeepFlag(a) ==
  CASE leg[a] = "cancel" -> Flag(a, Call(a).wf)
    [] leg[a] = "resume" -> Unflag(a, Call(a).wf)
    [] OTHER -> UNCHANGED flags

ManageAnswered(a) ==
  /\ Answered(a, {"cancel", "resume", "fork"})
  /\ IF reply[a] = "ok"
     THEN /\ KeepFlag(a)
          /\ IF InWorkflow(a) THEN Enter(a, at[a], "putOp", memo[a])
             ELSE Proceed(a)
     ELSE /\ UNCHANGED flags
          /\ IF InWorkflow(a) THEN Enter(a, at[a], "putError", Thrown)
             ELSE Proceed(a)
  /\ UNCHANGED <<todo, seenOutside>>

(* Mutant: who is told of a conflict goes on with a result of its own. *)
PutOpAnsweredAnyway(a) ==
  /\ Answered(a, {"putOp"})
  /\ IF Threw(a)
     THEN Enter(a, at[a], "putError", Thrown) /\ UNCHANGED returned
     ELSE Proceed(a) /\ Returns(a, IF memo[a] = Nothing THEN Void ELSE memo[a])
  /\ UNCHANGED <<todo, flags, got, seen, ended, acked>>

(* The record of the result; where it fails the error is recorded, unless  *)
(* something is.                                                           *)
PutOpAnswered(a) ==
  /\ Answered(a, {"putOp"})
  /\ IF reply[a] = "ok"
     THEN Proceed(a) /\ Returns(a, IF memo[a] = Nothing THEN Void ELSE memo[a])
     ELSE /\ Enter(a, at[a], "putError", IF Threw(a) THEN Thrown ELSE Void)
          /\ UNCHANGED returned
  /\ UNCHANGED <<todo, flags, got, seen, ended, acked>>

(* The error is thrown again; a conflict means that another executes the   *)
(* workflow, whose result is then waited for.                              *)
PutErrorAnswered(a) ==
  /\ Answered(a, {"putError"})
  /\ IF memo[a] = Void /\ ~ Threw(a) THEN Over(a) ELSE Fail(a)
  /\ UNCHANGED <<todo, seenOutside>>

(* globalTimeout: what is pending, then what is enqueued, one by one. *)
Sweep(a, cancelling) ==
  \E w \in todo[a] :
    /\ todo' = [todo EXCEPT ![a] = @ \ {w}]
    /\ Enter(a, at[a], cancelling, w)

SweepPending(a) ==
  /\ Answered(a, {"listPending", "cancelPending"})
  /\ IF reply[a] = "ok" /\ leg[a] = "cancelPending"
     THEN Flag(a, memo[a]) ELSE UNCHANGED flags
  /\ IF Threw(a) THEN Proceed(a) /\ UNCHANGED todo
     ELSE IF todo[a] # {} THEN Sweep(a, "cancelPending")
     ELSE AskFor(a, "listEnqueued") /\ UNCHANGED todo
  /\ UNCHANGED seenOutside

SweepEnqueued(a) ==
  /\ Answered(a, {"listEnqueued", "cancelEnqueued"})
  /\ IF reply[a] = "ok" /\ leg[a] = "cancelEnqueued"
     THEN Flag(a, memo[a]) ELSE UNCHANGED flags
  /\ IF ~ Threw(a) /\ todo[a] # {} THEN Sweep(a, "cancelEnqueued")
     ELSE Proceed(a) /\ UNCHANGED todo
  /\ UNCHANGED seenOutside

-----------------------------------------------------------------------------
(* The rest of the world. *)

(* A queue's runner starts what is enqueued. *)
Dequeue(w) ==
  /\ row[w] = "ENQUEUED"
  /\ row' = [row EXCEPT ![w] = "PENDING"]
  /\ UNCHANGED <<job, ops, received, messages, event, stream, closed, late,
                 control, flags, seenOutside, faults, wakes>>

(* The scheduled timeout of a recv that waits: its result is null. *)
TimeOut(w, i) ==
  /\ received[w][i] = Waiting
  /\ received' = [received EXCEPT ![w][i] = Null]
  /\ UNCHANGED <<job, row, ops, messages, event, stream, closed, late, control,
                 flags, seenOutside, faults, wakes>>

(* A workflow is executed from its beginning; a temporary one that sends   *)
(* is recovered as that send.                                              *)
Recovered(a) ==
  IF InWorkflow(a) THEN FirstLeg(a, 1)
  ELSE IF /\ leg[a] \in {"create", "send", "output"}
          /\ Call(a).op = "sendOnce" /\ row[Call(a).temp] = "PENDING"
  THEN "send" ELSE "over"

(* A process dies and, one day, its workflows are executed again. *)
Crash(p) ==
  LET hit == {a \in Actors : job.proc[a] = p /\ leg[a] \notin {"over", "left"}}
  IN /\ hit # {} /\ faults < MaxFaults
     /\ faults' = faults + 1
     /\ flags' = {f \in flags : f[1] # p}
     /\ at' = [a \in Actors |-> IF a \in hit /\ InWorkflow(a) THEN 1 ELSE at[a]]
     /\ leg' = [a \in Actors |-> IF a \in hit THEN Recovered(a) ELSE leg[a]]
     /\ tries' = [a \in Actors |-> IF a \in hit THEN 0 ELSE tries[a]]
     /\ reply' = [a \in Actors |-> IF a \in hit THEN "none" ELSE reply[a]]
     /\ value' = [a \in Actors |-> IF a \in hit THEN Nothing ELSE value[a]]
     /\ memo' = [a \in Actors |-> IF a \in hit THEN Nothing ELSE memo[a]]
     /\ UNCHANGED <<job, backend, late, todo, seenOutside, wakes>>

(* The scheduler wakes a workflow that waits. *)
Wake(a) ==
  /\ leg[a] = "left" /\ wakes < MaxWakes
  /\ wakes' = wakes + 1
  /\ Enter(a, 1, FirstLeg(a, 1), Nothing)
  /\ UNCHANGED <<job, backend, late, todo, flags, seenOutside, faults>>

-----------------------------------------------------------------------------
Init ==
  /\ job \in Jobs
  /\ row = job.row
  /\ ops = [w \in Rows |-> [i \in 1..MaxCalls |-> Nothing]]
  /\ received = [w \in Rows |-> [i \in 1..MaxCalls |-> Nothing]]
  /\ messages = << >>
  /\ event = [w \in Rows |-> Nothing]
  /\ stream = [w \in Rows |-> << >>]
  /\ closed = {} /\ late = {}
  /\ at = [a \in Actors |-> 1]
  /\ leg = [a \in Actors |-> FirstLeg(a, 1)]
  /\ tries = [a \in Actors |-> 0]
  /\ reply = [a \in Actors |-> "none"]
  /\ value = [a \in Actors |-> Nothing]
  /\ todo = [a \in Actors |-> {}]
  /\ memo \in [Actors -> Fresh \cup {Nothing}]
  /\ \A a \in Actors : memo[a] # Nothing <=> leg[a] = "fork"
  /\ \A a, b \in Actors : memo[a] = memo[b] => a = b \/ memo[a] = Nothing
  /\ flags = {}
  /\ got = [a \in Actors |-> << >>]
  /\ seen = [a \in Actors |-> << >>]
  /\ ended = {} /\ acked = {} /\ returned = {}
  /\ faults = 0 /\ wakes = 0

Attempt(a) == Serve(a) \/ Refused(a) \/ ReplyLost(a) \/ Abandoned(a)

Handle(a) ==
  \/ SendAnswered(a) \/ CreateAnswered(a) \/ AwaitAnswered(a)
  \/ ResultAnswered(a) \/ RecvAnswered(a) \/ StopsCancelled(a)
  \/ EventAnswered(a) \/ StreamAnswered(a)
  \/ GetOpAnswered(a) \/ ManageAnswered(a) \/ PutOpAnswered(a)
  \/ PutErrorAnswered(a) \/ SweepPending(a) \/ SweepEnqueued(a)

Next ==
  \/ \E a \in Actors : Attempt(a) \/ Handle(a) \/ Wake(a)
  \/ \E l \in late : Arrive(l)
  \/ \E w \in Rows : Dequeue(w) \/ \E i \in 1..MaxCalls : TimeOut(w, i)
  \/ \E p \in Procs : Crash(p)

Spec == Init /\ [][Next]_vars

-----------------------------------------------------------------------------
(* Properties. *)

Copies(m) == Cardinality({i \in DOMAIN messages : messages[i].body = m})

(* What is one recv to the sender: on the server all executions of one     *)
(* call of a workflow, with the mock, which keeps no results, each         *)
(* execution of it.                                                        *)
SameRecv(a, i, b, j) ==
  IF job.store = "server"
  THEN Me(a) = Me(b) /\ got[a][i].at = got[b][j].at
  ELSE a = b /\ i = j

EarlierRecv(a, i, b, j) ==
  IF job.store = "server"
  THEN Me(a) = Me(b) /\ got[a][i].at < got[b][j].at
  ELSE a = b /\ i < j

(* However often its read is retried and its body executed, by how many at *)
(* once, a recv of the server's is given one and the same message, or the  *)
(* same timeout; no message is given to two of them; and a later recv of a *)
(* workflow is given a later message (http_system_database.ts:415,         *)
(* solidactions.ts:1835).  With the mock the last two hold of executions.  *)
ReceivedOnce ==
  \A a, b \in Actors : \A i \in DOMAIN got[a], j \in DOMAIN got[b] :
    LET x == got[a][i].what  y == got[b][j].what IN
    /\ SameRecv(a, i, b, j) => x = y
    /\ x = y /\ x # Null => SameRecv(a, i, b, j)
    /\ EarlierRecv(a, i, b, j) /\ Null \notin {x, y} => x < y

CallsOf(a) == {job.script[a][i] : i \in DOMAIN job.script[a]}
AllCalls == UNION {CallsOf(a) : a \in Actors}

Keyed == {"sendOnce", "clientSend"}
Sends == {"send"} \cup Keyed

(* What is sent as a message, and what is written to the stream of w. *)
Sent == {c.body : c \in {d \in AllCalls : d.op \in Sends}}

Written(w) ==
  {c.body : c \in {d \in UNION {CallsOf(a) : a \in {b \in Actors : Me(b) = w}} :
                     d.op = "write"}}

(* The key m is sent under is not given to another message, nor to a       *)
(* client's send, and no stream carries m.                                 *)
HasItsKey(m) ==
  \A c, d \in AllCalls :
    /\ c.op = "sendOnce" /\ c.body = m /\ d.op \in Keyed /\ d.temp = c.temp
         => d.op = "sendOnce" /\ d.body = m
    /\ c.op = "write" => c.body # m

(* One call sends m, or several under one key. *)
HasOneSender(m) ==
  \A a, b \in Actors : \A i \in DOMAIN job.script[a], j \in DOMAIN job.script[b] :
    LET c == job.script[a][i]  d == job.script[b][j] IN
    c.op \in Sends /\ d.op \in Sends /\ c.body = m /\ d.body = m =>
      \/ a = b /\ i = j
      \/ c.op = "sendOnce" /\ d.op = "sendOnce" /\ c.temp = d.temp

(* A send that returns has left its message with the backend, also one     *)
(* that only waited for the row of another execution; and while nothing    *)
(* fails, those who send under one key send one message                    *)
(* (solidactions.ts:1787).                                                 *)
SentOnce ==
  \A m \in Sent :
    /\ m \in acked /\ HasItsKey(m) => Copies(m) >= 1
    /\ faults = 0 /\ wakes = 0 /\ HasOneSender(m) => Copies(m) <= 1

(* A body closes the stream of w only after all that is written to it. *)
ClosesLast(w) ==
  \A a \in Actors : \A i \in DOMAIN job.script[a] :
    Me(a) = w /\ job.script[a][i].op = "close" =>
      \A m \in Written(w) : \E k \in 1..(i - 1) :
        job.script[a][k].op = "write" /\ job.script[a][k].body = m

(* A reader yields the stream's values in order and without a gap, and one *)
(* that comes to the end of a stream which was closed last has yielded     *)
(* every value its writer has, whatever was retried (solidactions.ts:2096).*)
(* The mock's null takes the place of a value that was not there yet, and  *)
(* no other; the server gives none.                                        *)
StreamInOrder ==
  \A a \in Actors : \A c \in CallsOf(a) : c.op = "readStream" =>
    /\ \A i \in DOMAIN seen[a] :
         \/ i \in DOMAIN stream[c.wf] /\ seen[a][i] = stream[c.wf][i]
         \/ job.store = "mock" /\ seen[a][i] = Nothing
    /\ a \in ended /\ ClosesLast(c.wf) =>
         \A m \in Written(c.wf) : \E i \in DOMAIN seen[a] :
           \/ seen[a][i] = m
           \/ /\ job.store = "mock" /\ seen[a][i] = Nothing
              /\ i \in DOMAIN stream[c.wf] /\ stream[c.wf][i] = m

(* Who else may resume or cancel w. *)
Managers(w) ==
  {a \in Actors : \E c \in CallsOf(a) :
     c.op = "globalTimeout" \/ (c.op \in {"cancel", "resume"} /\ c.wf = w)}

(* The cache of cancellations does not outlive them: while one caller      *)
(* alone manages a workflow, a flag left between its calls is of a         *)
(* workflow that is cancelled (http_system_database.ts:325,331).           *)
FlagsAgree ==
  faults = 0 =>
    \A p \in Procs, w \in Rows, a \in Actors :
      <<p, w>> \in flags /\ Managers(w) = {a} /\ reply[a] = "none"
      => row[w] = "CANCELLED"

(* However often a body is executed, and by how many at once, a management *)
(* call returns one and the same result to all of its executions, and a    *)
(* fork that is returned is there.                                         *)
OneResult ==
  \A x, y \in returned :
    /\ x[1] = y[1] /\ x[2] = y[2] => x[3] = y[3]
    /\ x[3] \in Rows => row[x[3]] # "absent"

=============================================================================
