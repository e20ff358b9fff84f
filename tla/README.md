# Verification of the SolidActions TypeScript SDK

TLA+ modules of the SDK's durable-execution core, the TLC runs that check them on small instances, and TLAPS
proofs of their main properties for every value of the constants. Paths below are relative to the SDK's `src/`
directory (`invoke/invoke.ts` is `src/src/invoke/invoke.ts` in `PROJECT.json`); `docs/` is the repository's own.

`PROJECT.json` is the index: components, runs, the source lines every definition translates (`map`), the hazards
the properties answer to, one mutant per checked property (a plausible bug the run must find), the theorems, and
the disagreements between code and documentation the model found (`findings`).

## 1. Inventory

A workflow is a JavaScript function whose durable calls are numbered in the order it makes them. Their outcomes are
operations, kept by a backend next to the workflow's status row; after a crash, a sleep or a wait for a child the
function is run again from the top and finished calls are answered from the operations. Two engines do this against
one backend.

| Component | State | Operations | Interacts with |
|---|---|---|---|
| **Invoke-path run** `solidactions.ts run`, `invoke/invoke.ts`, `run-status-lifecycle.ts`, `runtime-scope.ts` | function-id counter, vars of the dispatch, outcome of the body | create the row, read the cancellation, capture vars, step (replay or run and record), sleep, report the end, exit | its own backend requests; a dispatcher that starts one process per trigger |
| **Child workflows of that path** `invoke/child-workflow.ts`, `invoke-system-database.ts` | one handle per child | start (create + enqueue record), join (read, atomic child-wait, re-read, suspend) | parent and child trigger rows of the backend |
| **Launch-time executor** `solidactions-executor.ts` | running-workflow table, per-execution timer and call frame | internalWorkflow, runWorkflow, callStepFunction with retries, recoverPendingWorkflows, executeWorkflowId, deadline | the HTTP system database; other processes with the same executor id |
| **HTTP system database** `http_system_database.ts` | cancellation cache, running table | status, operation, await-result, cancel, resume, messages, events, streams | HTTP client |
| **HTTP client** `http_client.ts` | none between requests | request with retries, back-off, Retry-After, timeout | network |
| **Backend store** `testing/mock_server.ts` (the repository's statement of the real one) | rows, operations, triggers, snapshots, messages, events, streams | one handler per request, each atomic | all of the above |
| **Conductor connection** `conductor/conductor.ts` | websocket, ping interval and timeout, reconnection handle, shutdown flag | connect, ping, reset, reconnect, stop, request handlers | network; executor |
| **Public API and context** `solidactions.ts`, `context.ts` | async-local context (workflow, next function id, step, assigned id), options saved by `with...` scopes | run, start, cancel, resume, fork, send/recv, events, streams, steps, patches | both engines |
| **Registration** `decorators.ts`, `invoke/registry.ts` | classes, functions, instances, workflow descriptors; finalized by launch | register, decorate, alias, look up by name | executor, launcher |
| **Process entry** `launcher.ts`, `solidactions.ts`, `invoke/context-adapter.ts` | one-time flags, vars in the environment, exit code | import, self-invocation, `runIfEntrypoint`, select and run, report, exit | invoke-path run, registration |
| **Client, admin server** `client.ts`, `adminserver.ts` | none | send, events, streams; cancel, resume, fork, global timeout | HTTP system database |
| **Vars, secrets, errors, data clients, telemetry, configuration, CLI** | configuration only | pure or I/O | – |

**Hard behaviour and what correctness means there**

- *Child join.* A child may finish between the parent's read and its suspension; two joins of one body suspend and
  re-read concurrently; a wake-up may start a second process before the first has exited; the child-wait may be sent
  twice. Correct: no wake-up lost, no child started twice or waited for before it exists, an ended parent stays ended,
  a completed parent has joined.
- *Replay.* A process can die, be cancelled, or lose a reply between any two requests. Correct: a step whose output the
  body has seen is not executed again, a replay agrees with the past, an operation is written once, success is saved only
  on top of every outcome the body relies on, vars do not drift.
- *Racing executions.* Recovery may run a workflow that another process is still running. Correct: one record per step,
  every body is given that record, one verdict, the row agrees with the operations, the workflow is settled at last.
- *Cancellation and deadlines.* They arrive at any await. Correct: no attempt starts on a cancelled row, executions of a
  cancelled workflow end, a late save does not undo a cancellation, a passed deadline cancels.
- *Connection.* Close, error, refusal and ping timeout each ask for a reconnection. Correct: at most one live socket,
  every loss noticed, stop is final.

- *What comes from outside.* A request may be refused, served with its reply lost, or given up by its client and still
  arrive later; the caller retries and does not know which it was. A body may run twice at once. Correct: a `recv` has one
  result, however often it is asked for, no message is the result of two, they come in order, a send that returned has left its message, a stream is read without a gap and to its end,
  a management call of a body has one result, the process's cache of cancellations agrees with the rows.
- *Function ids.* Ids are taken by concurrent and nested calls, under scopes, around a child or a patch; a replay skips the
  bodies of recorded steps. Correct: no call is answered by another call's record.
- *Process entry.* A module may run itself, be run by the launcher, or do both by halves, with an input that is fetched
  first. Correct: one run per trigger, an exit code that tells what happened, and a restarted process that finds, by name,
  the function that had started each pending workflow.

Everything hard to test is listed line by line under `hazards` in `PROJECT.json`, with the properties that answer to
it or the reason none does yet.

## 2. Modules

| Module | Models | Role |
|---|---|---|
| `ChildJoin` | what a join promises | abstract specification |
| `ChildAwait` | parent side of child workflows | implements `ChildJoin` |
| `DurableRun` | what both engines promise of a run | abstract specification |
| `InvokeRun` | one run of the invoke path over all its dispatches | implements `DurableRun` |
| `Executor` | the launch-time engine, several processes on one workflow | implements `DurableRun` |
| `Conductor` | the connection to the conductor | – |
| `Remote` | messages, events, streams and management calls over retried requests | client, admin server, conductor and bodies against the store |
| `Registry` | what a process has registered | operators, used by `Process` |
| `Process` | the entry and exit of a process, and recovery by name | composes `Registry` with the entry points |
| `LocalContext` | the asynchronous context of a program and the ids its calls take | – |
| `MC*` | values of the constants for TLC | – |
| `*Proofs` | theorems | – |

**How actions correspond to code.** One action is one request as its caller sees it: the backend's handler and what the
caller does with the answer up to its next request or await. Handlers are atomic (the mock server runs each without an
await; the real ones are transactions, as the comments on child-wait say). What the SDK does between two awaits has no interleaving of its own
because JavaScript runs it in one piece. A request whose reply is lost is the handler alone, with the caller unmoved, so
the retry is the same action taken again; a request that fails after all its retries is `Outage`. User code is
nondeterministic where it may differ: a step's function returns or throws; a body catches the errors of the `Guarded`
calls and dies of the others; it makes its calls in order.

### ChildAwait
`triggerStatus` is the parent's trigger row, `row` the children's status rows, `enqueueOp`/`resultOp` the two operations
of a child, `live` the processes and `pc[s][c]` the request a process has in flight for a child (calls for different
children run concurrently, as promises do). `SpawnRead`, `SpawnCreate`, `SpawnRecord` are `spawnChildByName`;
`AwaitRead`, `ChildWait`, `AwaitReread` are `getResult`; `MarkWaiting`, `CompleteChild`, `RependParent` are the backend's
handlers. `Suspend`, `EndCancelled`, `EndFailed`, `EndCompleted` end a process once every call it made has settled or one
has thrown. With `Exclusive = FALSE` the dispatcher starts a process as soon as the trigger is pending, even while a
suspended one is still leaving. With `Settles = TRUE` the body joins through `Promise.allSettled` and so swallows the
suspension.

The backend's comment on completion (`testing/mock_server.ts:1157-1162`) describes a re-pend of any started or waiting
parent; the code (1278-1287) re-pends a *waiting* one only. The model follows the code, and no wake-up is lost.

### InvokeRun
`phase` is the request the process waits on, `at` the function id of the current call; `row`, `snapshot`, `ops`,
`reports`, `trigger` are the backend; `due` the sleeps whose time has passed. `seen`, `observed`, `ran`, `threw` are
history variables the properties talk about; no guard reads them. `CreateRow` to `CaptureVarsSnapshot` are the
phases before the body, `CallCancelled`, `ReplayStep`, `RunStep`, `RecordOutput`, `RecordError` a step, `ReadSleep` and
`Sleep` a durable sleep, `Save`, `Complete`, `Exit` the end. The creation's failure is swallowed (as `initRunStatusRow`
does), that of the snapshot falls back to the environment's vars, and that of the save and the completion is swallowed.

### Executor
`pc[p]` is what process `p` waits on, `granted` the executions the backend granted it that have not begun, `cache` its
cancellation cache, `timer` the deadline's race, `seen` what its bodies were given. `Check` to `Record` are
`callStepFunction`; `EndBody`, `TimedOut`, `Save`, `Complete`, `Await` the ends of `runWorkflow`. An operation carries
the process that computed it, so that two executions of a step can be told apart.

### Conductor
`readyState` of each socket, the handle `reconnectTimeout` (with "spent" for a handle still set after its timer fired or
was cleared), the sockets whose ping interval and ping timeout run. `ResetWebsocket`, `DispatchLoop`, `Ping`, `Stop` are
the methods; the other actions are the handlers and the network. A close event that comes later than the reconnection
timer (the event loop was held up for that second) is allowed `MaxLate` times and counted in `late`: after one, the
timer finds a socket that is still live, returns, and leaves the handle set, and no later loss is noticed; the
properties are conditional on `late = 0` for that reason.

### Remote
An actor (a workflow's execution, an application, a client, the admin server, the conductor) makes the calls of its
`script`; `leg[a]` is the request its current call is at. `Serve` is an attempt that is answered; `Refused`, `ReplyLost` and
`Abandoned` are attempts that fail before the backend, after it, and at the client's timeout with the request still under
way (`late`, taken up by `Arrive`); a failed attempt is repeated until `MaxRetries`. `RowAfter`, `OpsAfter`, `MessagesAfter`
and their kin are the backend's handlers, `Answer` and `Carries` their replies. The `...Answered` actions are what the
caller does with a reply: `SendAnswered`, `CreateAnswered`, `AwaitAnswered` and `ResultAnswered` the sends (with a temporary
workflow where there is a key), `RecvAnswered` and `EventAnswered` the waits, `StreamAnswered` the streams, `GetOpAnswered`
to `PutErrorAnswered` the recorded management calls of a body, `SweepPending` and `SweepEnqueued` the global timeout.
`got`, `seen`, `ended`, `acked` and `returned` are history variables.

A job names its store (`job.store`). The *mock* is `testing/mock_server.ts` as it is. The *server* is the platform's backend,
which is not in the repository; where the client describes it otherwise than the mock behaves, the server follows the
client: a `recv` (`http_system_database.ts:414-440`) is answered from its recorded result if it has one (`HasResult`); the
message it consumes is recorded under its function id (`RecordReceived`); one that finds none is recorded as `Waiting`,
until a message comes or its scheduled timeout makes the result `Null` (`TimeOut`); and a read past the end of an open
stream is told that there is no value, which `readStream` waits on (`solidactions.ts:2115`). The comment on `/wait` says that
it records null, and the one above it that a stored null is a past timeout: taken literally, no woken `recv` would find its
message, so the model keeps the two apart. All other handlers are the mock's in both.

`Crash` ends a process and `Wake` runs a waiting
workflow again from its first call.

### Registry and Process
A registration is an operator from a registry to the one it leaves, so that a sequence of statements is a fold and one that
throws half-way leaves what it had written. `Process` evaluates a program, chosen statement by statement, in one of three
modes (`job.mode`: the file itself, the launcher, the legacy `launch`). `StartRun` is `SolidActions.run` up to its first
await; `FetchInput`, `CreateRow`, `RunBody`, `Report`, `ExitRun` and `Rejected` its continuation, abstracted to the
outcome that `InvokeRun` details. `Imported`, `Defer`, `RunSelected`, `Drain` and `Misconfigured` are the launcher.
`LaunchProgram` finalizes the registry and recovers what is pending under the same version; `Resolved` is the lookup
of `executeWorkflowId`. A crash of a legacy process evaluates the same program again from its first statement.

### LocalContext
A program is a sequence of calls, each in the body of another or in the program itself; calls of one group are issued together, as by
`Promise.all`. `ctx` is the stored context of each body. Each call has its own guards (`StartWay`, `CallWay`, `StepWay`, ...
`CloseStreamWay`, `PatchWay`), which say what it is by where it is made: `IssueDurable`, `IssueInline`, `IssueOutside` or
`IssueRefused`. `copy` is the context a call was issued with, which its own body gets when it comes to run: a started
child that already runs (recovered on its own, before its parent's replay comes to the start) keeps the context it has.
The guards differ in detail: a `getResult` with a timeout takes its timer's id before its own, and asks whether it is in a
step by the truth of the step's id, so that inside a workflow's first step, whose id is 0, it is not refused but takes
an id of the step's copy of the context (`TimerTaken`). `Look`, `CheckPatch`, `Create`, `Return`, `Record`, `RecordTimeout`, `GetResult`
its continuation; `Finish`, `Crash` and `Recover` the executor. `seen` collects, over all executions, which calls' records a
call was answered with. A crash may bring another version of the program, which is what a patch is for.

## 3. Runs

| Run | Instance | Shows |
|---|---|---|
| `child_await` | 2 children, both joined, 2 processes that may overlap, 1 crash, 1 lost reply | `TypeOK`, `NotStranded`, `EnqueuedWasCreated`, `CompletedMeansJoined`, `NeverRestarted`, `RunEnds`, `ImplementsJoin` |
| `child_settled` | as above, one process, no faults, `Settles` | violation of `CompletedMeansJoined` |
| `invoke_run` | step, sleep, guarded step; 1 lost reply, 1 outage, 2 crashes, 2 cancel/resume requests, 2 vars | `SuccessIsEarned`, `ErrorHasCauseIfReliable`, `OverMeansSaved`, `SameVars`, `SeenNotRerun`, `ReplayAgrees`, `ImplementsRun`, `RunEnds` |
| `invoke_retry` | the same with 1 lost reply only | violation of `ErrorHasCause` |
| `executor_race` | 2 processes, a retried step (2 attempts) and a plain one, 1 crash | `RowFollowsOps`, `SeenIsRecorded`, `OneVerdict`, `ErrorIsExhaustion`, `Settles`, `ImplementsRun` |
| `executor_cancel` | 1 process, deadline, 1 crash, 1 lost reply, 2 cancel/resume requests, first step guarded | `CancelStopsAttempts`, `CancelEnds`, `DeadlineCancels` |
| `executor_swallow` | 1 process, 1 cancellation | violation of `ErrorIsExhaustion` |
| `executor_lost` | 1 process, 1 lost reply | violation of `Settles` |
| `conductor` | 3 sockets, 2 late close events | `OneLiveSocket`, `NoTimerWhileLive`, `LossIsNoticed`, `StopIsFinal` |
| `remote` | 10 scenarios of 3 actors in 2 processes, 7 with the server and 3 with the mock; 1 retry, 2 failed attempts or crashes, 1 re-dispatch; 3 values read of a stream | `ReceivedOnce`, `SentOnce`, `StreamInOrder`, `FlagsAgree`, `OneResult` |
| `process` | every program of 3 statements and 2 launches, 3 modes, 1 lost request, 1 crash; 2 functions, 1 class, 4 names, one of them cut at a hyphen to another | `LauncherRunsAlone`, `ExitTells`, `RecoveredAsStarted` |
| `local_context` | 9 programs of up to 10 calls, 2 of them with a later version, 2 crashes | `EachCallItsOwn` |

The four violations are real disagreements, quoted under `findings`:

- `child_settled`: the reference advises `Promise.allSettled` for joins, but a suspension is an exception in user code
  and is settled like any other; the run is reported completed before its children end.
- `invoke_retry`: the record of a step's output is retried after a lost reply, conflicts with itself, and the catch for
  the step's own failure takes the conflict for one.
- `executor_swallow`: the retry loop's catch takes a cancellation for a failed attempt, exhausts the attempts and
  records the step as failed; a resume then replays that failure.
- `executor_lost`: the same conflict with oneself on the other engine is taken to mean that another execution owns the
  workflow, and the process waits for its own result for good.

Four more findings belong to `remote`. Each is a case its property excepts, in words that a reader of the run can
take out again; TLC then finds the case:

- `ReceivedOnce`: the mock ignores the function id of a `recv` and records nothing on `/wait`, so that a retried read is
  given the next message. `SameRecv` and `EarlierRecv` ask less of the mock than of the server.
- `StreamInOrder`: past the end of an open stream the mock answers null, which `readStream` yields as a value; the value
  written there later is skipped. The property lets a null of the mock stand for a value.
- `SentOnce`, twice: the external client sends whether or not its key's row was there (`HasOneSender`), and a send whose
  reply was lost is delivered again, key or not (`faults = 0`), although both promise one message.

**Why the bounds are enough.** Each hazard needs at most two actors (two joins, two processes, old and new socket) and
one or two faults: a wake-up lost between two concurrent joins, a crash between a call and its record followed by a
crash of the replay, a resume between a cancellation and a second one. Three calls give a step before a sleep, and one
after it that is guarded; two give a retried step with a successor that can observe the first. Three sockets allow one
that is live, one closing and one closed. `MaxGranted = 2` is the one bound of `Executor` on what the code does rather
than on faults: executions granted and not begun. In `remote` two faults are what a lost reply and a late arrival of the same request,
or a crash after one of them, take; one retry tells a request that is repeated from one that is given up; a reader takes three values (`MaxYields` and one more) of a
stream of at most two, so that it meets the end, and with the mock goes on past it; each scenario
has the two actors that race and a third that observes or interferes. In `process` three statements are two registrations
that clash and a third that runs or aliases, and a second launch follows a shutdown. In `local_context` two crashes give
a replay that is itself replayed. The sets are listed in the `.cfg` files and the scenarios in `MCRemote`, `MCProcess` and
`MCLocalContext`. `CHECK_DEADLOCK FALSE` is
set everywhere because every one of these systems may really stop: an ended run, an idle executor, a stopped connection.

**Fairness.** A live process goes on and its requests are answered in the end (the event loop and the HTTP client's
timeouts), the dispatcher polls its pending triggers, wake-up times pass, created children finish, a dead executor is
restarted by its supervisor, timers fire, a closing socket closes, a handshake succeeds or times out. Weak fairness is
enough everywhere: each of these stays enabled until it is taken. The runs `remote`, `process` and `local_context` check safety only and assume no
fairness. No fairness is put on crashes, lost replies,
outages, cancellations, resumptions, recovery requests, the peer's behaviour or stop. A step's function settles
(fairness of `CallStep`): nothing in the engines bounds a function that does not.

**What the conditional properties leave out.** `ErrorHasCauseIfReliable` and `ReplayAgrees` hold while no reply is lost
and no request fails for good; `invoke_retry` shows why. `OverMeansSaved` and `SameVars` hold without a request that
failed for good: the code swallows that failure by intent. `CompletedMeansJoined` needs a body that does not settle
its joins.

- `ReceivedOnce` promises with the server that all executions of one `recv`, and every retry of its read, are given the same
  message or the same timeout, that no other `recv` is given that message, and that a later call is given a later one. With
  the mock it promises the last two, and of executions: there the read itself consumes (`testing/mock_server.ts:889`), and a
  reply that is lost, or a crash before it is used, loses the message.
- `SentOnce` is "at least once" under faults: a send whose reply is lost is delivered again. Without faults and wake-ups it is
  exactly once per key. Two of the client's sends under one key are two messages. A key that a client's `send` and `SolidActions.send` share is outside the property (`HasItsKey`):
  the client makes its row as a finished one before it sends (`client.ts:124`), and the other may take that row for a sending
  that is over.
- `StreamInOrder` promises every value to a reader that meets the closing of a stream that is closed after all that is
  written to it (`ClosesLast`). A reader that finds no next value and
  then a workflow that is no longer active stops, and may miss a value written between the two requests
  (`solidactions.ts:2115`). With the mock a null may stand in the place of a value that came after it was asked for.
- `FlagsAgree` holds for one manager without faults. Another process's resume does not clear this process's flag, and a
  request given up and served later can change the row after the flag. It speaks of the time between the manager's calls.
- `RecoveredAsStarted` speaks of functions that the program registers once, before the launch that recovers. One that is
  registered first as a step and then under a name is found by neither, and one that a later statement registers is not
  there yet; nor is a step's name found that has a hyphen, which the lookup cuts.
- `EachCallItsOwn` is checked, and proved, for plain programs (`IsPlain`), which avoid two constructs for which it is false. A scope opened inside a
  workflow that was itself started under a scope leaves its id assigned (`solidactions.ts:1560` saves the new value as
  the old one), so that a later child takes it; and a patch issued together with another call reads an id that the other
  takes while the backend is asked (`solidactions.ts:2624`). Both are listed as hazards. A plain program also
  gives no two workflows the same id and asks a patch before what is made on it. Programs that change their version at a
  crash, which is what a patch is for, are checked and not part of the proof.

## 4. Proofs

TLAPS checks, for any sets of children and processes, any number of calls, attempts, crashes, lost replies and requests:

- **ChildAwait** (`ChildAwaitProofs`): `Invariance`, hence `TypeCorrect`, `NeverStranded`, `RecordedWasCreated`,
  `CompletedJoined`; `StaysEnded`, `RunsOnce`; and `Refinement`, that the protocol implements `ChildJoin`. `NotStranded`
  is not inductive: a started trigger must be known to have a process that has not suspended (`StartedHasHolder`), a
  waiting one a child that is pending (`WaitingHasWaker`), a child's row and result operation must agree
  (`ResolvedMeansOver`), and a call must know what its earlier requests established (`CallsKnow`).
- **InvokeRun** (`InvokeRunProofs`): `Invariance`, hence `TypeCorrect`, `SuccessEarned`; `WrittenOnce`,
  `StaysCancelled`, `NotRunAgain`; and `Refinement` of `DurableRun`. The invariant says that a process past call `i` has
  its outcome behind it (`ProcessKnows`), and that a seen output is recorded. The refinement needs in addition that
  sleeps are recorded in order (`SleepsInOrder`), because the abstract log writes a sleep when it comes due, which is
  later than its record.
- **Executor** (`ExecutorProofs`): `Invariance`, hence `TypeCorrect`, `RowTrue`, `SeenTrue`, `OneEnd`; `WrittenOnce`,
  `StaysCancelled`, `AttemptsStop`; and `Refinement`. The invariant (`Knows`) says for each process which steps are past and
  what it may save; what lets it survive the steps of the *other* processes is that a settled step never unsettles
  (`GrownKeeps`, `OtherKnows`). `ErrorExhausted` states `ErrorIsExhaustion` for behaviours in which the row is never cancelled,
  because `executor_swallow` refutes it otherwise: `EInv` adds what the counters of attempts and failures mean (`Counted`),
  which they do only between the read that sets them and the record. `ErrorExhaustedAlone` draws the conclusion for
  every instance without deadline and operators, where nobody can cancel; `executor_race` is one.

- **Conductor** (`ConductorProofs`): `Invariance`, hence `TypeCorrect`, `OneAlive`, `TimerOver`; and `Stopped`, which is
  `StopIsFinal` and needs no fairness. `NoTimerWhileLive` is not inductive: the sockets before a live one must be known
  to be closed (`LiveIsAlone`), or the close event of an old one would arm the timer, and the pings to be the current
  connection's (`PingIsCurrent`).

- **InvokeRun's verdict** (the second part of `InvokeRunProofs`): `InvarianceJ`, hence `VarsStay`,
  `OverSaved`, `ErrorCaused`; and `ReplayAgreed`. The first invariant does not say why a run ends as it does. `JInv` adds,
  while no request failed for good (`Steady`), that the row exists once a dispatch is past its start, that what a process
  took as vars is what the row keeps, and that an ended dispatch has written the row; and, while in addition no reply was
  lost, that whoever is about to report a failure has met one (`Causes`). The conditions are part of the invariant
  because a fault falsifies the rest for good.
- **Process** (`ProcessProofs`): `Invariance`, hence `LauncherAlone` and `ExitTold`. `LauncherRunsAlone` says nothing of the
  steps before and after: that no run has begun while the vars are whole (`BeforeRuns`), that every run leaves the marks the
  launcher looks for (`Marked`), and that a launcher with a run of its own is past the module's program (`LauncherIsOver`).
  `ExitTells` needs the row as the only run left it (`OnlyRun`) and the codes that are possible before the exit
  (`Undecided`, `Flags`). The second part is about the registry. `RecoveredRight` compares what one launch of a program finds
  with what another one, before or after it in the program's text, has written; so its invariant (`RInv`) has the whole course
  of the program in it: a sequence of registries (`Tape`), one after each statement, which every process follows, and of which
  every pending row names one (`Told`). Each registry is `Sound` (a class's name leads to the class), extends the
  earlier ones (`Extends`: no class name and no function's name is given anew), and knows a function in one of three ways
  (`Fresh`, `Unnamed`, `Named`), by the statements before it. The lemmas up to `AfterKeeps` prove that of one statement, operator
  by operator of `Registry`, and `FoundAgain` that two launches of one tape agree.

- **Remote** (`RemoteProofs`, `RemoteDeliveryProofs`), for any number of actors, scripts, faults, late
  requests, crashes and wake-ups.
  - `ReceivedInOrder` has two arguments, one for each store, which share `Invariance`: messages of one workflow are consumed from
    the oldest on (`InTurn`, which needs that a set of naturals has a least element). With the mock, a message read but not
    yet given to a body is newer than all that body has and in nobody else's hand (`HandIsNew`). With the server
    (`ResultsRecorded`), what a body has or is being given is the result recorded for that place of its workflow
    (`GotResults`), a result once recorded stands, and the recorded messages are consumed ones, each other's unlike and in the
    order of the places (`RecordsFit`). That order is the difficult part: a read may arrive late, after its body has gone
    on. It does no harm because no body comes to a call, and no request is made for it, before the `recv`s that come earlier have
    their results (`Reached`, of bodies by `InTime` and of requests by `TakeFits`), and one that has its result takes nothing.
  - `InvarianceK`, hence `SameResult`. `OneResult` follows from every returned result being the recorded one (`Known`), which
    survives because a record is written once and a fork clears only fresh ids; so a request, also one that arrives late,
    must name only what it may touch (`RequestFits`), and an actor must be where its script allows (`Fits`, `Learned`).
  - `FlagsAreTrue`. Before the first fault nothing is late, forks under way have ids of their own (`ForksApart`), and the manager of a workflow
    is at most one call away from making its flag true (`FlagsTrue`). The condition is part of the invariant (`FInv`), since a fault
    falsifies the rest for good.
  - `StreamsInOrder`. What is closed has all its writer's values (`Whole`), which a closing request, also a late one, had to know when
    it was made (`WriteFits`) because its body had passed its writes (`WritesDone`); a reader has a prefix (`ReadSoFar`).
  - `MessagesSentOnce`. A key with a success has its message (`KeyServed`), whoever recorded it, so that who finds the success may
    return (`SendKnown`); and, before the first fault and wake-up, whoever has not sent yet finds no copy (`SentBefore`).
- **LocalContext** (`LocalContextProofs`): `IdsFollowTheText`, hence `EachCallGetsItsOwn`, for any plain programs of any length
  and nesting, any interleaving of their calls and any number of crashes. `EachCallItsOwn` speaks of the answers a call has
  had; that they are its own follows from *where* everything is kept. The invariant (`IInv`) says that every row has the id, and
  every record and every call under way the function ids, that the text of the program gives to its author (`RightId`,
  `RightKey`). The text gives a call as its first id its `Offset`: what the calls before it in its body take, in order. The
  counter of a running workflow is the sum over the calls issued so far (`FlowRight`), calls are issued in the order of the
  text (`InOrder`), and different calls of one body have disjoint ranges of ids (`IdsApart`), so two authors never meet at
  one place. Around that are what the context of a body may hold (`FlowCtx`: an assigned id only while a scope
  is open in it; `ScopeRight`: such a scope found none before it and takes it away when it ends), that a patch answered yes (`PatchRight`), and
  that what runs outside of the workflows runs in the first process only (`FirstLife`). Ids are counted with the cardinality of sets of earlier calls, which
  takes no recursion over bodies and groups.
  The theorems have two hypotheses. `PlainPrograms`: every program is plain and a restarted process has the same one;
  the run's programs are plain, and all but the two with versions keep theirs. `NamesApart`: the ids a program names are neither
  ids derived from a parent's (`parent-n`) nor random UUIDs, which are modelled as values of a form of their own.

All theorems rest only on the `ASSUME`s of the modules, which TLC evaluates in the runs, and on the hypotheses they state. Most say
that numbers are naturals and subsets are subsets. Three say what a program is: `IsProgram` of `LocalContext` (a call is in
the body of an earlier one, and only a start or a send names an id), `IsJob` of `Remote` (which calls an actor of a kind may make, one reader per
actor, ids of forks that are new, keys that are no workflow's id) and `IsStatement` of `Process` (a decorator's function has
a name, as a method has, and only a legacy program launches).

Model-checked only:

- The liveness properties (`RunEnds` of both modules, `Settles`, `CancelEnds`, `DeadlineCancels`, `LossIsNoticed`): the prover has no
  rule for fairness here.
- `EachCallItsOwn` for programs that change their version between two executions: the function ids of one version then meet
  the records of another, and what they have in common depends on which calls each version leaves out.

## 5. Assumptions about what is outside `src/`

- The dispatcher re-dispatches a trigger whose process died and starts a pending one; the scheduler wakes a sleeping run
  when its time has passed; both are actions marked external in the map.
- A recovery dispatch of a PENDING row is granted. The mock server answers "do not execute" for any existing row,
  so the comment in `executeWorkflowId` and its flag are the reference here.
- `cancelWorkflow` has no guard in the mock server and is modelled so (it also hits a settled row). `resumeWorkflow` has
  none either; it is modelled for cancelled and failed rows, which is what the reference documents.
- When a run may be resumed, and that it is dispatched again, is the platform's part too: `InvokeRun`'s `ResumeWorkflow` waits
  until the dispatch is over (trigger over, no process) and the row CANCELLED or ERROR; the mock's handler (725-733) writes
  the row whatever it is and dispatches nothing.
- A child's run is completed once: `CompleteChild` asks for a PENDING row. The mock's completion handlers
  (`testing/mock_server.ts:1177-1213` and its infrastructure failure) do not look; tests call them once. `NeverRestarted` and
  the agreement of row and operation rest on it.
- The platform's server, as `Remote` has it, keeps the result of a `recv` and tells a reader of the end of an open stream
  apart from a value, as the client's code and comments say. The mock does neither; both stores are modelled, and where
  they differ there is a finding. What the backend answers to a patch is taken
  from its use in `checkPatch`.
- A workflow that is executed has a row, under an id that no fork is given (ids of forks are new UUIDs), and a recorded
  result that is empty or an error is not an id (`RemoteAssumption`).
- A queue's runner moves an enqueued row to pending; the scheduler wakes a workflow that waits in `recv`, and ends its wait
  by the timeout it was given, if it still waits.
- `SOLIDACTIONS_DEBUG_WORKFLOW_ID` is not set, and in `LocalContext` neither is `SOLIDACTIONS_RUN_ID`.
- The websocket library reports a terminated socket's close before the next reconnection timer, unless the event loop
  is blocked (`late`).

## 6. Not modelled, and the plan

Left out for good: logging, tracing and exporters; argument parsing, the code generator and the codemod (one pass over a
syntax tree, without state); data clients (stateless request builders); wording of errors and formats; the parsing of
HTTP requests in the admin server; debug mode. They make up the larger part of the lines the map does not cover.

Still to come, most important first:

1. `HttpClient`: which failures are retried as it is written (4xx are mapped to exceptions that are not
   `SolidActionsHttpError` and are told apart by words of their message, against `http_client.ts:80`), Retry-After, back-off
   and its cap, and the length of the "~2 minute window" of `http_system_database.ts:46`. `Remote` has the retries, not
   the delays.
2. Pure operators against a reference definition: resolution of vars, secret redaction and re-hydration.
3. A composition of `InvokeRun` with `ChildAwait`: a parent that sleeps and joins, under cancellation.
4. The launch-time engine's result and status, which are read by two requests, as an actor of `Remote`; a timeout of zero;
   forks from a later step.
5. Proofs: `EachCallItsOwn` across the versions of a patched program; that a second execution of a workflow which `Process` recovers is one that `Executor` describes.

A fork takes the assigned id of an open scope (`solidactions-executor.ts:874`), on its first execution only, as a replay is
answered from its record. `LocalContext`'s `ManageWay` leaves that out: a scope of the model is around one call, so that there is
no later call in it to find the id taken.

Actions the models do not have yet: queues, their limits and deduplication; dispatch of event receivers; clock skew
between a process and the scheduler; a resident process that runs several triggers.

## 7. Running

    tlc -workers 2 -config ChildAwait.cfg MCChildAwait.tla     # any run of PROJECT.json
    tlapm ExecutorProofs.tla                                   # any *Proofs module

The longest runs are `child_await` (about half a million states, two minutes), `remote` (a million and a half, two minutes), `process` (about two million,
one minute) and `local_context` (a third of a million, half a minute); the others take seconds.
