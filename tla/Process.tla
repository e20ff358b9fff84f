------------------------------- MODULE Process -------------------------------
(***************************************************************************)
(* A process that evaluates a program of the SDK, in one of three modes:   *)
(*                                                                         *)
(*   direct    `node dist/<file>.js`: the program invokes itself, with     *)
(*             SolidActions.run or runIfEntrypoint (solidactions.ts)       *)
(*   launcher  launcher.ts imports the program and runs the workflow that  *)
(*             WORKFLOW_ID selects                                         *)
(*   legacy    the program launches, starts workflows and shuts down, and  *)
(*             a process that follows a crashed one recovers its rows      *)
(*             (solidactions-executor.ts)                                  *)
(*                                                                         *)
(* SOLIDACTIONS_DEBUG_WORKFLOW_ID is not set.  What a body does, InvokeRun *)
(* and Executor tell; here it has an outcome.                              *)
(***************************************************************************)
EXTENDS Registry, Sequences

CONSTANTS
  Jobs,          \* how the process is started, see IsJob
  Statements,    \* what a program may consist of, by mode
  Ws,            \* the workflows a legacy program may start
  Sender,        \* what a send outside of a workflow executes
  MaxStatements, \* bound: the length of the program, without its launches
  MaxLaunches,   \* bound: its launches
  MaxLost,       \* bound: requests that fail after every retry
  MaxCrashes     \* bound: crashes of a legacy process

Modes == {"direct", "launcher", "legacy"}

(* entryEnv: WORKFLOW_ENTRY_FILE and WORKFLOW_ID are set.  manifest: the   *)
(* names of the vars are listed.  oneShot: SOLIDACTIONS_RUN_ID is set.     *)
IsJob(j) ==
  /\ j.mode \in Modes
  /\ j.input \in {"inline", "malformed", "url"}
  /\ {j.manifest, j.oneShot, j.entryEnv} \subseteq BOOLEAN
  /\ j.id \in Names

(* The statements that register a function, which a decorator names by its *)
(* property key.                                                           *)
Registering == {"registerWorkflow", "workflow", "step", "registerStep"}

IsStatement(s) ==
  /\ s.op \in Registering =>
       /\ s.fn \in Fns /\ {s.name, s.cls} \subseteq Names \cup {NoName}
       /\ s.ctor \in Ctors \cup {NoCtor}
  /\ s.op \in {"workflow", "step"} => NameOf(s.fn, s.name) # NoName
  /\ s.op = "defineWorkflow" => s.fn \in Fns /\ s.name \in Names \cup {NoName}
  /\ s.op \in {"className", "instance"} => s.ctor \in Ctors
  /\ s.op = "className" => s.cls \in Names
  /\ s.op = "instance" => s.name \in Names

ASSUME ProcessAssumption ==
  /\ \A j \in Jobs : IsJob(j)
  /\ DOMAIN Statements = Modes
  /\ \A m \in Modes : \A s \in Statements[m] :
       /\ IsStatement(s)
       /\ s.op \in {"launch", "shutdown"} => m = "legacy"
  /\ Sender \notin Fns \cup {NoFn}
  /\ {MaxStatements, MaxLaunches, MaxLost, MaxCrashes} \subseteq Nat

VARIABLES
  job,
  program, \* the statements that were evaluated, the same in every process
  pc,      \* how many of them this process has evaluated
  reg,     \* its registry
  main,    \* "misconfigured", "evaluating", "imported", "waiting",
           \* "launched" or "exited"
  runs,    \* the one-shot runs it has started
  executed, skipped, installed, \* the flags of the entrypoint guard
  started, \* __startedOneShotRun
  env,     \* the vars in process.env: "full" or "scrubbed"
  code,    \* process.exitCode
  exitBy,  \* the run that has exited the process, or 0
  row,     \* the status of the row of SOLIDACTIONS_RUN_ID
  rows,    \* the rows of the workflows a legacy program has started
  running, \* the function each of them is executed by in this process
  lost, crashes

oneShot == <<runs, executed, skipped, installed, started, env, row, lost>>
legacy == <<rows, running, crashes>>
vars == <<job, program, pc, reg, main, oneShot, code, exitBy, legacy>>

NoRow == [status |-> "absent", kind |-> "none", name |-> NoName,
          cls |-> Blank, version |-> {}, fn |-> NoFn]

Alive == main # "exited"

-----------------------------------------------------------------------------
(* The exit of the process. *)

(* __shouldFailLoudOnExit and __failLoudExitCode: over no other failure.   *)
FailLoud(c) ==
  IF installed /\ job.oneShot /\ ~ executed /\ skipped /\ c = 0 THEN 1 ELSE c

ExitWith(c, by) ==
  /\ main' = "exited"
  /\ code' = FailLoud(c)
  /\ exitBy' = by

-----------------------------------------------------------------------------
(* SolidActions.run. *)

(* oneShotContextAdapter: the vars that are there, which a manifest takes  *)
(* out of the environment.                                                 *)
Adapted(run) ==
  [run EXCEPT !.phase = "creating",
              !.vars = IF env = "full" THEN "full" ELSE "empty"]

Scrubbed == IF job.manifest THEN "scrubbed" ELSE env

(* Up to its first await a run is one step of its caller's. *)
Begun(f, by) ==
  LET run == [fn |-> f, by |-> by, phase |-> "fetching", vars |-> "none",
              result |-> "none"]
  IN CASE job.input = "inline" -> Adapted(run)
       [] job.input = "malformed" -> [run EXCEPT !.phase = "rejected"]
       [] OTHER -> run

(* Mutant: the mark is made by the context adapter's continuation. *)
StartRunLate(f, by) ==
  /\ runs' = Append(runs, Begun(f, by))
  /\ started' = (job.input = "inline")
  /\ executed' = TRUE
  /\ env' = IF job.input = "inline" THEN Scrubbed ELSE env

(* Mutant: only runIfEntrypoint marks that a workflow was executed. *)
StartRunUnmarked(f, by) ==
  /\ runs' = Append(runs, Begun(f, by))
  /\ started' = TRUE
  /\ UNCHANGED executed
  /\ env' = IF job.input = "inline" THEN Scrubbed ELSE env

StartRun(f, by) ==
  /\ runs' = Append(runs, Begun(f, by))
  /\ started' = TRUE
  /\ executed' = TRUE
  /\ env' = IF job.input = "inline" THEN Scrubbed ELSE env

Runs(i, phase) == Alive /\ i \in DOMAIN runs /\ runs[i].phase = phase

(* The input is fetched from WORKFLOW_INPUT_URL, or it is not. *)
FetchInput(i) ==
  /\ Runs(i, "fetching")
  /\ \/ /\ runs' = [runs EXCEPT ![i] = Adapted(@)]
        /\ env' = Scrubbed
        /\ UNCHANGED lost
     \/ /\ lost < MaxLost /\ lost' = lost + 1
        /\ runs' = [runs EXCEPT ![i].phase = "rejected"]
        /\ UNCHANGED env
  /\ UNCHANGED <<job, program, pc, reg, main, executed, skipped, installed,
                 started, code, exitBy, row, legacy>>

(* The promise of run is rejected: nobody awaits a module's own run, the   *)
(* launcher awaits its.                                                    *)
Rejected(i) ==
  /\ Runs(i, "rejected")
  /\ ExitWith(IF runs[i].by = "launcher" THEN 2 ELSE 1, 0)
  /\ UNCHANGED <<job, program, pc, reg, oneShot, legacy>>

Saves(status) ==
  \/ row' = status /\ UNCHANGED lost
  \/ lost < MaxLost /\ lost' = lost + 1 /\ UNCHANGED row

(* initRunStatusRow: a row that is there stays; a failure is swallowed. *)
CreateRow(i) ==
  /\ Runs(i, "creating")
  /\ Saves(IF row = "absent" THEN "PENDING" ELSE row)
  /\ runs' = [runs EXCEPT ![i].phase = "running"]
  /\ UNCHANGED <<job, program, pc, reg, main, executed, skipped, installed,
                 started, env, code, exitBy, legacy>>

Outcomes(f) ==
  IF f = NoFn THEN {"failed"} ELSE {"completed", "failed", "suspended", "cancelled"}

(* The body ends, or waits for what nothing will settle. *)
RunBody(i) ==
  /\ Runs(i, "running")
  /\ \/ \E o \in Outcomes(runs[i].fn) :
          runs' = [runs EXCEPT ![i].phase = "reporting", ![i].result = o]
     \/ /\ runs[i].fn # NoFn
        /\ runs' = [runs EXCEPT ![i].phase = "stuck"]
  /\ UNCHANGED <<job, program, pc, reg, main, executed, skipped, installed,
                 started, env, code, exitBy, row, lost, legacy>>

StatusFor == [completed |-> "SUCCESS", failed |-> "ERROR", cancelled |-> "CANCELLED"]

(* reportTerminalState: into a row that is there, not over a cancellation. *)
Report(i) ==
  /\ Runs(i, "reporting")
  /\ IF runs[i].result = "suspended" \/ row \in {"absent", "CANCELLED"}
     THEN UNCHANGED <<row, lost>>
     ELSE Saves(StatusFor[runs[i].result])
  /\ runs' = [runs EXCEPT ![i].phase = "reported"]
  /\ UNCHANGED <<job, program, pc, reg, main, executed, skipped, installed,
                 started, env, code, exitBy, legacy>>

(* exitCodeFor. *)
ExitCodeFor(result) == IF result \in {"completed", "suspended"} THEN 0 ELSE 1

(* process.exit, whatever else the process is at. *)
ExitRun(i) ==
  /\ Runs(i, "reported")
  /\ ExitWith(ExitCodeFor(runs[i].result), i)
  /\ UNCHANGED <<job, program, pc, reg, oneShot, legacy>>

-----------------------------------------------------------------------------
(* launch, and the recovery of what was pending. *)

(* computeAppVersion: the source of the workflows. *)
Version(r) == {f \in Fns : r.fns[f].type = "workflow"}

(* executeWorkflowId: the function by the row's names; a temporary         *)
(* workflow by the step's name, as far as its first hyphen.                *)
Resolved(r, w) ==
  LET f == IF w.name = NoName THEN NoFn
           ELSE ByName(r, w.cls, IF w.kind = "step" THEN FirstPart[w.name] ELSE w.name)
  IN IF r.named[w.cls] = NoCtor THEN NoFn
     ELSE IF w.kind = "send" THEN Sender
     ELSE IF f # NoFn /\ r.fns[f].type = w.kind THEN f ELSE NoFn

(* recoverPendingWorkflows: of this version; what cannot be is left alone. *)
Recover(r) ==
  running' = [w \in Ws |->
                IF rows[w].status = "PENDING" /\ rows[w].version = Version(r)
                   /\ running[w] = NoFn
                THEN Resolved(r, rows[w]) ELSE running[w]]

LaunchProgram ==
  LET r == Launch(reg)
  IN /\ reg' = r
     /\ IF r.threw THEN ExitWith(1, 0) /\ UNCHANGED running
        ELSE /\ main' = "launched" /\ Recover(r)
             /\ UNCHANGED <<code, exitBy>>

(* shutdown waits for the workflows that run. *)
ShutdownProgram ==
  /\ \A w \in Ws : running[w] = NoFn
  /\ reg' = Shutdown(reg)
  /\ main' = "evaluating"
  /\ UNCHANGED <<code, exitBy, running>>

-----------------------------------------------------------------------------
(* The statements. *)

(* runIfEntrypoint: under the launcher no module is the entrypoint. *)
RunIfEntrypoint(s) ==
  /\ installed' = TRUE
  /\ IF s.entry /\ job.mode = "direct"
     THEN StartRun(s.fn, "module") /\ UNCHANGED skipped
     ELSE skipped' = TRUE /\ UNCHANGED <<runs, executed, started, env>>
  /\ UNCHANGED <<row, lost, reg, main, code, exitBy>>

SelfInvoke(s) ==
  /\ StartRun(s.fn, "module")
  /\ UNCHANGED <<skipped, installed, row, lost, reg, main, code, exitBy>>

(* A registration; what throws ends the process, and an import rejects. *)
Register(s) ==
  /\ reg' = Evaluated(reg, s)
  /\ IF reg'.threw
     THEN ExitWith(IF job.mode = "launcher" THEN 2 ELSE 1, 0)
     ELSE UNCHANGED <<main, code, exitBy>>
  /\ UNCHANGED oneShot

SetExitCode ==
  code' = 3 /\ UNCHANGED <<oneShot, reg, main, exitBy>>

Perform(s) ==
  CASE s.op = "runIfEntrypoint" -> RunIfEntrypoint(s) /\ UNCHANGED running
    [] s.op = "run" -> SelfInvoke(s) /\ UNCHANGED running
    [] s.op = "exitCode" -> SetExitCode /\ UNCHANGED running
    [] s.op = "launch" -> LaunchProgram /\ UNCHANGED oneShot
    [] s.op = "shutdown" -> ShutdownProgram /\ UNCHANGED oneShot
    [] OTHER -> Register(s) /\ UNCHANGED running

Count(ops) == Cardinality({i \in DOMAIN program : program[i].op \in ops})

(* The statements a program may go on with. *)
MayFollow(s) ==
  IF s.op = "launch" THEN Count({"launch"}) < MaxLaunches
  ELSE s.op = "shutdown" \/ Len(program) - Count({"launch", "shutdown"}) < MaxStatements

(* The next statement, which a process after a crash meets again; a module *)
(* may await between its statements, so that its runs go on.  A class is    *)
(* named where it is defined, before the launch that knows it.             *)
Statement ==
  /\ main \in {"evaluating", "launched"}
  /\ \E s \in Statements[job.mode] :
       /\ IF pc < Len(program) THEN s = program[pc + 1] /\ UNCHANGED program
          ELSE MayFollow(s) /\ program' = Append(program, s)
       /\ s.op = "launch" => main = "evaluating"
       /\ s.op = "shutdown" => main = "launched"
       /\ s.op = "className" => reg.named[FnName[s.ctor]] # s.ctor
       /\ Perform(s)
  /\ pc' = pc + 1
  /\ UNCHANGED <<job, rows, crashes>>

(* The end of the module. *)
Imported ==
  /\ main = "evaluating" /\ job.mode # "legacy"
  /\ main' = IF job.mode = "launcher" THEN "imported" ELSE "waiting"
  /\ UNCHANGED <<job, program, pc, reg, oneShot, code, exitBy, legacy>>

-----------------------------------------------------------------------------
(* launcher.ts. *)

(* The environment is not set up: there is nothing to import. *)
Misconfigured ==
  /\ main = "misconfigured"
  /\ ExitWith(2, 0)
  /\ UNCHANGED <<job, program, pc, reg, oneShot, legacy>>

(* selectWorkflow: the only one, or the one of that id, or a failure. *)
Selected(r) ==
  LET all == {n \in Names : r.wfs[n] # NoFn}
  IN IF Cardinality(all) = 1 THEN r.wfs[CHOOSE n \in all : TRUE] ELSE r.wfs[job.id]

(* The module has run itself: the launcher leaves it alone. *)
Defer ==
  /\ main = "imported" /\ started
  /\ main' = "waiting"
  /\ UNCHANGED <<job, program, pc, reg, oneShot, code, exitBy, legacy>>

RunSelected ==
  /\ main = "imported" /\ ~ started
  /\ main' = "waiting"
  /\ StartRun(Selected(reg), "launcher")
  /\ UNCHANGED <<job, program, pc, reg, skipped, installed, row, lost, code,
                 exitBy, legacy>>

(* Nothing is left to wait for. *)
Drain ==
  /\ main = "waiting"
  /\ \A i \in DOMAIN runs : runs[i].phase = "stuck"
  /\ ExitWith(code, 0)
  /\ UNCHANGED <<job, program, pc, reg, oneShot, legacy>>

-----------------------------------------------------------------------------
(* The workflows of a legacy program. *)

Begin(w, kind, f, names) ==
  /\ main = "launched"
  /\ rows[w] = NoRow
  /\ rows' = [rows EXCEPT ![w] =
       [status |-> "PENDING", kind |-> kind, name |-> names.name,
        cls |-> names.cls, version |-> Version(reg), fn |-> f]]
  /\ running' = [running EXCEPT ![w] = f]
  /\ UNCHANGED <<job, program, pc, reg, main, oneShot, code, exitBy, crashes>>

(* A workflow, or a decorated step that is called outside of one. *)
StartFunction(w, f) ==
  /\ reg.fns[f].type \in {"workflow", "step"}
  /\ Begin(w, reg.fns[f].type, f, FullName(reg, f))

(* A send outside of a workflow: a temporary workflow of no class. *)
StartSend(w) == Begin(w, "send", Sender, [name |-> NoName, cls |-> Blank])

FinishWorkflow(w) ==
  /\ main = "launched" /\ running[w] # NoFn
  /\ rows' = [rows EXCEPT ![w].status = "SUCCESS"]
  /\ running' = [running EXCEPT ![w] = NoFn]
  /\ UNCHANGED <<job, program, pc, reg, main, oneShot, code, exitBy, crashes>>

(* A new process evaluates the program from its beginning. *)
Crash ==
  /\ job.mode = "legacy" /\ crashes < MaxCrashes
  /\ main = "launched"
  /\ crashes' = crashes + 1
  /\ pc' = 0 /\ reg' = EmptyRegistry /\ main' = "evaluating"
  /\ running' = [w \in Ws |-> NoFn]
  /\ UNCHANGED <<job, program, oneShot, code, exitBy, rows>>

-----------------------------------------------------------------------------
Init ==
  /\ job \in Jobs
  /\ program = << >> /\ pc = 0
  /\ reg = EmptyRegistry
  /\ main = IF job.mode = "launcher" /\ ~ job.entryEnv
            THEN "misconfigured" ELSE "evaluating"
  /\ runs = << >>
  /\ executed = FALSE /\ skipped = FALSE /\ installed = FALSE
  /\ started = FALSE
  /\ env = "full"
  /\ code = 0 /\ exitBy = 0
  /\ row = "absent"
  /\ rows = [w \in Ws |-> NoRow]
  /\ running = [w \in Ws |-> NoFn]
  /\ lost = 0 /\ crashes = 0

Execute(i) ==
  FetchInput(i) \/ Rejected(i) \/ CreateRow(i) \/ RunBody(i) \/ Report(i) \/ ExitRun(i)

Next ==
  \/ Statement \/ Imported
  \/ Misconfigured \/ Defer \/ RunSelected \/ Drain
  \/ \E i \in DOMAIN runs : Execute(i)
  \/ \E w \in Ws : (\E f \in Fns : StartFunction(w, f)) \/ StartSend(w)
                   \/ FinishWorkflow(w)
  \/ Crash

Spec == Init /\ [][Next]_vars

-----------------------------------------------------------------------------
(* Properties. *)

(* The launcher never adds a run to one the module has started itself, not *)
(* even to one that still fetches its input, so that no trigger is         *)
(* executed twice at once, and the run the launcher starts finds the vars  *)
(* that a manifest takes out of the environment (launcher.ts:192-196).     *)
LauncherRunsAlone ==
  \A i \in DOMAIN runs : runs[i].by = "launcher" =>
    Len(runs) = 1 /\ runs[i].vars # "empty"

(* The exit code of a process tells what became of its run, and, no        *)
(* request being lost, so does the row, also where the launcher could not  *)
(* select a workflow; a dispatched process that only skipped what it was   *)
(* asked to run does not exit as if it had run it, and a module's own exit *)
(* code is not lowered (solidactions.ts:318-341, launcher.ts:213-216).     *)
ExitTells ==
  main = "exited" =>
    /\ exitBy # 0 =>
         /\ code = ExitCodeFor(runs[exitBy].result)
         /\ Len(runs) = 1 /\ lost = 0 =>
              row = IF runs[exitBy].result = "suspended" THEN "PENDING"
                    ELSE StatusFor[runs[exitBy].result]
    /\ exitBy = 0 /\ code = 0 => ~ (job.oneShot /\ skipped /\ runs = << >>)
    /\ exitBy = 0 /\ code = 1 /\ job.mode = "launcher" =>
         \E i \in DOMAIN runs : runs[i].phase = "rejected"

(* A function that the program registers once, in this process too. *)
RegisteredOnce(f) ==
  \E i \in 1..pc : \A k \in DOMAIN program :
    program[k].op \in Registering /\ program[k].fn = f <=> k = i

(* What can be found again: a function of one registration, whose name is  *)
(* not cut, and a send where a function outside of all classes is known.   *)
Recoverable(w) ==
  /\ rows[w].status = "PENDING" /\ rows[w].version = Version(reg)
  /\ CASE rows[w].kind = "send" -> reg.named[Blank] # NoCtor
       [] OTHER -> /\ RegisteredOnce(rows[w].fn)
                   /\ rows[w].kind = "step" => FirstPart[rows[w].name] = rows[w].name

(* A launched program executes each workflow that was pending under its    *)
(* version, with the function that had started it, whatever the program    *)
(* has registered, aliased and finalized, and however often it was         *)
(* launched (solidactions-executor.ts:935-936).                            *)
RecoveredAsStarted ==
  main = "launched" =>
    \A w \in Ws : Recoverable(w) => running[w] = rows[w].fn

=============================================================================
