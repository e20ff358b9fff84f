---------------------------- MODULE LocalContext ----------------------------
(* The context a legacy program carries along its asynchronous calls
   (context.ts) and the calls of solidactions.ts that read it: which function
   ids a call takes, when, and which workflow id a workflow is started under.
   A call is answered from the log by its workflow and its id alone, so the
   replay of a deterministic program rests on every call taking the ids it
   took before, though the bodies of recorded steps are not run again and
   other calls are under way.

   A program is a sequence of calls, numbered in the order of the text.  A
   call runs in the body of another (a step's function, a started workflow's)
   or in the program itself, outside of every workflow.  The calls of one
   group of one body are issued together, as by Promise.all; a group is
   awaited before the next.  Programs catch what is thrown.  A crash may bring
   the next version of the program: the same calls, of which some were absent
   before or are made no more, on one answer of a patch or the other.      *)
EXTENDS Naturals, FiniteSets, Sequences, Functions

CONSTANTS
  Programs,     \* the programs to run: sequences of calls
  Versions,     \* by program: what it may be after a restart
  Ids,          \* the workflow ids a program names
  NoId,         \* no workflow id (undefined)
  MaxCrashes    \* how often the process dies

ASSUME CrashesAssumption == MaxCrashes \in Nat /\ NoId \notin Ids

Main == 0
Starts == {"start", "call"}          \* startWorkflow, a registered workflow
Patches == {"patch", "deprecatePatch"}
TwoIds == {"recv", "getEvent", "getResult", "call"}
NoIds == {"respond", "retrieve"} \cup Patches
Operations == Starts \cup Patches \cup TwoIds \cup NoIds \cup
  {"step", "runStep", "now", "status", "manage", "sleep", "send", "setEvent",
   "writeStream", "closeStream", "absent"}

(* A call names its operation, the call it is in, its group, a workflow id (a
   start's option, a send's key), the id of a scope around it, and the answers
   of earlier patches it is made on.                                       *)
IsCall(p, c) ==
  /\ p[c] = [op |-> p[c].op, body |-> p[c].body, group |-> p[c].group,
             id |-> p[c].id, scope |-> p[c].scope, on |-> p[c].on]
  /\ p[c].op \in Operations /\ p[c].group \in Nat
  /\ p[c].body \in DOMAIN p \cup {Main} /\ p[c].body < c
  /\ p[c].id \in Ids \cup {NoId} /\ (p[c].id # NoId => p[c].op \in {"start", "send"})
  /\ p[c].scope \in Ids \cup {NoId}
  /\ \A o \in p[c].on : o.answer \in BOOLEAN /\ o.patch \in DOMAIN p
IsProgram(p) ==
  /\ IsFiniteSet(DOMAIN p) /\ DOMAIN p \subseteq Nat \ {Main}
  /\ \A c \in DOMAIN p : IsCall(p, c)

ASSUME ProgramsAssumption ==
  \A p \in Programs : IsProgram(p) /\ Versions[p] \subseteq Programs

VARIABLES
  program,   \* the program that runs
  ctx,       \* by body: the stored context of its calls
  copy,      \* by call: the context it was issued with, for its own body
  home,      \* by call: the body whose context its own body runs in
  at,        \* by call: where the call is
  key,       \* by call: its workflow and its function ids, in order
  had,       \* by call: whether its scope found the option set
  seen,      \* by call: the calls whose records and rows answered it, ever
  patched,   \* by call: what its patch answered
  live,      \* the calls whose workflow runs in this process
  ops,       \* the log: the call that recorded, by workflow and id
  rows,      \* the workflows: the call that created each, and whether over
  crashes

vars == <<program, ctx, copy, home, at, key, had, seen, patched, live, ops, rows,
          crashes>>

Calls == DOMAIN program
Bodies == Calls \cup {Main}
Op(c) == program[c].op
Body(c) == program[c].body          \* the call whose body c is in, or Main
InBody(b) == {c \in Calls : Body(c) = b}

(* ------------------------------ the context ----------------------------- *)

(* SolidActionsLocalCtx: workflowId, curWFFunctionId, curStepFunctionId (as a
   set of at most one), idAssignedForNextWorkflow and whether the object has
   that property of its own.                                               *)
NoCtx == [wf |-> NoId, next |-> 0, step |-> {}, assigned |-> NoId, own |-> FALSE]

(* #withTopContext where no context is stored: the options become one. *)
TopCtx(id) == [NoCtx EXCEPT !.assigned = id, !.own = TRUE]

(* runInStepContext and runWithParentContext copy the context they are called
   in; #getRecoveryContext starts a new one.                               *)
StepCtx(x, n) == [x EXCEPT !.step = {n}]
WorkflowCtx(x, wf) == [x EXCEPT !.wf = wf, !.next = 0]
Taking(x, n) == [x EXCEPT !.next = @ + n]

IsWithinWorkflow(x) == x.wf # NoId

(* The test of context.ts's own, by which functionIDGetIncrement refuses: the
   truth of the step's id, which the first step's is not.  Mutant: the test
   of every guard.                                                         *)
IsTrueStep(x) == x.step \ {0} # {}

IsInStep(x) == x.step # {}
IsInWorkflow(x) == IsWithinWorkflow(x) /\ ~IsInStep(x)

(* Where a call is made: its body's context, and its own scope over it. *)
Stored(c) == home[Body(c)]
NoneStored(c) == ctx[Stored(c)] = NoCtx
Scoped(c) == program[c].scope # NoId
Around(c) ==
  IF ~Scoped(c) THEN ctx[Stored(c)]
  ELSE [ctx[Stored(c)] EXCEPT !.assigned = program[c].scope, !.own = TRUE]

(* getNextWFID: the id the call names, else the one assigned, which is then
   used up.  A send names its workflow by its key and leaves the assigned
   id alone.                                                               *)
Assigns(c) == program[c].id = NoId /\ Op(c) # "send"
NextWFID(c, x) == IF Assigns(c) THEN x.assigned ELSE program[c].id
UsedUp(c, x) == IF Assigns(c) THEN [x EXCEPT !.assigned = NoId] ELSE x

(* ------------------------------- the calls ------------------------------ *)

(* The function ids a call takes, before it awaits anything: its own first,
   but a getResult's after its timer's; a patch has its id from the answer. *)
IdsTaken(c) == IF Op(c) \in NoIds THEN 0 ELSE IF Op(c) \in TwoIds THEN 2 ELSE 1
IdsOf(c, n) ==
  CASE Op(c) = "getResult" -> <<n + 1, n>>
    [] Op(c) \in Patches -> <<n>>
    [] OTHER -> [i \in 1..IdsTaken(c) |-> n + i - 1]

(* The guards of each call, on where it is made: it goes by the log, runs in
   the context it is in, is a workflow or a temporary workflow of its own, or
   is refused.                                                             *)
From(x, workflow, step, outside) ==
  IF IsInWorkflow(x) THEN workflow ELSE IF IsWithinWorkflow(x) THEN step ELSE outside

StartWay(x) == From(x, "durable", "refused", "started")
CallWay(x) == From(x, "durable", "refused", "started")
StepWay(x) == From(x, "durable", "inline", "alone")
RunStepWay(c, x) ==
  From(x, "durable", "inline", IF NextWFID(c, x) = NoId THEN "inline" ELSE "refused")
NowWay(x) == From(x, "durable", "inline", "inline")
StatusWay(x) == From(x, "durable", "inline", "inline")
ManageWay(x) == From(x, "durable", "inline", "inline")  \* runInternalStep
SleepWay(x) == From(x, "durable", "inline", "inline")
RetrieveWay(x) == From(x, "durable", "refused", "inline")

(* With a timeout: a step has no id for the timer, but the first step, taken
   for none, has one from its copy of the context.                         *)
ResultWay(x) == From(x, "durable", IF IsTrueStep(x) THEN "refused" ELSE "inline", "inline")
TimerTaken(c, x) ==
  IF Op(c) = "getResult" /\ IsWithinWorkflow(x) THEN Taking(x, 1) ELSE x

(* A key names a temporary workflow, which a workflow has none of. *)
Keyed(c) == Op(c) = "send" /\ program[c].id # NoId
SendWay(c, x) == From(x, IF Keyed(c) THEN "refused" ELSE "durable", "refused", "alone")
RecvWay(x) == From(x, "durable", "refused", "refused")
SetEventWay(x) == From(x, "durable", "refused", "refused")
GetEventWay(x) == From(x, "durable", "refused", "inline")
RespondWay(x) == From(x, "durable", "refused", "refused")
WriteStreamWay(x) == From(x, "durable", "inline", "refused")
CloseStreamWay(x) == From(x, "durable", "refused", "refused")
PatchWay(x) == From(x, "durable", "refused", "refused")

WayOf(c, x) ==
  [start |-> StartWay(x), call |-> CallWay(x), step |-> StepWay(x),
   runStep |-> RunStepWay(c, x), now |-> NowWay(x), status |-> StatusWay(x),
   manage |-> ManageWay(x), sleep |-> SleepWay(x), getResult |-> ResultWay(x),
   retrieve |-> RetrieveWay(x), send |-> SendWay(c, x), recv |-> RecvWay(x),
   setEvent |-> SetEventWay(x), getEvent |-> GetEventWay(x), respond |-> RespondWay(x),
   writeStream |-> WriteStreamWay(x), closeStream |-> CloseStreamWay(x),
   patch |-> PatchWay(x), deprecatePatch |-> PatchWay(x)][Op(c)]

(* A fresh random UUID, told by the call and the life of the process. *)
RandomId(c) == <<"random", c, crashes>>
ChildId(x) == <<x.wf, x.next>>

(* The answer of a patch a call is made on; an absent patch is FALSE. *)
Skips(c) ==
  \/ Op(c) = "absent"
  \/ program[c].on # {} /\ \A o \in program[c].on : patched[o.patch] # o.answer

Settled == {"done", "refused"}
Owner(wf) == rows[wf].by
Own(c) == {wf \in DOMAIN rows : Owner(wf) = c}

(* ------------------------------- the order ------------------------------ *)

Running(b) == b # Main => (b \in live /\ Op(b) \in Starts) \/ at[b] = "body"
Before(c, d) == Body(c) = Body(d) /\ program[c].group < program[d].group
Ready(c) ==
  /\ at[c] = "todo" /\ Running(Body(c))
  /\ \A d \in InBody(Body(c)) :
       /\ Before(d, c) => at[d] \in Settled
       /\ (program[d].group = program[c].group /\ d < c) => at[d] # "todo"

(* The calls of one group are issued in one synchronous run. *)
Midway(c) ==
  /\ at[c] = "todo"
  /\ \E d \in InBody(Body(c)) : d < c /\ program[d].group = program[c].group /\ at[d] # "todo"
Turn(c) == \A d \in Calls \ {c} : Midway(d) => (Midway(c) /\ Body(c) = Body(d))

BodyOver(c) == \A d \in InBody(c) : at[d] \in Settled

(* #withTopContext leaves a context it found: the option's "old" value is the
   new one, and an option that was not there is deleted.                   *)
Left(c, x, found) ==
  IF ~Scoped(c) THEN x
  ELSE IF found THEN [x EXCEPT !.assigned = program[c].scope]
  ELSE [x EXCEPT !.assigned = NoId, !.own = FALSE]

Settle(c) ==
  /\ at' = [at EXCEPT ![c] = "done"]
  /\ ctx' = IF NoneStored(c) THEN ctx ELSE [ctx EXCEPT ![Stored(c)] = Left(c, @, had[c])]

(* -------------------------------- actions ------------------------------- *)

(* The context a call's issue leaves stored; outside of a workflow a scope's
   context is the callback's alone.                                        *)
Stores(c, x) == ctx' = IF NoneStored(c) THEN ctx ELSE [ctx EXCEPT ![Stored(c)] = x]

(* The context copied at the issue: the body gets it when it runs, and a
   workflow that already runs keeps the one it has.                        *)
Copies(c, x) == copy' = [copy EXCEPT ![c] = x]

Found(c) == ctx[Stored(c)].own
Ends(c, x) == Left(c, x, Found(c))

(* The workflow id of a start: named, assigned, or derived or random. *)
IdFor(c, x, derived) == IF NextWFID(c, x) # NoId THEN NextWFID(c, x) ELSE derived

(* A call in a workflow takes its ids synchronously, then goes on with a
   copy of the context: callStepFunction, #invokeWorkflow, send, recv...   *)
IssueDurable(c) ==
  LET x == Around(c)
      n == IdsTaken(c)
      w == IF Op(c) \in Starts THEN IdFor(c, x, ChildId(x)) ELSE x.wf
      y == Taking(IF Op(c) \in Starts THEN UsedUp(c, x) ELSE x, n)
      own == IF Op(c) \in Starts THEN WorkflowCtx(y, w) ELSE StepCtx(y, x.next)
      over == Op(c) \in NoIds \ Patches
  IN /\ WayOf(c, x) = "durable"
     /\ Stores(c, IF over THEN Ends(c, y) ELSE y) /\ Copies(c, own)
     /\ at' = [at EXCEPT ![c] = IF over THEN "done" ELSE "read"]
     /\ key' = [key EXCEPT ![c] = [i \in DOMAIN IdsOf(c, x.next) |->
                                     <<x.wf, IdsOf(c, x.next)[i]>>]]
     /\ UNCHANGED <<home, live, ops, rows>>

(* A call that needs no record runs its function in the context it is in. *)
IssueInline(c) ==
  LET x == Around(c)
      own == IF NoneStored(c) THEN c ELSE Stored(c)
  IN /\ WayOf(c, x) = "inline"
     /\ at' = [at EXCEPT ![c] = "body"]
     /\ home' = [home EXCEPT ![c] = own]
     /\ ctx' = [ctx EXCEPT ![own] = TimerTaken(c, x)]
     /\ UNCHANGED <<copy, key, live, ops, rows>>

(* A workflow started outside of one, and the temporary workflow of a send or
   a decorated step: the row first, then the body in its own context.      *)
IssueOutside(c) ==
  LET x == Around(c)
      w == IdFor(c, x, RandomId(c))
  IN /\ WayOf(c, x) \in {"alone", "started"}
     /\ Stores(c, UsedUp(c, x)) /\ Copies(c, WorkflowCtx(UsedUp(c, x), w))
     /\ at' = [at EXCEPT ![c] = "create"]
     /\ UNCHANGED <<home, key, live, ops, rows>>

IssueRefused(c) ==
  LET x == Around(c) IN
  /\ WayOf(c, x) = "refused"
  /\ at' = [at EXCEPT ![c] = "refused"]
  /\ Stores(c, Ends(c, IF Op(c) \in Starts \cup {"runStep"} THEN UsedUp(c, x) ELSE x))
  /\ UNCHANGED <<copy, home, key, live, ops, rows>>

Issue(c) ==
  /\ Ready(c) /\ Turn(c) /\ ~Skips(c)
  /\ had' = [had EXCEPT ![c] = Found(c)]
  /\ IssueDurable(c) \/ IssueInline(c) \/ IssueOutside(c) \/ IssueRefused(c)
  /\ UNCHANGED <<program, seen, patched, crashes>>

(* A call of another version, or of the other branch of a patch. *)
Skip(c) ==
  /\ Ready(c) /\ Turn(c) /\ Skips(c)
  /\ at' = [at EXCEPT ![c] = "done"]
  /\ UNCHANGED <<program, ctx, copy, home, key, had, seen, patched, live, ops, rows, crashes>>

Sees(c, authors) == seen' = [seen EXCEPT ![c] = @ \cup authors]
Goes(c, place) == at' = [at EXCEPT ![c] = place] /\ UNCHANGED ctx
At(k) == {ops[j] : j \in {k} \cap DOMAIN ops}

(* getOperationResultAndThrowIfCancelled: a record at the id is the answer;
   else a step runs its function and a start creates the row.              *)
Look(c) ==
  /\ at[c] = "read" /\ Op(c) \notin Patches
  /\ Sees(c, At(key[c][1]))
  /\ IF key[c][1] \notin DOMAIN ops /\ Op(c) \in {"step", "runStep"}
       THEN /\ at' = [at EXCEPT ![c] = "body"]
            /\ ctx' = [ctx EXCEPT ![c] = copy[c]] /\ home' = [home EXCEPT ![c] = c]
       ELSE /\ UNCHANGED home
            /\ IF key[c][1] \notin DOMAIN ops
                 THEN Goes(c, IF Op(c) \in Starts THEN "create" ELSE "record")
                 ELSE IF Op(c) = "call" THEN Goes(c, "await") ELSE Settle(c)
  /\ UNCHANGED <<program, copy, key, had, patched, live, ops, rows, crashes>>

Written(k, c) == [j \in DOMAIN ops \cup {k} |-> IF j = k THEN c ELSE ops[j]]

(* patch: the id is read, the backend asked, and the id taken only when the
   answer has an entry for it, after the await.  The backend enters a patch
   where nothing is recorded, unless it is deprecated.                     *)
CheckPatch(c) ==
  LET k == key[c][1]
      enters == Op(c) = "patch" /\ k \notin DOMAIN ops
      entry == enters \/ At(k) = {c}
  IN /\ at[c] = "read" /\ Op(c) \in Patches
     /\ ops' = IF enters THEN Written(k, c) ELSE ops
     /\ patched' = [patched EXCEPT ![c] = entry \/ Op(c) = "deprecatePatch"]
     /\ ctx' = [ctx EXCEPT ![Stored(c)] =
                  Left(c, IF entry THEN Taking(@, 1) ELSE @, had[c])]
     /\ at' = [at EXCEPT ![c] = "done"]
     /\ UNCHANGED <<program, copy, home, key, had, seen, live, rows, crashes>>

(* internalWorkflow: the row is created, or found and left alone; only the
   process that created it goes on to execute it, in the copied context.  A
   temporary workflow's body is the step or the send, its first.           *)
Create(c) ==
  LET w == copy[c].wf
      found == w \in DOMAIN rows
      temp == Op(c) \notin Starts
  IN /\ at[c] = "create"
     /\ Sees(c, {Owner(v) : v \in {w} \cap DOMAIN rows})
     /\ IF found THEN UNCHANGED <<rows, live>>
        ELSE /\ rows' = [v \in DOMAIN rows \cup {w} |->
                           IF v = w THEN [by |-> c, over |-> FALSE] ELSE rows[v]]
             /\ live' = live \cup {c}
     /\ at' = [at EXCEPT ![c] = IF temp THEN IF found THEN "await" ELSE "read"
                                ELSE IF key[c] # <<>> THEN "record"
                                ELSE IF Op(c) = "call" THEN "await" ELSE "done"]
     /\ IF found THEN UNCHANGED <<ctx, copy, key>>
        ELSE IF temp THEN /\ key' = [key EXCEPT ![c] = <<<<w, 0>>>>]
                          /\ copy' = [copy EXCEPT ![c] = StepCtx([@ EXCEPT !.next = 1], 0)]
                          /\ UNCHANGED ctx
        ELSE ctx' = [ctx EXCEPT ![c] = copy[c]] /\ UNCHANGED <<copy, key>>
     /\ UNCHANGED <<program, home, had, patched, ops, crashes>>

(* A function is over when the calls in it are. *)
Return(c) ==
  /\ at[c] = "body" /\ BodyOver(c)
  /\ IF key[c] = <<>> THEN Settle(c)
     ELSE Goes(c, "record")
  /\ UNCHANGED <<program, copy, home, key, had, patched, seen, live, ops, rows, crashes>>

(* recordOperationResult: a key that is taken conflicts. *)
Record(c) ==
  LET k == key[c][1] IN
  /\ at[c] = "record"
  /\ Sees(c, At(k))
  /\ ops' = IF k \in DOMAIN ops THEN ops ELSE Written(k, c)
  /\ IF Op(c) = "call" THEN Goes(c, "await") ELSE Settle(c)
  /\ UNCHANGED <<program, copy, home, key, had, patched, live, rows, crashes>>

(* The sleep that bounds a recv, a getEvent or a wait for a result has an id
   and a record of its own, before the call's.                             *)
RecordTimeout(c) ==
  LET k == key[c][2] IN
  /\ at[c] = "record" /\ Op(c) \in TwoIds \ {"call"}
  /\ Sees(c, At(k))
  /\ k \notin DOMAIN ops
  /\ ops' = Written(k, c)
  /\ UNCHANGED <<program, ctx, copy, home, at, key, had, patched, live, rows, crashes>>

(* The invoker awaits the child's result and records it under its second id. *)
GetResult(c) ==
  /\ at[c] = "await"
  /\ LET w == copy[c].wf IN w \in DOMAIN rows /\ rows[w].over
  /\ IF key[c] = <<>> THEN UNCHANGED <<ops, seen>>
     ELSE LET k == key[c][2] IN
          /\ Sees(c, At(k))
          /\ ops' = IF k \in DOMAIN ops THEN ops ELSE Written(k, c)
  /\ Settle(c)
  /\ UNCHANGED <<program, copy, home, key, had, patched, live, rows, crashes>>

(* runWorkflow saves the result of a body that returned. *)
Finish(c) ==
  /\ c \in live
  /\ IF Op(c) \in Starts THEN BodyOver(c) ELSE at[c] = "done"
  /\ \E w \in Own(c) :
       /\ ~rows[w].over
       /\ rows' = [rows EXCEPT ![w].over = TRUE]
  /\ UNCHANGED <<program, ctx, copy, home, at, key, had, patched, seen, live, ops, crashes>>

(* The process dies, and the next has this version of the program or another;
   the part outside of the workflows is not run again.                     *)
Crash ==
  /\ crashes < MaxCrashes
  /\ crashes' = crashes + 1
  /\ program' \in Versions[program]
  /\ ctx' = [b \in Bodies |-> NoCtx]
  /\ copy' = [c \in Calls |-> NoCtx]
  /\ home' = [b \in Bodies |-> b]
  /\ at' = [c \in Calls |-> IF Body(c) = Main THEN "done" ELSE "todo"]
  /\ key' = [c \in Calls |-> <<>>]
  /\ patched' = [c \in Calls |-> FALSE]
  /\ live' = {}
  /\ UNCHANGED <<had, seen, ops, rows>>

(* executeWorkflowId in the recovery context: no assigned id, no parent. *)
Recover(c) ==
  /\ crashes > 0 /\ c \notin live
  /\ live' = live \cup {c}
  /\ \E w \in Own(c) :
       /\ ~rows[w].over
       /\ IF Op(c) \in Starts
            THEN /\ ctx' = [ctx EXCEPT ![c] = WorkflowCtx(NoCtx, w)]
                 /\ UNCHANGED <<copy, at, key>>
            ELSE /\ at' = [at EXCEPT ![c] = "read"]
                 /\ key' = [key EXCEPT ![c] = <<<<w, 0>>>>]
                 /\ copy' = [copy EXCEPT ![c] = StepCtx(WorkflowCtx(NoCtx, w), 0)]
                 /\ UNCHANGED ctx
  /\ UNCHANGED <<program, home, had, seen, patched, ops, rows, crashes>>

Init ==
  /\ program \in Programs
  /\ ctx = [b \in Bodies |-> NoCtx]
  /\ copy = [c \in Calls |-> NoCtx]
  /\ home = [b \in Bodies |-> b]
  /\ at = [c \in Calls |-> "todo"]
  /\ key = [c \in Calls |-> <<>>]
  /\ had = [c \in Calls |-> FALSE]
  /\ seen = [c \in Calls |-> {}]
  /\ patched = [c \in Calls |-> FALSE]
  /\ live = {}
  /\ ops = <<>> /\ rows = <<>>
  /\ crashes = 0

Continue(c) ==
  /\ Turn(c) /\ ~Midway(c)
  /\ \/ Look(c) \/ CheckPatch(c) \/ Create(c) \/ Return(c) \/ Record(c)
     \/ RecordTimeout(c) \/ GetResult(c) \/ Finish(c) \/ Recover(c)

Next ==
  \/ \E c \in Calls : Issue(c) \/ Skip(c) \/ Continue(c)
  \/ Crash

Spec == Init /\ [][Next]_vars

(* ------------------------------- properties ----------------------------- *)

(* Programs of which every id follows from the text.  A scope inside a
   workflow is around a call alone in its group, and the workflow was not
   started under one; a patch is alone in its group, and is asked before what
   is made on it; no two workflows are given the same id.                  *)
InFlow(p) == {c \in DOMAIN p : p[c].body # Main /\ p[p[c].body].op \in Starts}
Given(p, c) == IF p[c].id # NoId THEN p[c].id ELSE p[c].scope
MayStart(p, c) == p[c].op \in Starts \/ (p[c].op \in {"step", "send"} /\ c \notin InFlow(p))
Mates(p, c) == {d \in DOMAIN p \ {c} : p[d].body = p[c].body /\ p[d].group = p[c].group}
UnderScope(p) ==
  {c \in DOMAIN p : \A S \in SUBSET DOMAIN p :
     (\A d \in DOMAIN p : p[d].op \in Starts /\ (p[d].scope # NoId \/ p[d].body \in S) => d \in S)
       => c \in S}
ScopeIsPlain(p, c) ==
  /\ p[c].id = NoId
  /\ \/ p[c].body = Main /\ p[c].op \in Starts \cup {"step", "runStep"}
     \/ c \in InFlow(p) /\ Mates(p, c) = {} /\ p[c].body \notin UnderScope(p)
     \/ p[c].body # Main /\ p[p[c].body].op = "step"
PatchIsPlain(p, c) ==
  /\ p[c].op \in Patches => Mates(p, c) = {} /\ p[c].on = {}
  /\ \A o \in p[c].on : /\ p[o.patch].op \in Patches /\ p[o.patch].body = p[c].body
                         /\ p[o.patch].group < p[c].group
IsPlain(p) ==
  /\ \A c \in DOMAIN p : (p[c].scope # NoId => ScopeIsPlain(p, c)) /\ PatchIsPlain(p, c)
  /\ \A c, d \in DOMAIN p :
       MayStart(p, c) /\ MayStart(p, d) /\ Given(p, c) = Given(p, d) /\ Given(p, c) # NoId => c = d

(* What a call is given from the log was recorded by the call itself, and the
   workflow it is given a handle to is one it started, in whatever order
   concurrent calls are answered, whether the bodies of steps run or are
   replayed, whatever they call, across crashes and across the versions of a
   patched program.                                                        *)
EachCallItsOwn == \A c \in Calls : seen[c] \subseteq {c}
=============================================================================
