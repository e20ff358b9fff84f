-------------------------- MODULE InvokeRunProofs ---------------------------
(***************************************************************************)
(* Proofs about InvokeRun, for every body, every set of guarded steps and  *)
(* every bound on faults.                                                  *)
(***************************************************************************)
EXTENDS InvokeRun, TLAPS

USE InvokeRunAssumption

LEMMA InitIInv == Init => IInv
<1> SUFFICES ASSUME Init PROVE IInv
  OBVIOUS
<1> USE DEF Init
<1>1. TypeOK
  <2>1. ops \in [Ids -> {"none", "output", "error", "sleep"}]
    OBVIOUS
  <2>2. observed \in [Ids -> {"none", "output", "error"}]
    OBVIOUS
  <2>3. /\ at \in 0..Calls /\ lost \in 0..MaxLost /\ outages \in 0..MaxOutages
        /\ crashes \in 0..MaxCrashes /\ requests \in 0..MaxRequests
    OBVIOUS
  <2> QED BY <2>1, <2>2, <2>3 DEF TypeOK, RowStatuses
<1>2. ProcessKnows /\ SuccessIsEarned /\ SeenIsRecorded
        /\ OnlySleepsSleep
  BY DEF ProcessKnows, SuccessIsEarned, SeenIsRecorded, OnlySleepsSleep, Early, InBody
<1> QED BY <1>1, <1>2 DEF IInv

-----------------------------------------------------------------------------
(* What the backend's handlers do to the store, whatever happens to the    *)
(* reply: types are kept, an operation is written once, and a row becomes  *)
(* a success only by saving a completed result.                            *)
LEMMA HandleKeepsTypes ==
  ASSUME IInv, Handle
  PROVE  /\ row' \in RowStatuses
         /\ snapshot' \in Vars \cup {"unset"}
         /\ ops' \in [Ids -> {"none", "output", "error", "sleep"}]
         /\ reports' \subseteq {"completed", "failed"}
         /\ trigger' \in {"pending", "started", "waiting", "over"}
<1> USE DEF IInv, TypeOK
<1>1. row' \in RowStatuses
  BY DEF Handle, store, CreateWorkflow, SaveResult, StatusOf, RowStatuses,
     ProcessKnows
<1>2. snapshot' \in Vars \cup {"unset"}
  BY DEF Handle, store, CaptureVars
<1>3. ops' \in [Ids -> {"none", "output", "error", "sleep"}]
  BY DEF Handle, store, RecordOperation, ScheduleSleep
<1>4. reports' \subseteq {"completed", "failed"}
  BY DEF Handle, store, ProcessKnows
<1>5. trigger' \in {"pending", "started", "waiting", "over"}
  BY DEF Handle, store, ScheduleSleep
<1> QED BY <1>1, <1>2, <1>3, <1>4, <1>5

LEMMA HandleWritesOnce ==
  ASSUME IInv, Handle, NEW i \in Ids, ops[i] # "none"
  PROVE  ops'[i] = ops[i]
BY DEF Handle, store, RecordOperation, ScheduleSleep, Accepts, IInv, TypeOK

LEMMA HandleEarnsSuccess ==
  ASSUME IInv, Handle, row' = "SUCCESS"
  PROVE  row = "SUCCESS" \/ result = "completed"
BY DEF Handle, store, CreateWorkflow, SaveResult, StatusOf, IInv,
   ProcessKnows

LEMMA HandleKeepsCancelled ==
  ASSUME Handle, row = "CANCELLED"
  PROVE  row' = "CANCELLED"
BY DEF Handle, store, CreateWorkflow, SaveResult

(* Hence what was passed, earned and seen stays so when a request is       *)
(* handled, and a saved success is earned.                                 *)
LEMMA HandleKeepsFacts ==
  ASSUME IInv, Handle, UNCHANGED due
  PROVE  /\ \A i \in Ids : Passed(i) => Passed(i)'
         /\ SuccessIsEarned'
         /\ \A i \in Ids : observed[i] = "output" => ops'[i] = "output"
         /\ OnlySleepsSleep'
<1>1. \A i \in Ids : ops[i] = "output" => ops'[i] = "output"
  BY HandleWritesOnce
<1>2. \A i \in Ids : Passed(i) => Passed(i)'
  BY <1>1 DEF Passed
<1>3. SuccessIsEarned'
  <2>1. CASE row = "SUCCESS"
    BY <2>1, <1>1 DEF SuccessIsEarned, IInv
  <2>2. CASE row # "SUCCESS" /\ row' = "SUCCESS"
    BY <2>2, <1>1, HandleEarnsSuccess
       DEF SuccessIsEarned, IInv, ProcessKnows, Passed
  <2> QED BY <2>1, <2>2 DEF SuccessIsEarned
<1>4. \A i \in Ids : observed[i] = "output" => ops'[i] = "output"
  BY <1>1 DEF IInv, SeenIsRecorded
<1>5. OnlySleepsSleep'
  BY DEF Handle, store, RecordOperation, ScheduleSleep, IInv, TypeOK,
     OnlySleepsSleep, ProcessKnows
<1> QED BY <1>2, <1>3, <1>4, <1>5

-----------------------------------------------------------------------------
(* How the process goes on keeps what it knows. *)
LEMMA ContinueKnows ==
  ASSUME IInv, phase \in InBody, Continue,
         \A i \in Ids : Passed(i) => Passed(i)',
         NEW j \in Ids, j = at, Passed(j)'
  PROVE  ProcessKnows' /\ phase' \in Requests /\ at' \in 0..Calls
         /\ result' \in {"none", "completed", "failed", "cancelled",
                         "suspended"}
<1> USE DEF IInv, TypeOK, ProcessKnows, Continue, Ids
<1>1. \A i \in 0..at : Passed(i)'
  <2>1. \A i \in 0..(at - 1) : Passed(i) /\ i \in Ids
    BY DEF InBody
  <2>2. at \in Ids
    BY DEF InBody
  <2> QED BY <2>1, <2>2
<1>2. CASE at + 1 = Calls
  <2>1. 0..(Calls - 1) = 0..at
    BY <1>2
  <2> QED BY <1>1, <1>2, <2>1 DEF Early, InBody, Requests
<1>3. CASE at + 1 # Calls
  <2>1. at' < Calls /\ 0..(at' - 1) = 0..at
    BY <1>3 DEF InBody
  <2>2. result' = "completed" => \A i \in Ids : Passed(i)'
    BY <1>3
  <2> QED BY <1>1, <1>3, <2>1, <2>2 DEF Early, InBody, Requests
<1> QED BY <1>2, <1>3

LEMMA EndBodyKnows ==
  ASSUME IInv, NEW r \in {"failed", "cancelled", "suspended"}, EndBody(r)
  PROVE  ProcessKnows' /\ phase' \in Requests \cup {"exit"}
         /\ at' \in 0..Calls
         /\ result' \in {"none", "completed", "failed", "cancelled",
                         "suspended"}
BY DEF IInv, TypeOK, ProcessKnows, EndBody, Early, InBody, Requests

LEMMA ThrowKnows ==
  ASSUME IInv, phase \in InBody, NEW r \in {"failed", "cancelled"}, Throw(r),
         \A i \in Ids : Passed(i) => Passed(i)'
  PROVE  ProcessKnows' /\ phase' \in Requests \cup {"exit"}
         /\ at' \in 0..Calls
         /\ result' \in {"none", "completed", "failed", "cancelled",
                         "suspended"}
<1>1. CASE at \in Guarded
  <2>1. PICK j \in Ids : j = at
    BY <1>1
  <2>3. Passed(j)'
    BY <1>1, <2>1 DEF Passed
  <2>2. Continue
    BY <1>1 DEF Throw
  <2> QED BY <2>1, <2>2, <2>3, ContinueKnows
<1>2. CASE at \notin Guarded
  <2>1. EndBody(r)
    BY <1>2 DEF Throw
  <2> QED BY <2>1, EndBodyKnows
<1> QED BY <1>1, <1>2

-----------------------------------------------------------------------------
(* The answers that leave what the body saw alone: the phases around the   *)
(* body, a cancelled call and the sleep calls.                             *)
LEMMA QuietAnswerInv ==
  ASSUME IInv,
         CreateRow \/ Health \/ CallCancelled \/ ReadSleep \/ Sleep \/ Save
           \/ Complete
  PROVE  IInv'
<1>1. Handle /\ UNCHANGED <<due, supplied, bounds, history>>
  BY DEF CreateRow, Health, CallCancelled, ReadSleep, Sleep, Save, Complete,
     Answered
<1>2. \A i \in Ids : Passed(i) => Passed(i)'
  BY <1>1, HandleKeepsFacts
<1>3. SuccessIsEarned' /\ SeenIsRecorded' /\ OnlySleepsSleep'
  BY <1>1, HandleKeepsFacts DEF history, SeenIsRecorded
<1>4. /\ ProcessKnows'
      /\ phase' \in Requests \cup {"exit"}
      /\ at' \in 0..Calls
      /\ result' \in {"none", "completed", "failed", "cancelled",
                      "suspended"}
  <2>1. CASE CreateRow \/ Health \/ Save \/ Complete
    BY <2>1, <1>2 DEF CreateRow, Health, Save, Complete, Answered, AfterSave,
       Goto, IInv, TypeOK, ProcessKnows, Early, InBody, Requests
  <2>2. CASE CallCancelled
    BY <2>2, <1>2, ThrowKnows DEF CallCancelled, Answered, InBody
  <2>3. CASE ReadSleep
    <3>1. CASE ops[at] = "none"
      <4>1. /\ phase = "call" /\ at < Calls /\ at \in Sleeps
            /\ \A i \in 0..(at - 1) : Passed(i)
        BY <2>3 DEF ReadSleep, Answered, IInv, ProcessKnows, InBody
      <4>2. phase' = "sleep" /\ at' = at /\ result' = result
        BY <2>3, <3>1 DEF ReadSleep, Goto
      <4>3. \A i \in 0..(at - 1) : i \in Ids
        BY <4>1 DEF IInv, TypeOK, Ids
      <4> QED BY <4>1, <4>2, <4>3, <1>2
              DEF IInv, TypeOK, ProcessKnows, Early, InBody, Requests
    <3>2. CASE ops[at] # "none" /\ at \in due
      <4>1. Continue /\ phase \in InBody /\ at \in Sleeps
        BY <2>3, <3>2 DEF ReadSleep, Answered, InBody
      <4>2. PICK j \in Ids : j = at
        BY <4>1
      <4>3. Passed(j)'
        BY <1>1, <3>2, <4>1, <4>2 DEF Passed
      <4> QED BY <1>2, <4>1, <4>2, <4>3, ContinueKnows
    <3>3. CASE ops[at] # "none" /\ at \notin due
      BY <2>3, <3>3, EndBodyKnows DEF ReadSleep
    <3> QED BY <3>1, <3>2, <3>3
  <2>4. CASE Sleep
    BY <2>4, EndBodyKnows DEF Sleep
  <2> QED BY <2>1, <2>2, <2>3, <2>4
<1>5. TypeOK'
  BY <1>1, <1>4, HandleKeepsTypes DEF IInv, TypeOK, history, bounds
<1> QED BY <1>3, <1>4, <1>5 DEF IInv

(* The body starts with the snapshot, or with the supplied vars. *)
LEMMA CaptureVarsSnapshotInv ==
  ASSUME IInv, CaptureVarsSnapshot
  PROVE  IInv'
<1>1. /\ Handle /\ phase = "snapshot"
      /\ UNCHANGED <<due, supplied, bounds, observed, ran, threw>>
      /\ phase' = "call" /\ at' = at /\ result' = result
      /\ seen' = seen \cup {IF row = "absent" THEN supplied ELSE snapshot'}
  BY DEF CaptureVarsSnapshot, Answered, StartBody, Goto
<1>2. SuccessIsEarned' /\ SeenIsRecorded' /\ OnlySleepsSleep'
  BY <1>1, HandleKeepsFacts DEF SeenIsRecorded
<1>3. ProcessKnows'
  BY <1>1 DEF IInv, ProcessKnows, Early, InBody
<1>4. seen' \subseteq Vars
  <2>1. supplied \in Vars
    BY <1>1 DEF IInv, ProcessKnows, Early
  <2>2. row # "absent" => snapshot' \in Vars
    BY <1>1, <2>1 DEF IInv, TypeOK, Handle, CaptureVars
  <2> QED BY <1>1, <2>1, <2>2 DEF IInv, TypeOK
<1>5. TypeOK'
  BY <1>1, <1>4, HandleKeepsTypes DEF IInv, TypeOK, bounds, Requests
<1> QED BY <1>2, <1>3, <1>5 DEF IInv

(* A replayed step shows the body what is recorded. *)
LEMMA ReplayStepInv ==
  ASSUME IInv, ReplayStep
  PROVE  IInv'
<1>1. /\ Handle /\ phase = "call" /\ at \notin Sleeps /\ ops[at] # "none"
      /\ UNCHANGED <<due, supplied, bounds, seen, ran, threw>>
      /\ observed' = [observed EXCEPT ![at] = ops[at]]
      /\ ops' = ops
  BY DEF ReplayStep, Answered, Sees, Handle, store
<1>2. \A i \in Ids : Passed(i) => Passed(i)'
  BY <1>1, HandleKeepsFacts
<1>3. PICK j \in Ids : j = at
  BY <1>1 DEF IInv, TypeOK, ProcessKnows, InBody, Ids
<1>4. ops[at] \in {"output", "error"}
  BY <1>1, <1>3 DEF IInv, TypeOK, OnlySleepsSleep
<1>5. SuccessIsEarned' /\ SeenIsRecorded' /\ OnlySleepsSleep'
  BY <1>1, <1>3, HandleKeepsFacts DEF SeenIsRecorded, IInv, TypeOK
<1>6. /\ ProcessKnows'
      /\ phase' \in Requests \cup {"exit"}
      /\ at' \in 0..Calls
      /\ result' \in {"none", "completed", "failed", "cancelled",
                      "suspended"}
  <2>1. CASE ops[at] = "error"
    BY <1>1, <1>2, <2>1, ThrowKnows DEF ReplayStep, InBody
  <2>2. CASE ops[at] # "error"
    <3>1. Continue
      BY <2>2 DEF ReplayStep
    <3>2. Passed(j)'
      BY <1>1, <1>3, <1>4, <2>2 DEF Passed
    <3> QED BY <1>1, <1>2, <1>3, <3>1, <3>2, ContinueKnows DEF InBody
  <2> QED BY <2>1, <2>2
<1>7. TypeOK'
  BY <1>1, <1>4, <1>6, HandleKeepsTypes DEF IInv, TypeOK, bounds
<1> QED BY <1>5, <1>6, <1>7 DEF IInv

(* A step function runs and goes on to record what it did. *)
LEMMA RunStepInv ==
  ASSUME IInv, RunStep
  PROVE  IInv'
<1>1. /\ Handle /\ phase = "call" /\ at \notin Sleeps /\ ops' = ops
      /\ UNCHANGED <<due, supplied, bounds, seen, observed, at, result>>
      /\ phase' \in {"record", "recordError"}
      /\ ran' = ran \cup {at}
      /\ threw' \in {threw, threw \cup {at}}
  BY DEF RunStep, Answered, Goto, Handle, store
<1>2. at \in Ids /\ at < Calls
  BY <1>1 DEF IInv, TypeOK, ProcessKnows, InBody, Ids
<1>3. SuccessIsEarned' /\ SeenIsRecorded' /\ OnlySleepsSleep'
  BY <1>1, HandleKeepsFacts DEF SeenIsRecorded
<1>4. ProcessKnows'
  <2>1. \A i \in 0..(at - 1) : Passed(i)'
    BY <1>1, <1>2 DEF IInv, ProcessKnows, InBody, Passed
  <2>2. result = "completed" => \A i \in Ids : Passed(i)'
    BY <1>1 DEF IInv, ProcessKnows, Passed
  <2> QED BY <1>1, <1>2, <2>1, <2>2 DEF ProcessKnows, Early, InBody
<1>5. TypeOK'
  BY <1>1, <1>2, HandleKeepsTypes DEF IInv, TypeOK, bounds, Requests
<1> QED BY <1>3, <1>4, <1>5 DEF IInv

(* The output is recorded, or the record is refused and an error follows. *)
LEMMA RecordOutputInv ==
  ASSUME IInv, RecordOutput
  PROVE  IInv'
<1>1. /\ Handle /\ phase = "record" /\ at \notin Sleeps
      /\ UNCHANGED <<due, supplied, bounds, seen, ran, threw>>
      /\ RecordOperation("output")
  BY DEF RecordOutput, Answered, Handle, store, IInv, ProcessKnows
<1>2. \A i \in Ids : Passed(i) => Passed(i)'
  BY <1>1, HandleKeepsFacts
<1>3. PICK j \in Ids : j = at
  BY <1>1 DEF IInv, TypeOK, ProcessKnows, InBody, Ids
<1>4. CASE Accepts(at)
  <2>1. /\ observed' = [observed EXCEPT ![at] = "output"]
        /\ ops'[j] = "output"
        /\ Continue
    BY <1>1, <1>3, <1>4 DEF RecordOutput, Sees, RecordOperation, IInv, TypeOK
  <2>2. SuccessIsEarned' /\ SeenIsRecorded' /\ OnlySleepsSleep'
    BY <1>1, <1>3, <2>1, HandleKeepsFacts DEF SeenIsRecorded, IInv, TypeOK
  <2>3. Passed(j)'
    BY <1>1, <1>3, <2>1 DEF Passed
  <2>4. /\ ProcessKnows' /\ phase' \in Requests /\ at' \in 0..Calls
        /\ result' \in {"none", "completed", "failed", "cancelled",
                        "suspended"}
    BY <1>1, <1>2, <1>3, <2>1, <2>3, ContinueKnows DEF InBody
  <2>5. TypeOK'
    BY <1>1, <2>1, <2>4, HandleKeepsTypes DEF IInv, TypeOK, bounds
  <2> QED BY <2>2, <2>4, <2>5 DEF IInv
<1>5. CASE ~ Accepts(at)
  <2>1. /\ phase' = "recordError" /\ UNCHANGED <<at, result, observed>>
    BY <1>5 DEF RecordOutput, Goto
  <2>2. SuccessIsEarned' /\ SeenIsRecorded' /\ OnlySleepsSleep'
    BY <1>1, <2>1, HandleKeepsFacts DEF SeenIsRecorded
  <2>3. ops' = ops
    BY <1>1, <1>5 DEF RecordOperation
  <2>4. ProcessKnows'
    <3>1. at < Calls /\ \A i \in 0..(at - 1) : Passed(i)'
      BY <1>1, <2>3 DEF IInv, ProcessKnows, InBody, Passed
    <3>2. result = "completed" => \A i \in Ids : Passed(i)'
      BY <1>1, <2>3 DEF IInv, ProcessKnows, Passed
    <3> QED BY <1>1, <2>1, <3>1, <3>2 DEF ProcessKnows, Early, InBody
  <2>5. TypeOK'
    BY <1>1, <2>1, HandleKeepsTypes DEF IInv, TypeOK, bounds, Requests
  <2> QED BY <2>2, <2>4, <2>5 DEF IInv
<1> QED BY <1>4, <1>5

(* The error is recorded, refused or lost in an outage: the body sees it. *)
LEMMA RecordErrorInv ==
  ASSUME IInv, RecordError
  PROVE  IInv'
<1>1. /\ Handle /\ phase = "recordError"
      /\ UNCHANGED <<due, supplied, bounds, seen, ran, threw>>
      /\ observed' = [observed EXCEPT ![at] = "error"]
      /\ Throw("failed")
  BY DEF RecordError, Answered, Sees
<1>2. /\ ProcessKnows'
      /\ phase' \in Requests \cup {"exit"}
      /\ at' \in 0..Calls
      /\ result' \in {"none", "completed", "failed", "cancelled",
                      "suspended"}
  BY <1>1, HandleKeepsFacts, ThrowKnows DEF InBody
<1>3. SuccessIsEarned' /\ SeenIsRecorded' /\ OnlySleepsSleep'
  BY <1>1, HandleKeepsFacts DEF SeenIsRecorded, IInv, TypeOK
<1>4. TypeOK'
  BY <1>1, <1>2, HandleKeepsTypes DEF IInv, TypeOK, bounds
<1> QED BY <1>2, <1>3, <1>4 DEF IInv

-----------------------------------------------------------------------------
(* Lost replies, outages, crashes and the world around the process. *)
LEMMA ReplyLostInv ==
  ASSUME IInv, ReplyLost
  PROVE  IInv'
<1>1. /\ Handle /\ lost < MaxLost /\ lost' = lost + 1
      /\ UNCHANGED <<due, process, history, outages, crashes, requests>>
  BY DEF ReplyLost
<1>2. \A i \in Ids : Passed(i) => Passed(i)'
  BY <1>1, HandleKeepsFacts
<1>3. SuccessIsEarned' /\ SeenIsRecorded' /\ OnlySleepsSleep'
  BY <1>1, HandleKeepsFacts DEF history, SeenIsRecorded
<1>4. ProcessKnows'
  <2>1. \A i \in 0..(at - 1) : phase \in InBody => i \in Ids
    BY DEF IInv, TypeOK, ProcessKnows, Ids
  <2>2. phase \in InBody => \A i \in 0..(at - 1) : Passed(i)'
    BY <1>2, <2>1 DEF IInv, ProcessKnows
  <2>3. result = "completed" => \A i \in Ids : Passed(i)'
    BY <1>2 DEF IInv, ProcessKnows
  <2>4. UNCHANGED <<phase, at, supplied, result>>
    BY <1>1 DEF process
  <2> QED BY <2>2, <2>3, <2>4 DEF IInv, ProcessKnows
<1>5. TypeOK'
  <2>1. lost' \in 0..MaxLost
    BY <1>1 DEF IInv, TypeOK
  <2> QED BY <1>1, <2>1, HandleKeepsTypes DEF IInv, TypeOK, process, history
<1> QED BY <1>3, <1>4, <1>5 DEF IInv

LEMMA OutageInv ==
  ASSUME IInv, Outage
  PROVE  IInv'
<1>1. /\ outages < MaxOutages /\ outages' = outages + 1
      /\ UNCHANGED <<row, snapshot, ops, reports, trigger, due, supplied,
                     lost, crashes, requests>>
  BY DEF Outage, store
<1>2. \A i \in Ids : Passed(i) => Passed(i)'
  BY <1>1 DEF Passed
<1>3. SuccessIsEarned' /\ OnlySleepsSleep'
  BY <1>1 DEF IInv, SuccessIsEarned, OnlySleepsSleep
<1>4. ran' = ran /\ threw' = threw
  BY DEF Outage, StartBody, history
<1>5. outages' \in 0..MaxOutages
  BY <1>1 DEF IInv, TypeOK
<1>6. /\ ProcessKnows'
      /\ phase' \in Requests \cup {"exit"}
      /\ at' \in 0..Calls
      /\ result' \in {"none", "completed", "failed", "cancelled",
                      "suspended"}
  <2>1. CASE phase \in {"call", "sleep", "recordError"}
    <3>1. Throw("failed")
      BY <2>1 DEF Outage
    <3> QED BY <1>2, <2>1, <3>1, ThrowKnows DEF InBody
  <2>2. CASE phase \in {"create", "save", "complete"}
    BY <1>1, <1>2, <2>2 DEF Outage, Goto, AfterSave, IInv, TypeOK,
       ProcessKnows, Early, InBody, Requests
  <2>3. CASE phase = "health"
    BY <2>3, EndBodyKnows DEF Outage
  <2>4. CASE phase = "snapshot"
    BY <1>1, <1>2, <2>4 DEF Outage, StartBody, Goto, IInv, TypeOK,
       ProcessKnows, Early, InBody, Requests
  <2>5. CASE phase = "record"
    <3>1. phase' = "recordError" /\ UNCHANGED <<at, result>>
      BY <2>5 DEF Outage, Goto
    <3>2. at < Calls /\ \A i \in 0..(at - 1) : Passed(i)'
      BY <1>1, <2>5 DEF IInv, ProcessKnows, InBody, Passed
    <3>3. result = "completed" => \A i \in Ids : Passed(i)'
      BY <1>2 DEF IInv, ProcessKnows
    <3> QED BY <2>5, <3>1, <3>2, <3>3 DEF IInv, TypeOK, ProcessKnows, Early,
            InBody, Requests
  <2> QED BY <2>1, <2>2, <2>3, <2>4, <2>5 DEF Outage
<1>7. SeenIsRecorded' /\ observed' \in [Ids -> {"none", "output", "error"}]
  <2>1. CASE phase = "recordError"
    <3>1. observed' = [observed EXCEPT ![at] = "error"]
      BY <2>1 DEF Outage, Sees
    <3> QED BY <1>1, <3>1 DEF IInv, TypeOK, SeenIsRecorded
  <2>2. CASE phase # "recordError"
    <3>1. observed' = observed
      BY <2>2 DEF Outage, history
    <3> QED BY <1>1, <3>1 DEF IInv, TypeOK, SeenIsRecorded
  <2> QED BY <2>1, <2>2
<1>8. seen' \subseteq Vars
  <2>1. CASE phase = "snapshot"
    BY <2>1 DEF Outage, StartBody, IInv, TypeOK, ProcessKnows, Early
  <2>2. CASE phase # "snapshot"
    BY <2>2 DEF Outage, history, IInv, TypeOK
  <2> QED BY <2>1, <2>2
<1>9. TypeOK'
  BY <1>1, <1>4, <1>5, <1>6, <1>7, <1>8 DEF IInv, TypeOK
<1> QED BY <1>3, <1>6, <1>7, <1>9 DEF IInv

(* Steps that touch neither the operations nor the process's knowledge.    *)
LEMMA WorldInv ==
  ASSUME IInv,
         Exit \/ Crash \/ Dispatch \/ Wake \/ CancelWorkflow
           \/ ResumeWorkflow \/ UNCHANGED vars
  PROVE  IInv'
<1> USE DEF IInv, Exit, Crash, Dispatch, Wake, CancelWorkflow,
            ResumeWorkflow, vars, store, process, history, bounds
<1>1. due \subseteq due' /\ UNCHANGED <<ops, observed>>
  OBVIOUS
<1>2. \A i \in Ids : Passed(i) => Passed(i)'
  BY <1>1 DEF Passed
<1>3. row' = "SUCCESS" => row = "SUCCESS"
  OBVIOUS
<1>4. SuccessIsEarned' /\ SeenIsRecorded' /\ OnlySleepsSleep'
  BY <1>1, <1>3 DEF SuccessIsEarned, SeenIsRecorded, OnlySleepsSleep
<1>5. ProcessKnows'
  <2>1. CASE Dispatch
    BY <2>1 DEF ProcessKnows, Early, InBody
  <2>2. CASE Exit \/ Crash
    BY <2>2, <1>2 DEF ProcessKnows, Early, InBody
  <2>3. CASE Wake \/ CancelWorkflow \/ ResumeWorkflow \/ UNCHANGED vars
    <3>1. UNCHANGED <<phase, at, supplied, result>>
      BY <2>3
    <3>2. phase \in InBody => \A i \in 0..(at - 1) : Passed(i)'
      <4>1. phase \in InBody => \A i \in 0..(at - 1) : i \in Ids
        BY DEF TypeOK, ProcessKnows, Ids
      <4> QED BY <1>2, <4>1 DEF ProcessKnows
    <3>3. result = "completed" => \A i \in Ids : Passed(i)'
      BY <1>2 DEF ProcessKnows
    <3> QED BY <3>1, <3>2, <3>3 DEF ProcessKnows
  <2> QED BY <2>1, <2>2, <2>3
<1>6. TypeOK'
  <2>1. crashes' \in 0..MaxCrashes /\ requests' \in 0..MaxRequests
    BY DEF TypeOK
  <2>2. at' \in 0..Calls /\ due' \subseteq Sleeps
    BY DEF TypeOK
  <2>3. row' \in RowStatuses /\ phase' \in Requests \cup {"down", "exit"}
    BY DEF TypeOK, Requests, RowStatuses
  <2>4. trigger' \in {"pending", "started", "waiting", "over"}
    BY DEF TypeOK
  <2>5. /\ supplied' \in Vars \cup {"unset"} /\ ran' \subseteq Ids
        /\ result' \in {"none", "completed", "failed", "cancelled",
                        "suspended"}
    BY DEF TypeOK
  <2>6. /\ UNCHANGED <<snapshot, ops, reports, seen, observed, threw, lost,
                       outages>>
    OBVIOUS
  <2> QED BY <2>1, <2>2, <2>3, <2>4, <2>5, <2>6 DEF TypeOK
<1> QED BY <1>4, <1>5, <1>6

LEMMA NextIInv == IInv /\ [Next]_vars => IInv'
BY QuietAnswerInv, CaptureVarsSnapshotInv, ReplayStepInv, RunStepInv,
   RecordOutputInv, RecordErrorInv, ReplyLostInv, OutageInv, WorldInv
   DEF Next, Process

(* The inductive invariant holds in every reachable state. *)
THEOREM Invariance == Spec => []IInv
<1>1. Init => IInv
  BY InitIInv
<1>2. IInv /\ [Next]_vars => IInv'
  BY NextIInv
<1> QED BY <1>1, <1>2, PTL DEF Spec

(* Every variable keeps its type. *)
THEOREM TypeCorrect == Spec => []TypeOK
<1>1. IInv => TypeOK
  BY DEF IInv
<1> QED BY <1>1, Invariance, PTL

(* A saved success rests on the recorded output of every unguarded step    *)
(* and on sleeps that have passed, whatever was lost, retried or cut short *)
(* on the way.                                                             *)
THEOREM SuccessEarned == Spec => []SuccessIsEarned
<1>1. IInv => SuccessIsEarned
  BY DEF IInv
<1> QED BY <1>1, Invariance, PTL

-----------------------------------------------------------------------------
(* Action properties. *)

(* No retry, replay or late request changes a recorded operation. *)
THEOREM WrittenOnce == Spec => OpsWriteOnce
<1>1. ASSUME IInv, [Next]_vars, NEW i \in Ids, ops[i] # "none"
      PROVE  ops'[i] = ops[i]
  <2>1. CASE Handle
    BY <1>1, <2>1, HandleWritesOnce
  <2>2. CASE ops' = ops
    BY <2>2
  <2>3. Handle \/ ops' = ops
    BY <1>1 DEF Next, Process, CreateRow, Health, CaptureVarsSnapshot,
       CallCancelled, ReplayStep, RunStep, RecordOutput, RecordError,
       ReadSleep, Sleep, Save, Complete, Answered, Exit, ReplyLost, Outage,
       Crash, Dispatch, Wake, CancelWorkflow, ResumeWorkflow, vars, store
  <2> QED BY <2>1, <2>2, <2>3
<1>2. IInv /\ [Next]_vars
        => [\A i \in Ids : ops[i] # "none" => ops'[i] = ops[i]]_vars
  BY <1>1
<1> QED BY <1>2, Invariance, PTL DEF Spec, OpsWriteOnce

(* Only a resume takes a row out of CANCELLED. *)
THEOREM StaysCancelled == Spec => CancelSticks
<1>1. ASSUME [Next]_vars, row = "CANCELLED", row' # "CANCELLED"
      PROVE  ResumeWorkflow
  <2>1. ~ Handle
    BY <1>1, HandleKeepsCancelled
  <2> QED BY <1>1, <2>1 DEF Next, Process, CreateRow, Health,
       CaptureVarsSnapshot, CallCancelled, ReplayStep, RunStep, RecordOutput,
       RecordError, ReadSleep, Sleep, Save, Complete, Answered, Exit,
       ReplyLost, Outage, Crash, Dispatch, Wake, CancelWorkflow, vars, store
<1>2. [Next]_vars
        => [(row = "CANCELLED" /\ row' # "CANCELLED") => ResumeWorkflow]_vars
  BY <1>1
<1> QED BY <1>2, PTL DEF Spec, CancelSticks

(* What a body saw as an output is recorded, so it is never run again. *)
THEOREM NotRunAgain == Spec => SeenNotRerun
<1>1. ASSUME IInv, [Next]_vars, NEW i \in ran' \ ran
      PROVE  observed[i] # "output"
  <2>1. RunStep
    BY <1>1 DEF Next, Process, CreateRow, Health, CaptureVarsSnapshot,
       CallCancelled, ReplayStep, RecordOutput, RecordError, ReadSleep,
       Sleep, Save, Complete, Answered, Exit, ReplyLost, Outage, StartBody,
       Crash, Dispatch, Wake, CancelWorkflow, ResumeWorkflow, vars, history
  <2>2. i = at /\ ops[at] = "none" /\ phase = "call"
    BY <1>1, <2>1 DEF RunStep, Answered
  <2>3. i \in Ids
    BY <1>1, <2>2 DEF IInv, TypeOK, ProcessKnows, InBody, Ids
  <2> QED BY <1>1, <2>2, <2>3 DEF IInv, SeenIsRecorded
<1>2. IInv /\ [Next]_vars
        => [\A i \in ran' \ ran : observed[i] # "output"]_vars
  BY <1>1
<1> QED BY <1>2, Invariance, PTL DEF Spec, SeenNotRerun

-----------------------------------------------------------------------------
(* Refinement. *)

(* A step either has a request handled or leaves the operations alone.     *)
LEMMA HandledOrNot ==
  ASSUME [Next]_vars
  PROVE  \/ Handle /\ due' = due
         \/ ops' = ops /\ due \subseteq due'
            /\ \A i \in due' \ due : ops[i] = "sleep"
<1>1. CASE Process
  BY <1>1 DEF Process, CreateRow, Health, CaptureVarsSnapshot, CallCancelled,
     ReplayStep, RunStep, RecordOutput, RecordError, ReadSleep, Sleep, Save,
     Complete, Answered, Exit
<1>2. CASE ReplyLost \/ Outage \/ Crash
  BY <1>2 DEF ReplyLost, Outage, Crash, store
<1>3. CASE Dispatch \/ CancelWorkflow \/ ResumeWorkflow \/ UNCHANGED vars
  BY <1>3 DEF Dispatch, CancelWorkflow, ResumeWorkflow, vars, store
<1>4. CASE Wake
  BY <1>4 DEF Wake
<1> QED BY <1>1, <1>2, <1>3, <1>4 DEF Next

LEMMA PassedKept ==
  ASSUME IInv, [Next]_vars
  PROVE  \A i \in Ids : Passed(i) => Passed(i)'
<1>1. CASE Handle /\ due' = due
  BY <1>1, HandleKeepsFacts
<1>2. CASE ops' = ops /\ due \subseteq due'
  BY <1>2 DEF Passed
<1> QED BY <1>1, <1>2, HandledOrNot

(* The one handled request that writes an operation writes the current     *)
(* one, and only a sleep writes "sleep".                                   *)
LEMMA HandleWrites ==
  ASSUME IInv, Handle
  PROVE  \/ ops' = ops
         \/ /\ at \in Ids /\ ops[at] = "none" /\ row' = row
            /\ phase \in {"record", "recordError", "sleep"}
            /\ ops' = [ops EXCEPT ![at] =
                         IF phase = "record" THEN "output"
                         ELSE IF phase = "sleep" THEN "sleep" ELSE "error"]
<1>1. phase \in {"record", "recordError", "sleep"} => at \in Ids
  BY DEF IInv, TypeOK, ProcessKnows, InBody, Ids
<1> QED BY <1>1 DEF Handle, store, RecordOperation, ScheduleSleep, Accepts

LEMMA InOrderKept ==
  ASSUME IInv, SleepsInOrder, [Next]_vars
  PROVE  SleepsInOrder'
<1>1. \A i \in Ids : \A j \in 0..(i - 1) : j \in Ids
  BY DEF Ids
<1>2. \A i \in Ids :
        ops[i] = "sleep" => \A j \in 0..(i - 1) : Passed(j)'
  BY <1>1, PassedKept DEF SleepsInOrder
<1>3. due \subseteq Ids
  BY DEF IInv, TypeOK
<1>4. CASE Handle /\ due' = due /\ ops' # ops
  <2>1. PICK k \in Ids :
          /\ k = at /\ ops[k] = "none"
          /\ phase \in {"record", "recordError", "sleep"}
          /\ ops' = [ops EXCEPT ![k] =
                       IF phase = "record" THEN "output"
                       ELSE IF phase = "sleep" THEN "sleep" ELSE "error"]
    BY <1>4, HandleWrites
  <2>2. \A i \in Ids : i # k => ops'[i] = ops[i]
    BY <2>1 DEF IInv, TypeOK
  <2>3. \A j \in 0..(k - 1) : Passed(j)'
    BY <1>1, <2>1, PassedKept DEF IInv, ProcessKnows, InBody
  <2>4. \A i \in due' : ops'[i] = "sleep"
    BY <1>3, <1>4, <2>1, <2>2 DEF SleepsInOrder
  <2>5. \A i \in Ids : ops'[i] = "sleep" => \A j \in 0..(i - 1) : Passed(j)'
    BY <1>2, <2>2, <2>3
  <2> QED BY <2>4, <2>5 DEF SleepsInOrder
<1>5. CASE ops' = ops /\ \A i \in due' \ due : ops[i] = "sleep"
  <2>1. \A i \in due' : ops'[i] = "sleep"
    BY <1>5 DEF SleepsInOrder
  <2> QED BY <1>2, <1>5, <2>1 DEF SleepsInOrder
<1> QED BY <1>4, <1>5, HandledOrNot

(* What a handled request does to the run's row and operations is a step   *)
(* of the run.                                                             *)
LEMMA HandleIsAStep ==
  ASSUME IInv, SleepsInOrder, Handle, due' = due
  PROVE  [Run!RunNext]_(Run!runVars)
<1>1. CASE ops' # ops
  <2>1. PICK k \in Ids :
          /\ k = at /\ ops[k] = "none" /\ row' = row
          /\ phase \in {"record", "recordError", "sleep"}
          /\ ops' = [ops EXCEPT ![k] =
                       IF phase = "record" THEN "output"
                       ELSE IF phase = "sleep" THEN "sleep" ELSE "error"]
    BY <1>1, HandleWrites
  <2>2. k \notin due
    BY <2>1 DEF SleepsInOrder
  <2> DEFINE outcome == IF phase = "record" THEN "output"
                        ELSE IF phase = "sleep" THEN "none" ELSE "error"
  <2>3. [i \in Ids |-> IF ops'[i] # "sleep" THEN ops'[i]
                       ELSE IF i \in due' THEN "output" ELSE "none"]
          = [[i \in Ids |-> IF ops[i] # "sleep" THEN ops[i]
                            ELSE IF i \in due THEN "output" ELSE "none"]
               EXCEPT ![k] = outcome]
    BY <2>1, <2>2 DEF IInv, TypeOK
  <2>4. CASE phase = "sleep"
    <3>1. [i \in Ids |-> IF ops'[i] # "sleep" THEN ops'[i]
                         ELSE IF i \in due' THEN "output" ELSE "none"]
            = [i \in Ids |-> IF ops[i] # "sleep" THEN ops[i]
                             ELSE IF i \in due THEN "output" ELSE "none"]
      BY <2>1, <2>3, <2>4
    <3> QED BY <2>1, <3>1 DEF Run!runVars
  <2>5. CASE phase # "sleep"
    <3>1. \A j \in 0..(k - 1) : j \in Ids /\ Passed(j)
      BY <2>1 DEF IInv, ProcessKnows, InBody, Ids
    <3>2. \A j \in 0..(k - 1) : Run!Done(j)
      BY <3>1 DEF Run!Done, Passed, IInv, OnlySleepsSleep, SleepsInOrder
    <3>3. outcome \in {"output", "error"}
      BY <2>1, <2>5
    <3>4. Run!Record(k)
      BY <2>1, <2>3, <3>2, <3>3 DEF Run!Record
    <3> QED BY <3>4 DEF Run!RunNext, Run!RunIds, Ids
  <2> QED BY <2>4, <2>5
<1>2. CASE ops' = ops /\ row' # row
  <2>1. CASE phase = "create"
    <3>1. Run!Create
      BY <1>2, <2>1 DEF Handle, CreateWorkflow, Run!Create
    <3> QED BY <3>1 DEF Run!RunNext
  <2>2. CASE phase = "save"
    <3>1. row \notin {"absent", "CANCELLED"} /\ row' = StatusOf[result]
      BY <1>2, <2>2 DEF Handle, SaveResult
    <3>2. result \in {"completed", "failed", "cancelled"}
      BY <2>2 DEF IInv, ProcessKnows
    <3>3. CASE result = "completed"
      <4>1. \A i \in Ids : Run!Done(i)
        BY <3>3 DEF Run!Done, Passed, IInv, ProcessKnows, OnlySleepsSleep,
           SleepsInOrder
      <4>2. Run!Succeed
        BY <1>2, <3>1, <3>3, <4>1 DEF Run!Succeed, Run!RunIds, Ids, StatusOf
      <4> QED BY <4>2 DEF Run!RunNext
    <3>4. CASE result = "failed"
      <4>1. Run!Fail
        BY <1>2, <3>1, <3>4 DEF Run!Fail, StatusOf
      <4> QED BY <4>1 DEF Run!RunNext
    <3>5. CASE result = "cancelled"
      <4>1. Run!Cancel
        BY <1>2, <3>1, <3>5 DEF Run!Cancel, StatusOf
      <4> QED BY <4>1 DEF Run!RunNext
    <3> QED BY <3>2, <3>3, <3>4, <3>5
  <2>3. phase \in {"create", "save"}
    BY <1>2 DEF Handle, store
  <2> QED BY <2>1, <2>2, <2>3
<1>3. CASE ops' = ops /\ row' = row
  BY <1>3 DEF Run!runVars
<1> QED BY <1>1, <1>2, <1>3

(* A run on the invoke path, over all its dispatches and whatever the      *)
(* network does to it, behaves like the durable run of the abstract        *)
(* specification: calls are settled once and in order, a success has every *)
(* call behind it, a cancellation is undone by a resume alone.             *)
THEOREM Refinement == Spec => ImplementsRun
<1>1. Init => Run!RunInit
  BY DEF Init, Run!RunInit, Run!RunIds, Ids
<1>2. Init => SleepsInOrder
  BY DEF Init, SleepsInOrder
<1>3. IInv /\ SleepsInOrder /\ [Next]_vars => SleepsInOrder'
  BY InOrderKept
<1>4. ASSUME IInv, SleepsInOrder, [Next]_vars
      PROVE  [Run!RunNext]_(Run!runVars)
  <2>1. CASE Handle /\ due' = due
    BY <1>4, <2>1, HandleIsAStep
  <2>2. CASE UNCHANGED <<row, ops, due>>
    BY <2>2 DEF Run!runVars
  <2>3. CASE CancelWorkflow
    <3>1. Run!Cancel
      BY <2>3 DEF CancelWorkflow, Run!Cancel
    <3> QED BY <3>1 DEF Run!RunNext
  <2>4. CASE ResumeWorkflow
    <3>1. Run!Resume
      BY <2>4 DEF ResumeWorkflow, Run!Resume
    <3> QED BY <3>1 DEF Run!RunNext
  <2>5. CASE Wake
    <3>1. PICK k \in Sleeps \ due : ops[k] = "sleep" /\ due' = due \cup {k}
      BY <2>5 DEF Wake
    <3>2. k \in Ids /\ UNCHANGED <<row, ops>>
      BY <2>5, <3>1 DEF Wake
    <3>3. \A j \in 0..(k - 1) : j \in Ids /\ Passed(j)
      BY <1>4, <3>1, <3>2 DEF SleepsInOrder, Ids
    <3>4. \A j \in 0..(k - 1) : Run!Done(j)
      BY <1>4, <3>3 DEF Run!Done, Passed, IInv, OnlySleepsSleep,
         SleepsInOrder
    <3>5. [i \in Ids |-> IF ops'[i] # "sleep" THEN ops'[i]
                         ELSE IF i \in due' THEN "output" ELSE "none"]
            = [[i \in Ids |-> IF ops[i] # "sleep" THEN ops[i]
                              ELSE IF i \in due THEN "output" ELSE "none"]
                 EXCEPT ![k] = "output"]
      BY <3>1, <3>2
    <3>6. Run!Record(k)
      BY <3>1, <3>2, <3>4, <3>5 DEF Run!Record
    <3> QED BY <3>2, <3>6 DEF Run!RunNext, Run!RunIds, Ids
  <2>6. \/ Handle /\ due' = due
        \/ UNCHANGED <<row, ops, due>>
        \/ CancelWorkflow \/ ResumeWorkflow \/ Wake
    BY <1>4 DEF Next, Process, CreateRow, Health, CaptureVarsSnapshot,
       CallCancelled, ReplayStep, RunStep, RecordOutput, RecordError,
       ReadSleep, Sleep, Save, Complete, Answered, Exit, ReplyLost, Outage,
       Crash, Dispatch, vars, store
  <2> QED BY <2>1, <2>2, <2>3, <2>4, <2>5, <2>6
<1> QED BY <1>1, <1>2, <1>3, <1>4, Invariance, PTL
        DEF Spec, ImplementsRun, Run!RunSpec

-----------------------------------------------------------------------------
(* While the requests are answered: the vars of a run do not change, its   *)
(* end is saved, and a failure has a cause.  These rest on an invariant of *)
(* their own, because it holds only until a request fails for good.        *)

Final == {"SUCCESS", "ERROR", "CANCELLED"}

(* A sleep is recorded as one, and only a recorded sleep comes due. *)
SleepsKnown ==
  /\ \A i \in Sleeps : ops[i] \in {"none", "sleep"}
  /\ \A i \in due : ops[i] = "sleep"

RowThere == phase \notin {"create", "down"} => row # "absent"

VarsKept == IF snapshot = "unset" THEN seen = {} ELSE seen \subseteq {snapshot}

Asleep(i) == ops[i] = "sleep" /\ i \notin due

(* A run sleeps one sleep at a time, and its trigger waits meanwhile. *)
OneAsleep ==
  \A i \in Ids : Asleep(i) =>
    trigger = "waiting" /\ \A j \in Ids : Asleep(j) => j = i

Scheduled == phase = "sleep" /\ ops[at] = "sleep"

(* The trigger is started while a process is at a request, but for one     *)
(* that has put it to sleep.                                               *)
Holds ==
  /\ phase = "down" => trigger # "started"
  /\ phase \in Requests => (trigger = "started" <=> ~ Scheduled)

Ended ==
  \/ phase = "exit" /\ trigger = "started"
  \/ phase = "complete"
  \/ trigger = "over"
  => row \in Final

Steady == RowThere /\ VarsKept /\ OneAsleep /\ Holds /\ Ended

Causes ==
  /\ row = "ERROR" \/ result = "failed" \/ phase = "recordError" => threw # {}
  /\ \A i \in Ids : ops[i] = "error" => threw # {}
  /\ phase \in {"record", "recordError"} => ops[at] = "none"
  /\ \A i \in Ids : observed[i] \in {"none", ops[i]}

JInv == SleepsKnown /\ (outages = 0 => Steady) /\ (Reliable => Causes)

-----------------------------------------------------------------------------
LEMMA InitJInv == Init => JInv
BY DEF Init, JInv, SleepsKnown, Steady, RowThere, VarsKept, OneAsleep, Asleep,
       Holds, Scheduled, Ended, Causes, Requests, Reliable, Ids, Final

(* The current call, where the process is in the body. *)
LEMMA CurrentCall ==
  ASSUME IInv, phase \in InBody
  PROVE  at \in Ids /\ at \in Nat
BY DEF IInv, TypeOK, ProcessKnows, InBody, Ids

(* How the process goes on from a request that has not put it to sleep. *)
LEMMA ContinueGoes ==
  ASSUME Continue
  PROVE  /\ phase' \in {"save", "call"}
         /\ result' \in {result, "completed"}
BY DEF Continue

LEMMA ThrowGoes ==
  ASSUME NEW r \in {"failed", "cancelled"}, Throw(r)
  PROVE  /\ phase' \in {"save", "call"}
         /\ result' \in {result, "completed", r}
BY ContinueGoes DEF Throw, EndBody

(* A process that goes on, from a request that does nothing to the store,  *)
(* keeps what is steady.                                                   *)
LEMMA MovesOn ==
  ASSUME SleepsKnown, Steady, phase \in Requests \ {"create"}, ~ Scheduled,
         UNCHANGED <<store, due, seen>>,
         \/ phase' \in {"health", "snapshot", "call", "record", "recordError",
                        "save"}
         \/ phase' = "sleep" /\ at' = at /\ ops[at] = "none"
  PROVE  Steady'
<1>1. RowThere' /\ VarsKept' /\ OneAsleep'
  BY DEF Steady, RowThere, VarsKept, OneAsleep, Asleep, store, Requests
<1>2. trigger = "started"
  BY DEF Steady, Holds
<1>3. Holds'
  BY <1>2 DEF Holds, Scheduled, store, Requests
<1>4. Ended'
  BY <1>2 DEF Ended, store
<1> QED BY <1>1, <1>3, <1>4 DEF Steady

-----------------------------------------------------------------------------
(* The phases around the body. *)
LEMMA CreateRowJ ==
  ASSUME IInv, JInv, CreateRow
  PROVE  JInv'
<1>1. /\ phase = "create" /\ phase' = "health"
      /\ row' = (IF row = "absent" THEN "PENDING" ELSE row)
      /\ UNCHANGED <<snapshot, ops, reports, trigger, due, at, result, supplied,
                     history, bounds>>
  BY DEF CreateRow, Answered, Handle, CreateWorkflow, Goto
<1>2. SleepsKnown'
  BY <1>1 DEF JInv, SleepsKnown
<1>3. ASSUME outages' = 0 PROVE Steady'
  BY <1>1, <1>3 DEF JInv, Steady, RowThere, VarsKept, OneAsleep, Asleep, Holds,
     Scheduled, Ended, Requests, bounds, history, Final
<1>4. ASSUME Reliable' PROVE Causes'
  BY <1>1, <1>4 DEF JInv, Reliable, Causes, bounds, history
<1> QED BY <1>2, <1>3, <1>4 DEF JInv

LEMMA HealthJ ==
  ASSUME IInv, JInv, Health
  PROVE  JInv'
<1>1. /\ phase = "health" /\ phase' = "snapshot"
      /\ UNCHANGED <<store, due, at, result, supplied, history, bounds>>
  BY DEF Health, Answered, Handle, Goto
<1>2. SleepsKnown'
  BY <1>1 DEF JInv, SleepsKnown, store
<1>3. ASSUME outages' = 0 PROVE Steady'
  BY <1>1, <1>3, MovesOn DEF JInv, Scheduled, Requests, bounds, history
<1>4. ASSUME Reliable' PROVE Causes'
  BY <1>1, <1>4 DEF JInv, Reliable, Causes, bounds, history, store
<1> QED BY <1>2, <1>3, <1>4 DEF JInv

LEMMA CaptureVarsSnapshotJ ==
  ASSUME IInv, JInv, CaptureVarsSnapshot
  PROVE  JInv'
<1>1. /\ phase = "snapshot" /\ phase' = "call"
      /\ snapshot' = (IF row # "absent" /\ snapshot = "unset" THEN supplied
                      ELSE snapshot)
      /\ seen' = seen \cup {IF row = "absent" THEN supplied ELSE snapshot'}
      /\ UNCHANGED <<row, ops, reports, trigger, due, at, result, observed, ran,
                     threw, bounds>>
  BY DEF CaptureVarsSnapshot, Answered, Handle, CaptureVars, StartBody, Goto
<1>2. SleepsKnown'
  BY <1>1 DEF JInv, SleepsKnown
<1>3. ASSUME outages' = 0 PROVE Steady'
  <2>1. Steady /\ row # "absent"
    BY <1>1, <1>3 DEF JInv, Steady, RowThere, bounds
  <2>2. supplied # "unset"
    BY <1>1 DEF IInv, ProcessKnows, Early
  <2>3. VarsKept'
    BY <1>1, <2>1, <2>2 DEF Steady, VarsKept
  <2> QED BY <1>1, <2>1, <2>3 DEF Steady, RowThere, OneAsleep, Asleep, Holds,
             Scheduled, Ended, Requests
<1>4. ASSUME Reliable' PROVE Causes'
  BY <1>1, <1>4 DEF JInv, Reliable, Causes, bounds
<1> QED BY <1>2, <1>3, <1>4 DEF JInv

-----------------------------------------------------------------------------
(* The calls of the body. *)
LEMMA CallCancelledJ ==
  ASSUME IInv, JInv, CallCancelled
  PROVE  JInv'
<1>1. /\ phase = "call" /\ Throw("cancelled")
      /\ UNCHANGED <<store, due, supplied, history, bounds>>
  BY DEF CallCancelled, Answered, Handle
<1>2. phase' \in {"save", "call"} /\ result' \in {result, "completed", "cancelled"}
  BY <1>1, ThrowGoes
<1>3. SleepsKnown'
  BY <1>1 DEF JInv, SleepsKnown, store
<1>4. ASSUME outages' = 0 PROVE Steady'
  BY <1>1, <1>2, <1>4, MovesOn DEF JInv, Scheduled, Requests, bounds, history
<1>5. ASSUME Reliable' PROVE Causes'
  BY <1>1, <1>2, <1>5 DEF JInv, Reliable, Causes, bounds, history, store
<1> QED BY <1>3, <1>4, <1>5 DEF JInv

LEMMA ReplayStepJ ==
  ASSUME IInv, JInv, ReplayStep
  PROVE  JInv'
<1>1. /\ phase = "call" /\ at \in Ids
      /\ IF ops[at] = "error" THEN Throw("failed") ELSE Continue
      /\ observed' = [observed EXCEPT ![at] = ops[at]]
      /\ UNCHANGED <<store, due, supplied, seen, ran, threw, bounds>>
  BY CurrentCall DEF ReplayStep, Answered, Handle, Sees, InBody
<1>2. /\ phase' \in {"save", "call"}
      /\ result' \in {result, "completed"} \/ (result' = "failed" /\ ops[at] = "error")
  BY <1>1, ThrowGoes, ContinueGoes
<1>3. SleepsKnown'
  BY <1>1 DEF JInv, SleepsKnown, store
<1>4. ASSUME outages' = 0 PROVE Steady'
  BY <1>1, <1>2, <1>4, MovesOn DEF JInv, Scheduled, Requests, bounds
<1>5. ASSUME Reliable' PROVE Causes'
  <2>1. \A i \in Ids : observed'[i] \in {observed[i], ops[i]}
    BY <1>1 DEF IInv, TypeOK
  <2> QED BY <1>1, <1>2, <1>5, <2>1 DEF JInv, Reliable, Causes, bounds, store
<1> QED BY <1>3, <1>4, <1>5 DEF JInv

LEMMA RunStepJ ==
  ASSUME IInv, JInv, RunStep
  PROVE  JInv'
<1>1. /\ phase = "call" /\ ops[at] = "none"
      /\ UNCHANGED <<store, due, supplied, seen, observed, at, result, bounds>>
      /\ \/ phase' = "record" /\ UNCHANGED threw
         \/ phase' = "recordError" /\ threw' = threw \cup {at}
  BY DEF RunStep, Answered, Handle, Goto
<1>2. SleepsKnown'
  BY <1>1 DEF JInv, SleepsKnown, store
<1>3. ASSUME outages' = 0 PROVE Steady'
  BY <1>1, <1>3, MovesOn DEF JInv, Scheduled, Requests, bounds
<1>4. ASSUME Reliable' PROVE Causes'
  BY <1>1, <1>4 DEF JInv, Reliable, Causes, bounds, store
<1> QED BY <1>2, <1>3, <1>4 DEF JInv

(* What recording a step does to the operations. *)
LEMMA StepRecorded ==
  ASSUME IInv, JInv, at \in Ids \ Sleeps, NEW kind \in {"output", "error"},
         RecordOperation(kind)
  PROVE  /\ \A i \in Ids : ops'[i] = ops[i] \/ (i = at /\ ops'[i] = kind)
         /\ \A i \in Ids : ops'[i] = "sleep" <=> ops[i] = "sleep"
         /\ \A i \in Sleeps : ops'[i] = ops[i]
         /\ Sleeps \subseteq Ids /\ due \subseteq Ids
<1>1. ops' = ops \/ (ops[at] = "none" /\ ops' = [ops EXCEPT ![at] = kind])
  BY DEF RecordOperation, Accepts
<1>2. DOMAIN ops = Ids /\ due \subseteq Sleeps
  BY DEF IInv, TypeOK
<1> QED BY <1>1, <1>2

(* A record that is accepted is what the body sees. *)
LEMMA SeenThenRecorded ==
  ASSUME IInv, Causes, at \in Ids, NEW kind \in {"output", "error"},
         RecordOperation(kind), Accepts(at),
         observed' = [observed EXCEPT ![at] = kind]
  PROVE  \A i \in Ids : observed'[i] \in {"none", ops'[i]}
<1>1. ops' = [ops EXCEPT ![at] = kind] /\ DOMAIN ops = Ids /\ DOMAIN observed = Ids
  BY DEF RecordOperation, IInv, TypeOK
<1> QED BY <1>1 DEF Causes

LEMMA RecordJ ==
  ASSUME IInv, JInv, RecordOutput \/ RecordError
  PROVE  JInv'
<1>1. /\ phase \in {"record", "recordError"} /\ at \in Ids \ Sleeps
      /\ UNCHANGED <<row, snapshot, reports, trigger, due, supplied, seen, ran,
                     threw, bounds>>
  BY CurrentCall DEF RecordOutput, RecordError, Answered, Handle, IInv,
     ProcessKnows, InBody
<1>2. RecordOperation("output") \/ RecordOperation("error")
  BY DEF RecordOutput, RecordError, Answered, Handle
<1>3. /\ \A i \in Ids : ops'[i] = ops[i] \/ (i = at /\ ops'[i] \in {"output", "error"})
      /\ \A i \in Ids : ops'[i] = "sleep" <=> ops[i] = "sleep"
      /\ \A i \in Sleeps : ops'[i] = ops[i]
      /\ Sleeps \subseteq Ids /\ due \subseteq Ids
  BY <1>1, <1>2, StepRecorded
<1>4. SleepsKnown'
  BY <1>1, <1>3 DEF JInv, SleepsKnown
<1>5. phase' \in {"save", "call", "recordError"}
  BY ContinueGoes, ThrowGoes DEF RecordOutput, RecordError, Goto
<1>6. ASSUME outages' = 0 PROVE Steady'
  <2>1. Steady /\ trigger = "started"
    BY <1>1, <1>6 DEF JInv, Steady, Holds, Scheduled, Requests, bounds
  <2>2. RowThere' /\ VarsKept' /\ Holds' /\ Ended'
    BY <1>1, <1>5, <2>1 DEF Steady, RowThere, VarsKept, Holds, Scheduled, Ended,
       Requests
  <2>3. OneAsleep'
    BY <1>1, <1>3, <2>1 DEF Steady, OneAsleep, Asleep
  <2> QED BY <2>2, <2>3 DEF Steady
<1>7. ASSUME Reliable' PROVE Causes'
  <2>1. Reliable /\ Causes /\ Steady /\ row # "absent"
    BY <1>1, <1>7 DEF JInv, Reliable, Steady, RowThere, bounds
  <2>2. CASE RecordOutput
    <3>1. Accepts(at) /\ RecordOperation("output") /\ Continue
      BY <2>1, <2>2 DEF RecordOutput, Answered, Handle, Accepts, Causes
    <3>2. \A i \in Ids : ops'[i] = ops[i] \/ ops'[i] = "output"
      BY <1>1, <3>1, StepRecorded
    <3>3. observed' = [observed EXCEPT ![at] = "output"]
      BY <2>2, <3>1 DEF RecordOutput, Sees
    <3>4. \A i \in Ids : observed'[i] \in {"none", ops'[i]}
      BY <1>1, <2>1, <3>1, <3>3, SeenThenRecorded
    <3> QED BY <1>1, <2>1, <3>1, <3>2, <3>4, ContinueGoes DEF Causes
  <2>3. CASE RecordError
    <3>1. threw # {} /\ Throw("failed")
      BY <2>1, <2>3 DEF RecordError, Answered, Causes
    <3>2. phase' \in {"save", "call"}
      BY <3>1, ThrowGoes
    <3>3. /\ RecordOperation("error") /\ Accepts(at)
          /\ observed' = [observed EXCEPT ![at] = "error"]
      BY <2>1, <2>3 DEF RecordError, Answered, Handle, Sees, Accepts, Causes
    <3>4. \A i \in Ids : observed'[i] \in {"none", ops'[i]}
      BY <1>1, <2>1, <3>3, SeenThenRecorded
    <3> QED BY <1>1, <3>1, <3>2, <3>4 DEF Causes
  <2> QED BY <2>2, <2>3
<1> QED BY <1>4, <1>6, <1>7 DEF JInv

LEMMA ReadSleepJ ==
  ASSUME IInv, JInv, ReadSleep
  PROVE  JInv'
<1>1. /\ phase = "call" /\ at \in Sleeps /\ at \in Ids
      /\ UNCHANGED <<store, due, supplied, history, bounds>>
      /\ IF ops[at] = "none" THEN Goto("sleep")
         ELSE IF at \in due THEN Continue ELSE EndBody("suspended")
  BY CurrentCall DEF ReadSleep, Answered, Handle, InBody
<1>2. SleepsKnown'
  BY <1>1 DEF JInv, SleepsKnown, store
<1>3. ASSUME outages' = 0 PROVE Steady'
  <2>1. Steady /\ SleepsKnown /\ trigger = "started"
    BY <1>1, <1>3 DEF JInv, Steady, Holds, Scheduled, Requests, bounds
  <2>2. ops[at] = "none" \/ at \in due
    BY <1>1, <2>1 DEF SleepsKnown, Steady, OneAsleep, Asleep
  <2>3. \/ phase' \in {"save", "call"}
        \/ phase' = "sleep" /\ at' = at /\ ops[at] = "none"
    BY <1>1, <2>2, ContinueGoes DEF Goto
  <2> QED BY <1>1, <2>1, <2>3, MovesOn DEF Scheduled, Requests, history
<1>4. ASSUME Reliable' PROVE Causes'
  <2>1. result' # "failed" \/ result' = result
    BY <1>1, ContinueGoes DEF Goto, EndBody
  <2>2. phase' \notin {"record", "recordError"}
    BY <1>1, ContinueGoes DEF Goto, EndBody
  <2> QED BY <1>1, <1>4, <2>1, <2>2 DEF JInv, Reliable, Causes, bounds, history,
             store
<1> QED BY <1>2, <1>3, <1>4 DEF JInv

(* A sleep that is scheduled, or scheduled again: it alone is asleep, or   *)
(* it has come due already.                                                *)
LEMMA SleepScheduled ==
  ASSUME IInv, JInv, phase = "sleep", ScheduleSleep, UNCHANGED due
  PROVE  /\ at \in Ids /\ SleepsKnown'
         /\ \A i \in Ids : ops'[i] = "error" => ops[i] = "error"
         /\ \A i \in Ids : ops[i] # "none" => ops'[i] = ops[i]
         /\ Steady => /\ OneAsleep' /\ ops'[at] = "sleep"
                      /\ trigger' # "started" /\ (trigger' = "over" => trigger = "over")
<1>1. at \in Ids /\ at \in Sleeps
  BY CurrentCall DEF IInv, ProcessKnows, InBody
<1>2. /\ ops' = (IF Accepts(at) THEN [ops EXCEPT ![at] = "sleep"] ELSE ops)
      /\ trigger' = (IF row # "absent" /\ at \notin due THEN "waiting" ELSE trigger)
  BY DEF ScheduleSleep, RecordOperation
<1>3. DOMAIN ops = Ids /\ due \subseteq Ids /\ Sleeps \subseteq Ids
  BY DEF IInv, TypeOK
<1>4. \A i \in Ids : ops'[i] = ops[i] \/ (i = at /\ ops'[i] = "sleep")
  BY <1>2, <1>3
<1>5. SleepsKnown'
  BY <1>3, <1>4 DEF JInv, SleepsKnown
<1>6. /\ \A i \in Ids : ops'[i] = "error" => ops[i] = "error"
      /\ \A i \in Ids : ops[i] # "none" => ops'[i] = ops[i]
  BY <1>2, <1>3, <1>4 DEF Accepts
<1>7. ASSUME Steady
      PROVE  /\ OneAsleep' /\ ops'[at] = "sleep"
             /\ trigger' # "started" /\ (trigger' = "over" => trigger = "over")
  <2>1. row # "absent"
    BY <1>7 DEF Steady, RowThere
  <2>2. CASE ops[at] = "sleep"
    <3>1. ops' = ops
      BY <1>2, <2>2 DEF Accepts
    <3>2. trigger' = trigger
      BY <1>1, <1>2, <1>7, <2>2 DEF Steady, OneAsleep, Asleep
    <3>3. trigger # "started"
      BY <1>7, <2>2 DEF Steady, Holds, Scheduled, Requests
    <3> QED BY <1>7, <2>2, <3>1, <3>2, <3>3 DEF Steady, OneAsleep, Asleep
  <2>3. CASE ops[at] # "sleep"
    <3>1. ops[at] = "none" /\ at \notin due
      BY <1>1, <2>3 DEF JInv, SleepsKnown
    <3>2. trigger' = "waiting" /\ ops' = [ops EXCEPT ![at] = "sleep"]
      BY <1>2, <2>1, <3>1 DEF Accepts
    <3>3. trigger = "started"
      BY <1>7, <2>3 DEF Steady, Holds, Scheduled, Requests
    <3>4. \A i \in Ids : ~ Asleep(i)
      BY <1>7, <3>3 DEF Steady, OneAsleep
    <3>5. OneAsleep'
      BY <1>3, <3>2, <3>4 DEF OneAsleep, Asleep
    <3> QED BY <1>1, <1>3, <3>2, <3>5
  <2> QED BY <2>2, <2>3
<1> QED BY <1>1, <1>5, <1>6, <1>7

LEMMA SleepJ ==
  ASSUME IInv, JInv, Sleep
  PROVE  JInv'
<1>1. /\ phase = "sleep" /\ ScheduleSleep
      /\ EndBody(IF row = "absent" THEN "failed" ELSE "suspended")
      /\ UNCHANGED <<row, snapshot, reports, due, supplied, history, bounds>>
  BY DEF Sleep, Answered, Handle
<1>2. /\ SleepsKnown'
      /\ \A i \in Ids : ops'[i] = "error" => ops[i] = "error"
      /\ \A i \in Ids : ops[i] # "none" => ops'[i] = ops[i]
  BY <1>1, SleepScheduled
<1>3. outages' = 0 => row # "absent" /\ phase' = "exit" /\ result' = "suspended"
  BY <1>1 DEF JInv, Steady, RowThere, bounds, EndBody
<1>4. ASSUME outages' = 0 PROVE Steady'
  <2>1. Steady
    BY <1>1, <1>4 DEF JInv, bounds
  <2>2. OneAsleep' /\ trigger' # "started" /\ (trigger' = "over" => trigger = "over")
    BY <1>1, <2>1, SleepScheduled
  <2> QED BY <1>1, <1>3, <1>4, <2>1, <2>2
          DEF Steady, RowThere, VarsKept, Holds, Ended, Requests, history
<1>5. ASSUME Reliable' PROVE Causes'
  BY <1>1, <1>2, <1>3, <1>5 DEF JInv, Reliable, Causes, bounds, history
<1> QED BY <1>2, <1>4, <1>5 DEF JInv

-----------------------------------------------------------------------------
(* The end of the run. *)

(* A save leaves an end in a row that is there. *)
LEMMA SaveEnds ==
  ASSUME IInv, phase = "save", SaveResult
  PROVE  /\ row # "absent" => row' \in Final
         /\ row' = "ERROR" => row = "ERROR" \/ result = "failed"
BY DEF IInv, ProcessKnows, SaveResult, StatusOf, Final, TypeOK, RowStatuses

LEMMA SaveJ ==
  ASSUME IInv, JInv, Save
  PROVE  JInv'
<1>1. /\ phase = "save" /\ SaveResult /\ phase' \in {"exit", "complete"}
      /\ UNCHANGED <<snapshot, ops, reports, trigger, due, at, result, supplied,
                     history, bounds>>
  BY DEF Save, Answered, Handle, AfterSave, Goto
<1>2. SleepsKnown'
  BY <1>1 DEF JInv, SleepsKnown
<1>3. ASSUME outages' = 0 PROVE Steady'
  <2>1. Steady /\ trigger = "started" /\ row # "absent"
    BY <1>1, <1>3 DEF JInv, Steady, RowThere, Holds, Scheduled, Requests, bounds
  <2>2. row' \in Final
    BY <1>1, <2>1, SaveEnds
  <2> QED BY <1>1, <2>1, <2>2 DEF Steady, RowThere, VarsKept, OneAsleep, Asleep,
             Holds, Scheduled, Ended, Requests, history, Final
<1>4. ASSUME Reliable' PROVE Causes'
  BY <1>1, <1>4, SaveEnds DEF JInv, Reliable, Causes, bounds, history
<1> QED BY <1>2, <1>3, <1>4 DEF JInv

LEMMA LeaveJ ==
  ASSUME IInv, JInv, Complete \/ Exit
  PROVE  JInv'
<1>1. UNCHANGED <<row, snapshot, ops, due, at, result, supplied, history, bounds>>
  BY DEF Complete, Exit, Answered, Handle, Goto
<1>2. SleepsKnown'
  BY <1>1 DEF JInv, SleepsKnown
<1>3. phase' \in {"exit", "down"}
  BY DEF Complete, Exit, Goto
<1>4. ASSUME outages' = 0 PROVE Steady'
  <2>1. Steady
    BY <1>1, <1>4 DEF JInv, bounds
  <2>2. RowThere' /\ VarsKept'
    BY <1>1, <2>1 DEF Complete, Exit, Answered, Goto, Steady, RowThere, VarsKept,
       history
  <2>3. CASE Complete
    BY <1>1, <2>1, <2>2, <2>3 DEF Complete, Answered, Handle, Goto, Steady,
       OneAsleep, Asleep, Holds, Ended, Requests
  <2>4. CASE Exit
    BY <1>1, <2>1, <2>2, <2>4 DEF Exit, Steady, OneAsleep, Asleep, Holds, Ended,
       Requests
  <2> QED BY <2>3, <2>4
<1>5. ASSUME Reliable' PROVE Causes'
  BY <1>1, <1>3, <1>5 DEF JInv, Reliable, Causes, bounds, history
<1> QED BY <1>2, <1>4, <1>5 DEF JInv

-----------------------------------------------------------------------------
(* Lost replies, outages, crashes, and the world around the process. *)
LEMMA ReplyLostJ ==
  ASSUME IInv, JInv, ReplyLost
  PROVE  JInv'
<1>1. /\ Handle /\ lost' = lost + 1 /\ phase \in Requests
      /\ UNCHANGED <<due, phase, at, supplied, result, seen, outages>>
  BY DEF ReplyLost, process, history
<1>2. ~ Reliable'
  BY <1>1 DEF Reliable, IInv, TypeOK
<1>3. CASE phase = "sleep"
  <2>1. ScheduleSleep /\ UNCHANGED <<row, snapshot>>
    BY <1>1, <1>3 DEF Handle
  <2>2. SleepsKnown'
    BY <1>1, <1>3, <2>1, SleepScheduled
  <2>3. ASSUME outages' = 0 PROVE Steady'
    BY <1>1, <1>3, <2>1, <2>3, SleepScheduled DEF JInv, Steady, RowThere,
       VarsKept, Holds, Scheduled, Ended, Requests
  <2> QED BY <1>2, <2>2, <2>3 DEF JInv
<1>4. CASE phase \in {"record", "recordError"}
  <2>1. /\ RecordOperation("output") \/ RecordOperation("error")
        /\ UNCHANGED <<row, snapshot, trigger>>
    BY <1>1, <1>4 DEF Handle
  <2>2. at \in Ids \ Sleeps
    BY <1>4, CurrentCall DEF IInv, ProcessKnows, InBody
  <2>3. /\ \A i \in Ids : ops'[i] = "sleep" <=> ops[i] = "sleep"
        /\ \A i \in Sleeps : ops'[i] = ops[i]
        /\ Sleeps \subseteq Ids /\ due \subseteq Ids
    BY <2>1, <2>2, StepRecorded
  <2>4. SleepsKnown'
    BY <1>1, <2>3 DEF JInv, SleepsKnown
  <2>5. ASSUME outages' = 0 PROVE Steady'
    BY <1>1, <1>4, <2>1, <2>3, <2>5 DEF JInv, Steady, RowThere, VarsKept,
       OneAsleep, Asleep, Holds, Scheduled, Ended, Requests
  <2> QED BY <1>2, <2>4, <2>5 DEF JInv
<1>5. CASE phase \in {"create", "health", "snapshot", "call", "save", "complete"}
  <2>1. UNCHANGED <<ops, trigger>>
    BY <1>1, <1>5 DEF Handle, store
  <2>2. SleepsKnown'
    BY <1>1, <2>1 DEF JInv, SleepsKnown
  <2>3. ASSUME outages' = 0 PROVE Steady'
    <3>1. Steady
      BY <1>1, <2>3 DEF JInv
    <3>2. OneAsleep' /\ Holds'
      BY <1>1, <1>5, <2>1, <3>1 DEF Steady, OneAsleep, Asleep, Holds, Scheduled,
         Requests
    <3>3. VarsKept'
      BY <1>1, <1>5, <3>1 DEF Handle, store, CaptureVars, Steady, VarsKept
    <3>4. row \in Final => row' \in Final
      BY <1>1, <1>5, SaveEnds DEF Handle, store, CreateWorkflow, Final
    <3>5. row # "absent" => row' # "absent"
      BY <1>1, <1>5, SaveEnds DEF Handle, store, CreateWorkflow, Final
    <3> QED BY <1>1, <2>1, <3>1, <3>2, <3>3, <3>4, <3>5
            DEF Steady, RowThere, Ended
  <2> QED BY <1>2, <2>2, <2>3 DEF JInv
<1> QED BY <1>1, <1>3, <1>4, <1>5 DEF Requests

LEMMA OutageJ ==
  ASSUME IInv, JInv, Outage
  PROVE  JInv'
<1>1. outages' = outages + 1 /\ UNCHANGED <<ops, due>>
  BY DEF Outage, store
<1>2. outages' # 0
  BY <1>1 DEF IInv, TypeOK
<1> QED BY <1>1, <1>2 DEF JInv, SleepsKnown, Reliable

LEMMA WorldJ ==
  ASSUME IInv, JInv,
         Crash \/ Dispatch \/ Wake \/ CancelWorkflow \/ ResumeWorkflow
  PROVE  JInv'
<1>1. UNCHANGED <<snapshot, ops, seen, observed, threw, outages, lost>>
  BY DEF Crash, Dispatch, Wake, CancelWorkflow, ResumeWorkflow, history, bounds
<1>2. SleepsKnown'
  BY <1>1 DEF Crash, Dispatch, Wake, CancelWorkflow, ResumeWorkflow, JInv,
     SleepsKnown
<1>3. ASSUME outages' = 0 PROVE Steady'
  <2>1. Steady
    BY <1>1, <1>3 DEF JInv
  <2>2. VarsKept'
    BY <1>1, <2>1 DEF Steady, VarsKept
  <2>3. CASE Crash
    BY <1>1, <2>1, <2>2, <2>3 DEF Crash, Steady, RowThere, OneAsleep, Asleep,
       Holds, Ended, Requests
  <2>4. CASE Dispatch
    BY <1>1, <2>1, <2>2, <2>4 DEF Dispatch, Steady, RowThere, OneAsleep, Asleep,
       Holds, Scheduled, Ended, Requests
  <2>5. CASE Wake
    <3>1. PICK i \in Sleeps \ due : ops[i] = "sleep" /\ due' = due \cup {i}
      BY <2>5 DEF Wake
    <3>2. /\ trigger' = (IF trigger = "waiting" THEN "pending" ELSE trigger)
          /\ UNCHANGED <<row, phase, at>>
      BY <2>5 DEF Wake, process
    <3>3. i \in Ids /\ Asleep(i)
      BY <3>1 DEF Asleep
    <3>4. \A j \in Ids : Asleep(j)' => FALSE
      BY <1>1, <2>1, <3>1, <3>3 DEF Steady, OneAsleep, Asleep
    <3>5. OneAsleep'
      BY <3>4 DEF OneAsleep
    <3> QED BY <1>1, <2>1, <2>2, <3>2, <3>5 DEF Steady, RowThere, Holds,
            Scheduled, Ended, Requests
  <2>6. CASE CancelWorkflow
    BY <1>1, <2>1, <2>2, <2>6 DEF CancelWorkflow, process, Steady, RowThere,
       OneAsleep, Asleep, Holds, Scheduled, Ended, Requests, Final
  <2>7. CASE ResumeWorkflow
    BY <1>1, <2>1, <2>2, <2>7 DEF ResumeWorkflow, process, Steady, RowThere,
       OneAsleep, Asleep, Holds, Scheduled, Ended, Requests
  <2> QED BY <2>3, <2>4, <2>5, <2>6, <2>7
<1>4. ASSUME Reliable' PROVE Causes'
  BY <1>1, <1>4 DEF Crash, Dispatch, Wake, CancelWorkflow, ResumeWorkflow,
     process, JInv, Reliable, Causes
<1> QED BY <1>2, <1>3, <1>4 DEF JInv

LEMMA StutterJ == JInv /\ UNCHANGED vars => JInv'
BY DEF vars, store, process, history, bounds, JInv, SleepsKnown, Steady, RowThere,
       VarsKept, OneAsleep, Asleep, Holds, Scheduled, Ended, Causes, Reliable

LEMMA NextJ == IInv /\ JInv /\ [Next]_vars => JInv'
BY CreateRowJ, HealthJ, CaptureVarsSnapshotJ, CallCancelledJ, ReplayStepJ,
   RunStepJ, RecordJ, ReadSleepJ, SleepJ, SaveJ, LeaveJ, ReplyLostJ, OutageJ,
   WorldJ, StutterJ DEF Next, Process

-----------------------------------------------------------------------------
(* What is steady until a request fails for good. *)
THEOREM InvarianceJ == Spec => []JInv
<1>1. Init => JInv
  BY InitJInv
<1>2. IInv /\ JInv /\ [Next]_vars => JInv'
  BY NextJ
<1> QED BY <1>1, <1>2, Invariance, PTL DEF Spec

(* The bodies of a run all see the same vars, whatever the environment of  *)
(* a later dispatch holds (invoke.ts:189-203).                             *)
THEOREM VarsStay == Spec => []SameVars
<1>1. JInv => SameVars
  BY DEF JInv, Steady, VarsKept, SameVars
<1> QED BY <1>1, InvarianceJ, PTL

(* A run the dispatcher gave up has an end its row tells, however many     *)
(* processes it took (run-status-lifecycle.ts reportTerminalState).        *)
THEOREM OverSaved == Spec => []OverMeansSaved
<1>1. JInv => OverMeansSaved
  BY DEF JInv, Steady, Ended, OverMeansSaved, Final
<1> QED BY <1>1, InvarianceJ, PTL

(* Where requests are answered, nothing but a step's function that threw   *)
(* fails a run (invoke.ts step).                                           *)
THEOREM ErrorCaused == Spec => []ErrorHasCauseIfReliable
<1>1. JInv => ErrorHasCauseIfReliable
  BY DEF JInv, Causes, ErrorHasCauseIfReliable, ErrorHasCause
<1> QED BY <1>1, InvarianceJ, PTL

(* A body does not forget what it was given. *)
LEMMA StillSeen ==
  ASSUME IInv, [Next]_vars, NEW i \in Ids, observed[i] # "none"
  PROVE  observed'[i] # "none"
<1>1. CASE ReplayStep \/ RecordOutput \/ RecordError \/ Outage
  <2>1. \/ observed' = observed
        \/ \E kind : kind # "none" /\ observed' = [observed EXCEPT ![at] = kind]
    BY <1>1 DEF ReplayStep, RecordOutput, RecordError, Outage, StartBody, Sees,
       history
  <2> QED BY <2>1 DEF IInv, TypeOK
<1>2. CASE UNCHANGED observed
  BY <1>2
<1> QED BY <1>1, <1>2 DEF Next, Process, CreateRow, Health, CaptureVarsSnapshot,
        CallCancelled, RunStep, ReadSleep, Sleep, Save, Complete, Exit, ReplyLost,
        Crash, Dispatch, Wake, CancelWorkflow, ResumeWorkflow, vars, history

(* While requests are answered, a replay gives a body the outcome an       *)
(* earlier one was given (invoke.ts step).                                 *)
THEOREM ReplayAgreed == Spec => ReplayAgrees
<1>1. ASSUME IInv, JInv, JInv', [Next]_vars, Reliable', NEW i \in Ids,
             observed[i] # "none"
      PROVE  observed'[i] = observed[i]
  <2>1. Reliable
    <3>1. lost' \in {lost, lost + 1} /\ outages' \in {outages, outages + 1}
      BY <1>1 DEF Next, Process, CreateRow, Health, CaptureVarsSnapshot,
         CallCancelled, ReplayStep, RunStep, RecordOutput, RecordError, ReadSleep,
         Sleep, Save, Complete, Exit, Answered, ReplyLost, Outage, Crash,
         Dispatch, Wake, CancelWorkflow, ResumeWorkflow, vars, bounds
    <3> QED BY <1>1, <3>1 DEF Reliable, IInv, TypeOK
  <2>2. ops[i] = observed[i] /\ observed'[i] \in {"none", ops'[i]}
    BY <1>1, <2>1 DEF JInv, Causes
  <2>3. ops'[i] = ops[i]
    BY <1>1, <2>2, HandledOrNot, HandleWritesOnce
  <2>4. observed'[i] # "none"
    BY <1>1, StillSeen
  <2> QED BY <2>2, <2>3, <2>4
<1>2. IInv /\ JInv /\ JInv' /\ [Next]_vars =>
        [Reliable' => \A i \in Ids : observed[i] # "none" => observed'[i] = observed[i]]_vars
  BY <1>1
<1> QED BY <1>2, Invariance, InvarianceJ, PTL DEF Spec, ReplayAgrees
=============================================================================
