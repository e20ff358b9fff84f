--------------------------- MODULE ExecutorProofs ----------------------------
(***************************************************************************)
(* Proofs about Executor, for any number of processes and steps and every  *)
(* bound on crashes, lost replies and operators' requests.                 *)
(***************************************************************************)
EXTENDS Executor, TLAPS

USE ExecutorAssumption

(* What a step of p leaves alone, and what it re-establishes. *)
FrameTyped ==
  /\ pc \in [Procs -> Running \cup {"down", "idle"}]
  /\ at \in [Procs -> Ids]
  /\ attempt \in [Procs -> 1..MaxAttempts]
  /\ outcome \in [Procs -> {"none", "output", "error"}]
  /\ cache \in [Procs -> BOOLEAN]
  /\ timer \in [Procs -> {"none", "armed", "fired", "posted"}]

Others(p) ==
  \A q \in Procs \ {p} :
    /\ pc'[q] = pc[q] /\ at'[q] = at[q] /\ attempt'[q] = attempt[q]
    /\ outcome'[q] = outcome[q] /\ timer'[q] = timer[q]
    /\ fails'[q] = fails[q] /\ granted'[q] = granted[q]

Moved(p) == FrameTyped' /\ Others(p) /\ Knows(p)'

(* Operations are only ever added. *)
Grown == \A i \in Ids : ops[i] # None => ops'[i] = ops[i]

LEMMA InitIInv == Init => IInv
<1> SUFFICES ASSUME Init PROVE IInv
  OBVIOUS
<1> USE DEF Init
<1>1. TypeOK
  <2>1. ops \in [Ids -> Results \cup {None}]
    OBVIOUS
  <2>2. seen \in [Procs -> [Ids -> Results \cup {None}]]
    OBVIOUS
  <2>3. /\ at \in [Procs -> Ids] /\ attempt \in [Procs -> 1..MaxAttempts]
        /\ fails \in [Procs -> 0..MaxAttempts]
        /\ granted \in [Procs -> 0..MaxGranted]
    BY DEF Ids
  <2>4. /\ pc \in [Procs -> Running \cup {"down", "idle"}]
        /\ outcome \in [Procs -> {"none", "output", "error"}]
        /\ cache \in [Procs -> BOOLEAN]
        /\ timer \in [Procs -> {"none", "armed", "fired", "posted"}]
    OBVIOUS
  <2>5. /\ crashes \in 0..MaxCrashes /\ lost \in 0..MaxLost
        /\ requests \in 0..MaxRequests
    OBVIOUS
  <2> QED BY <2>1, <2>2, <2>3, <2>4, <2>5 DEF TypeOK, RowStatuses
<1>2. ProcessKnows
  BY DEF ProcessKnows, Knows, InBody
<1>3. NothingBeforeStart
  BY DEF NothingBeforeStart, Running, InBody
<1>4. RowFollowsOps /\ SeenIsRecorded /\ ReportsFollowOps
  BY DEF RowFollowsOps, SeenIsRecorded, ReportsFollowOps
<1> QED BY <1>1, <1>2, <1>3, <1>4 DEF IInv

LEMMA GrownKeeps ==
  ASSUME TypeOK, Grown
  PROVE  /\ \A i \in Ids : Done(i) => Done(i)'
         /\ Succeeded => Succeeded'
         /\ Failed => Failed'
<1>1. \A i \in Ids : ops[i] # None => (Done(i)' <=> Done(i))
  BY DEF Grown, Done
<1>2. \A i \in Ids : Done(i) => Done(i)'
  <2> SUFFICES ASSUME NEW i \in Ids, Done(i) PROVE Done(i)'
    OBVIOUS
  <2>1. CASE i \in Guarded
    BY <2>1 DEF Done
  <2>2. CASE i \notin Guarded
    <3>1. ops[i].kind = "output"
      BY <2>2 DEF Done
    <3>2. ops[i] # None
      BY <3>1 DEF None
    <3> QED BY <1>1, <3>2
  <2> QED BY <2>1, <2>2
<1>3. Failed => Failed'
  BY <1>1 DEF Failed, Grown
<1> QED BY <1>2, <1>3 DEF Succeeded

(* A process that did not move knows what it knew. *)
LEMMA OtherKnows ==
  ASSUME IInv, Grown, NEW p \in Procs, Others(p), Knows(p)'
  PROVE  ProcessKnows'
<1> SUFFICES ASSUME NEW q \in Procs \ {p} PROVE Knows(q)'
  BY DEF ProcessKnows
<1>1. /\ pc'[q] = pc[q] /\ at'[q] = at[q] /\ attempt'[q] = attempt[q]
      /\ outcome'[q] = outcome[q] /\ timer'[q] = timer[q]
      /\ fails'[q] = fails[q] /\ granted'[q] = granted[q]
  BY DEF Others
<1>2. Knows(q)
  BY DEF IInv, ProcessKnows
<1>3. pc[q] \in InBody => \A j \in 0..(at[q] - 1) : Done(j)'
  <2>1. \A j \in 0..(at[q] - 1) : j \in Ids
    BY SMTT(30) DEF IInv, TypeOK, Ids
  <2> QED BY <1>2, <2>1, GrownKeeps DEF Knows, IInv
<1> QED BY <1>1, <1>2, <1>3, GrownKeeps DEF Knows, IInv

-----------------------------------------------------------------------------
(* How a process goes on. *)
LEMMA EndBodyMoves ==
  ASSUME IInv, NEW p \in Procs, pc[p] \in InBody,
         NEW why \in {"output", "error", "cancelled", "conflict"},
         EndBody(p, why), UNCHANGED <<fails, granted>>,
         why = "output" => Succeeded', why = "error" => Failed'
  PROVE  Moved(p)
<1> USE DEF EndBody, Finish, Goto, Remember, Cancelled, IInv, TypeOK
<1>1. FrameTyped'
  BY ZenonT(30) DEF FrameTyped, Running
<1>2. Others(p)
  BY DEF Others
<1>3. Knows(p)'
  BY DEF Knows, InBody
<1> QED BY <1>1, <1>2, <1>3 DEF Moved

LEMMA ContinueMoves ==
  ASSUME IInv, NEW p \in Procs, pc[p] \in InBody, Continue(p),
         UNCHANGED <<fails, granted>>,
         NEW k \in Ids, k = at[p], \A j \in 0..k : Done(j)'
  PROVE  Moved(p)
<1>1. CASE at[p] + 1 = Calls
  <2>1. Ids = 0..k
    BY <1>1 DEF Ids
  <2>2. Succeeded'
    BY <2>1 DEF Succeeded
  <2> QED BY <1>1, <2>2, EndBodyMoves DEF Continue
<1>2. CASE at[p] + 1 # Calls
  <2>1. k + 1 \in Ids /\ k \in Nat
    BY <1>2 DEF Ids
  <2> USE <1>2 DEF Continue, Goto, Remember, Cancelled, IInv, TypeOK
  <2>2. at' = [at EXCEPT ![p] = k + 1] /\ at'[p] = k + 1
    OBVIOUS
  <2>3. FrameTyped'
    <3>1. pc' \in [Procs -> Running \cup {"down", "idle"}]
      BY DEF Running, InBody
    <3>2. at' \in [Procs -> Ids]
      BY <2>1, <2>2
    <3>3. cache' \in [Procs -> BOOLEAN]
      OBVIOUS
    <3>4. UNCHANGED <<attempt, outcome, timer>>
      OBVIOUS
    <3> QED BY <3>1, <3>2, <3>3, <3>4 DEF FrameTyped
  <2>4. Others(p)
    BY DEF Others
  <2>5. \A j \in 0..(at'[p] - 1) : Done(j)'
    <3>1. at'[p] - 1 = k
      BY <2>1, <2>2
    <3> QED BY <3>1
  <2>6. Knows(p)'
    BY <2>5 DEF Knows, InBody
  <2> QED BY <2>3, <2>4, <2>6 DEF Moved
<1> QED BY <1>1, <1>2

LEMMA ThrowMoves ==
  ASSUME IInv, Grown, NEW p \in Procs, pc[p] \in InBody,
         NEW why \in {"error", "cancelled", "conflict"}, Throw(p, why),
         UNCHANGED <<fails, granted>>,
         why = "error" /\ at[p] \notin Guarded => Failed'
  PROVE  Moved(p)
<1>1. PICK k \in Ids : k = at[p]
  BY DEF IInv, TypeOK
<1>2. CASE k \in Guarded
  <2>1. \A j \in 0..(k - 1) : Done(j) /\ j \in Ids
    BY <1>1 DEF IInv, ProcessKnows, Knows, Ids
  <2>2. Done(k)'
    BY <1>2 DEF Done
  <2>3. \A j \in 0..k : Done(j)'
    BY <2>1, <2>2, GrownKeeps DEF IInv, Ids
  <2> QED BY <1>1, <1>2, <2>3, ContinueMoves DEF Throw
<1>3. CASE k \notin Guarded
  BY <1>1, <1>3, EndBodyMoves DEF Throw
<1> QED BY <1>2, <1>3

LEMMA ReturnMoves ==
  ASSUME IInv, Grown, NEW p \in Procs, pc[p] \in InBody,
         NEW k \in Ids, k = at[p],
         NEW result \in Results, ops'[k] = result, Return(p, result),
         UNCHANGED <<fails, granted>>
  PROVE  /\ Moved(p)
         /\ seen' \in [Procs -> [Ids -> Results \cup {None}]]
         /\ SeenIsRecorded'
<1>1. Moved(p)
  <2>1. CASE result.kind = "output"
    <3>1. \A j \in 0..(k - 1) : Done(j) /\ j \in Ids
      BY DEF IInv, ProcessKnows, Knows, Ids
    <3>2. Done(k)'
      BY <2>1 DEF Done
    <3>3. \A j \in 0..k : Done(j)'
      BY <3>1, <3>2, GrownKeeps DEF IInv, Ids
    <3> QED BY <2>1, <3>3, ContinueMoves DEF Return
  <2>2. CASE result.kind # "output"
    <3>1. k \notin Guarded => Failed'
      BY <2>2 DEF Failed, Done, None, Results
    <3> QED BY <2>2, <3>1, ThrowMoves DEF Return
  <2> QED BY <2>1, <2>2
<1>2. seen' = [seen EXCEPT ![p][k] = result]
  BY DEF Return
<1>3. seen' \in [Procs -> [Ids -> Results \cup {None}]]
  BY <1>2 DEF IInv, TypeOK
<1>4. SeenIsRecorded'
  <2> SUFFICES ASSUME NEW q \in Procs, NEW i \in Ids, seen'[q][i] # None
               PROVE  seen'[q][i] = ops'[i]
    BY DEF SeenIsRecorded
  <2>1. CASE q = p /\ i = k
    BY <1>2, <2>1 DEF IInv, TypeOK
  <2>2. CASE ~ (q = p /\ i = k)
    <3>1. seen'[q][i] = seen[q][i]
      BY <1>2, <2>2 DEF IInv, TypeOK
    <3> QED BY <3>1 DEF IInv, SeenIsRecorded, Grown
  <2> QED BY <2>1, <2>2
<1> QED BY <1>1, <1>3, <1>4

LEMMA NextAttemptMoves ==
  ASSUME IInv, NEW p \in Procs, pc[p] \in {"try", "function"},
         NextAttempt(p), UNCHANGED <<granted, ops>>,
         \A q \in Procs \ {p} : fails'[q] = fails[q],
         fails'[p] \in Nat, fails'[p] <= attempt[p]
  PROVE  Moved(p)
<1> USE DEF NextAttempt, Goto, Remember, Cancelled, IInv, TypeOK
<1>1. FrameTyped'
  <2>1. pc' \in [Procs -> Running \cup {"down", "idle"}]
    BY DEF Running, InBody
  <2>2. attempt' \in [Procs -> 1..MaxAttempts]
    OBVIOUS
  <2>3. outcome' \in [Procs -> {"none", "output", "error"}]
    OBVIOUS
  <2>4. cache' \in [Procs -> BOOLEAN]
    OBVIOUS
  <2>5. UNCHANGED <<at, timer>>
    OBVIOUS
  <2> QED BY <2>1, <2>2, <2>3, <2>4, <2>5 DEF FrameTyped
<1>2. Others(p)
  BY DEF Others
<1>3. timer'[p] # "none" => pc'[p] \in InBody
  BY DEF InBody
<1>4. pc'[p] \in {"try", "record"} /\ at' = at
  OBVIOUS
<1>5. pc'[p] = "try" => fails'[p] < attempt'[p]
  OBVIOUS
<1>6. pc'[p] = "record" => outcome'[p] = "error"
  OBVIOUS
<1>7. \A j \in 0..(at'[p] - 1) : Done(j)'
  BY <1>4 DEF ProcessKnows, Knows, InBody, Done
<1>8. Knows(p)'
  BY <1>3, <1>4, <1>5, <1>6, <1>7 DEF Knows
<1> QED BY <1>1, <1>2, <1>8 DEF Moved

(* A step of the body that leaves the row and the reports alone. *)
LEMMA BodyKeeps ==
  ASSUME IInv, Grown, NEW p \in Procs, pc[p] \in InBody, Moved(p),
         UNCHANGED <<row, reports, granted, bounds>>,
         ops' \in [Ids -> Results \cup {None}],
         fails' \in [Procs -> 0..MaxAttempts],
         seen' \in [Procs -> [Ids -> Results \cup {None}]],
         SeenIsRecorded'
  PROVE  IInv'
<1>1. TypeOK'
  BY DEF TypeOK, IInv, Moved, FrameTyped, bounds
<1>2. ProcessKnows'
  BY OtherKnows DEF Moved
<1>3. NothingBeforeStart'
  BY DEF IInv, NothingBeforeStart, Running
<1>4. RowFollowsOps'
  BY GrownKeeps DEF IInv, RowFollowsOps, Succeeded, Failed
<1>5. ReportsFollowOps'
  BY GrownKeeps DEF IInv, ReportsFollowOps
<1> QED BY <1>1, <1>2, <1>3, <1>4, <1>5 DEF IInv

-----------------------------------------------------------------------------
(* callStepFunction: each of its steps keeps the invariant. *)
LEMMA CheckInv ==
  ASSUME IInv, NEW p \in Procs, Check(p) \/ ReadCancelled(p)
  PROVE  IInv'
<1>1. /\ pc[p] \in InBody
      /\ UNCHANGED <<row, ops, reports, fails, granted, seen, bounds>>
  BY DEF Check, ReadCancelled, InBody, store
<1>2. Grown
  BY <1>1 DEF Grown
<1>3. Moved(p)
  <2>1. CASE Throw(p, "cancelled")
    BY <1>1, <1>2, <2>1, ThrowMoves
  <2>2. CASE Check(p) /\ Goto(p, "read")
             /\ UNCHANGED <<at, attempt, outcome, cache, timer>>
    <3> USE <2>2 DEF Goto, IInv, TypeOK
    <3>1. FrameTyped'
      BY DEF FrameTyped, Running, InBody
    <3>2. Others(p)
      BY <1>1 DEF Others
    <3>3. Knows(p)'
      BY <1>1 DEF Knows, ProcessKnows, InBody, Done
    <3> QED BY <3>1, <3>2, <3>3 DEF Moved
  <2> QED BY <2>1, <2>2 DEF Check, ReadCancelled
<1>4. SeenIsRecorded'
  BY <1>1 DEF IInv, SeenIsRecorded
<1> QED BY <1>1, <1>2, <1>3, <1>4, BodyKeeps DEF IInv, TypeOK

LEMMA ReadRecordedInv ==
  ASSUME IInv, NEW p \in Procs, ReadRecorded(p)
  PROVE  IInv'
<1>1. /\ pc[p] \in InBody
      /\ UNCHANGED <<row, ops, reports, fails, granted, bounds>>
  BY DEF ReadRecorded, InBody, store
<1>2. Grown
  BY <1>1 DEF Grown
<1>3. PICK k \in Ids : k = at[p]
  BY DEF IInv, TypeOK
<1>4. ops[k] \in Results /\ Return(p, ops[k])
  BY <1>3 DEF ReadRecorded, IInv, TypeOK
<1>5. /\ Moved(p)
      /\ seen' \in [Procs -> [Ids -> Results \cup {None}]]
      /\ SeenIsRecorded'
  BY <1>1, <1>2, <1>3, <1>4, ReturnMoves
<1> QED BY <1>1, <1>2, <1>5, BodyKeeps DEF IInv, TypeOK

LEMMA ReadMissingInv ==
  ASSUME IInv, NEW p \in Procs, ReadMissing(p)
  PROVE  IInv'
<1>1. /\ pc[p] \in InBody
      /\ UNCHANGED <<row, ops, reports, granted, seen, bounds>>
  BY DEF ReadMissing, InBody, store
<1>2. Grown
  BY <1>1 DEF Grown
<1>3. fails' \in [Procs -> 0..MaxAttempts]
  BY DEF ReadMissing, IInv, TypeOK
<1>4. Moved(p)
  <2> USE DEF ReadMissing, Goto, IInv, TypeOK
  <2>1. FrameTyped'
    <3>1. pc' \in [Procs -> Running \cup {"down", "idle"}]
      BY DEF Running, InBody
    <3>2. attempt' \in [Procs -> 1..MaxAttempts]
      OBVIOUS
    <3> QED BY <3>1, <3>2 DEF FrameTyped
  <2>2. Others(p)
    BY <1>1 DEF Others
  <2>3. fails'[p] < attempt'[p] /\ pc'[p] \in {"try", "function"}
    OBVIOUS
  <2>4. Knows(p)'
    BY <1>1, <2>3 DEF Knows, ProcessKnows, InBody, Done
  <2> QED BY <2>1, <2>2, <2>4 DEF Moved
<1>5. SeenIsRecorded'
  BY <1>1 DEF IInv, SeenIsRecorded
<1> QED BY <1>1, <1>2, <1>3, <1>4, <1>5, BodyKeeps DEF IInv, TypeOK

LEMMA AttemptInv ==
  ASSUME IInv, NEW p \in Procs,
         Try(p) \/ FunctionReturns(p) \/ FunctionThrows(p)
  PROVE  IInv'
<1>1. /\ pc[p] \in {"try", "function"}
      /\ UNCHANGED <<row, ops, reports, granted, seen, bounds>>
  BY DEF Try, FunctionReturns, FunctionThrows, store
<1>2. Grown
  BY <1>1 DEF Grown
<1>3. fails[p] < attempt[p] /\ attempt[p] \in 1..MaxAttempts
      /\ fails[p] \in 0..MaxAttempts
  BY <1>1 DEF IInv, ProcessKnows, Knows, TypeOK
<1>4. /\ \A q \in Procs \ {p} : fails'[q] = fails[q]
      /\ fails'[p] \in Nat /\ fails'[p] <= attempt[p]
      /\ fails' \in [Procs -> 0..MaxAttempts]
  <2>1. CASE FunctionThrows(p)
    <3>1. fails' = [fails EXCEPT ![p] = fails[p] + 1]
          /\ fails \in [Procs -> 0..MaxAttempts]
      BY <2>1 DEF FunctionThrows, IInv, TypeOK
    <3>2. fails[p] + 1 \in 0..MaxAttempts /\ fails[p] + 1 <= attempt[p]
      BY <1>3
    <3> QED BY <3>1, <3>2
  <2>2. CASE Try(p) \/ FunctionReturns(p)
    BY <1>3, <2>2 DEF Try, FunctionReturns, IInv, TypeOK
  <2> QED BY <2>1, <2>2
<1>5. Moved(p)
  <2>1. CASE NextAttempt(p)
    BY <1>1, <1>4, <2>1, NextAttemptMoves
  <2>2. CASE /\ Try(p) /\ Goto(p, "function")
             /\ UNCHANGED <<at, attempt, outcome, cache, timer>>
    <3> USE <2>2 DEF Goto, Try, IInv, TypeOK
    <3>1. FrameTyped'
      BY DEF FrameTyped, Running, InBody
    <3>2. Others(p)
      BY <1>1 DEF Others
    <3>3. Knows(p)'
      BY <1>1 DEF Knows, ProcessKnows, InBody, Done
    <3> QED BY <3>1, <3>2, <3>3 DEF Moved
  <2>3. CASE FunctionReturns(p)
    <3> USE <2>3 DEF Goto, FunctionReturns, IInv, TypeOK
    <3>1. FrameTyped'
      BY DEF FrameTyped, Running, InBody
    <3>2. Others(p)
      BY <1>1 DEF Others
    <3>3. Knows(p)'
      BY <1>1 DEF Knows, ProcessKnows, InBody, Done
    <3> QED BY <3>1, <3>2, <3>3 DEF Moved
  <2> QED BY <2>1, <2>2, <2>3 DEF Try, FunctionThrows
<1>6. SeenIsRecorded'
  BY <1>1 DEF IInv, SeenIsRecorded
<1>7. pc[p] \in InBody
  BY <1>1 DEF InBody
<1> QED BY <1>1, <1>2, <1>4, <1>5, <1>6, <1>7, BodyKeeps DEF IInv, TypeOK

(* recordOperation adds an operation, or leaves them all alone. *)
LEMMA RecordGrows ==
  ASSUME IInv, NEW p \in Procs, pc[p] = "record", RecordOperation(p),
         NEW k \in Ids, k = at[p]
  PROVE  /\ Grown
         /\ ops' \in [Ids -> Results \cup {None}]
         /\ [kind |-> outcome[p], by |-> p] \in Results
         /\ ops[k] = None => ops'[k] = [kind |-> outcome[p], by |-> p]
<1>1. outcome[p] \in {"output", "error"}
  BY DEF IInv, ProcessKnows, Knows
<1>2. [kind |-> outcome[p], by |-> p] \in Results
  BY <1>1 DEF Results
<1> QED BY <1>2 DEF RecordOperation, Accepts, IInv, TypeOK, Grown

LEMMA RecordInv ==
  ASSUME IInv, NEW p \in Procs, Record(p)
  PROVE  IInv'
<1>1. /\ pc[p] = "record" /\ pc[p] \in InBody
      /\ UNCHANGED <<row, reports, fails, granted, bounds>>
  BY DEF Record, InBody
<1>2. PICK k \in Ids : k = at[p]
  BY DEF IInv, TypeOK
<1> DEFINE result == [kind |-> outcome[p], by |-> p]
<1>3. /\ Grown
      /\ ops' \in [Ids -> Results \cup {None}]
      /\ result \in Results
      /\ ops[k] = None => ops'[k] = result
  BY <1>1, <1>2, RecordGrows DEF Record
<1>4. /\ Moved(p)
      /\ seen' \in [Procs -> [Ids -> Results \cup {None}]]
      /\ SeenIsRecorded'
  <2>1. CASE Return(p, result) /\ ops[k] = None
    BY <1>1, <1>2, <1>3, <2>1, ReturnMoves
  <2>2. CASE Throw(p, "conflict") /\ UNCHANGED seen
    <3>1. Moved(p)
      BY <1>1, <1>3, <2>2, ThrowMoves
    <3>2. SeenIsRecorded'
      BY <1>3, <2>2 DEF IInv, SeenIsRecorded, Grown
    <3> QED BY <2>2, <3>1, <3>2 DEF IInv, TypeOK
  <2> QED BY <1>2, <2>1, <2>2 DEF Record, Accepts
<1> QED BY <1>1, <1>3, <1>4, BodyKeeps DEF IInv, TypeOK

LEMMA RecordLostInv ==
  ASSUME IInv, NEW p \in Procs, RecordLost(p)
  PROVE  IInv'
<1>1. /\ pc[p] = "record"
      /\ UNCHANGED <<row, reports, pc, at, attempt, fails, outcome, granted,
                     cache, timer, seen, crashes, requests>>
  BY DEF RecordLost, frame
<1>2. PICK k \in Ids : k = at[p]
  BY DEF IInv, TypeOK
<1>3. Grown /\ ops' \in [Ids -> Results \cup {None}]
  BY <1>1, <1>2, RecordGrows DEF RecordLost
<1>4. Others(p)
  BY <1>1 DEF Others
<1>5. Knows(p)'
  <2>1. \A j \in 0..(k - 1) : Done(j) /\ j \in Ids
    BY <1>1, <1>2 DEF IInv, ProcessKnows, Knows, Ids, InBody
  <2>2. \A j \in 0..(at'[p] - 1) : Done(j)'
    BY <1>1, <1>2, <1>3, <2>1, GrownKeeps DEF IInv
  <2> QED BY <1>1, <2>2 DEF IInv, ProcessKnows, Knows
<1>6. ProcessKnows'
  BY <1>3, <1>4, <1>5, OtherKnows
<1>7. TypeOK'
  <2>1. lost' \in 0..MaxLost
    BY DEF RecordLost, IInv, TypeOK
  <2> QED BY <1>1, <1>3, <2>1 DEF IInv, TypeOK
<1>8. NothingBeforeStart'
  BY <1>1 DEF IInv, NothingBeforeStart
<1>9. SeenIsRecorded'
  BY <1>1, <1>3 DEF IInv, SeenIsRecorded, Grown
<1>10. RowFollowsOps' /\ ReportsFollowOps'
  BY <1>1, <1>3, GrownKeeps
     DEF IInv, RowFollowsOps, ReportsFollowOps, Succeeded, Failed
<1> QED BY <1>6, <1>7, <1>8, <1>9, <1>10 DEF IInv

-----------------------------------------------------------------------------
(* Everything outside the body leaves the operations alone. *)
LEMMA OutsideKeeps ==
  ASSUME IInv, NEW p \in Procs, Others(p), Knows(p)', TypeOK',
         UNCHANGED <<ops, seen>>, NothingBeforeStart',
         row' = "SUCCESS" => row = "SUCCESS" \/ Succeeded,
         row' = "ERROR" => row = "ERROR" \/ Failed,
         "completed" \in reports' => "completed" \in reports \/ Succeeded,
         "failed" \in reports' => "failed" \in reports \/ Failed
  PROVE  IInv'
<1>1. Grown
  BY DEF Grown
<1>2. ProcessKnows'
  BY <1>1, OtherKnows
<1>3. /\ Succeeded => Succeeded'
      /\ Failed => Failed'
  BY <1>1, GrownKeeps DEF IInv
<1>4. RowFollowsOps' /\ ReportsFollowOps'
  BY <1>3 DEF IInv, RowFollowsOps, ReportsFollowOps, Succeeded, Failed
<1>5. SeenIsRecorded'
  BY DEF IInv, SeenIsRecorded
<1> QED BY <1>2, <1>4, <1>5 DEF IInv

(* The ends of an execution. *)
LEMMA RunWorkflowInv ==
  ASSUME IInv, NEW p \in Procs, RunWorkflow(p)
  PROVE  IInv'
<1> USE DEF RunWorkflow, TimedOut, Save, Complete, Await, Finish, Goto
<1>1. /\ pc[p] \in {"settled", "save", "complete", "await"}
      /\ UNCHANGED <<ops, at, attempt, fails, outcome, granted, seen, bounds>>
  BY DEF store, frame
<1>2. /\ Others(p)
      /\ pc' \in [Procs -> Running \cup {"down", "idle"}]
      /\ cache' \in [Procs -> BOOLEAN]
      /\ timer' \in [Procs -> {"none", "armed", "fired", "posted"}]
  <2>1. pc' \in [Procs -> Running \cup {"down", "idle"}]
    <3>1. PICK where \in {"idle", "complete", "await"} :
            pc' = [pc EXCEPT ![p] = where]
      OBVIOUS
    <3>2. where \in Running \cup {"down", "idle"}
      BY DEF Running
    <3> QED BY <3>1, <3>2 DEF IInv, TypeOK
  <2>2. cache' \in [Procs -> BOOLEAN]
    BY DEF IInv, TypeOK
  <2>3. timer' \in [Procs -> {"none", "armed", "fired", "posted"}]
    BY DEF IInv, TypeOK
  <2>4. Others(p)
    BY <1>1 DEF Others, IInv, TypeOK
  <2> QED BY <2>1, <2>2, <2>3, <2>4
<1>3. \/ pc'[p] = "idle" /\ timer'[p] = "none"
      \/ /\ pc'[p] \in {"complete", "await"}
         /\ pc[p] = "save"
         /\ timer' = timer
  BY DEF IInv, TypeOK
<1>4. Knows(p)'
  <2>1. \A i \in Ids : Done(i) <=> Done(i)'
    BY <1>1 DEF Done
  <2>2. (Succeeded <=> Succeeded') /\ (Failed <=> Failed')
    BY <1>1, <2>1 DEF Succeeded, Failed
  <2>3. pc[p] = "save" => timer[p] = "none"
    BY DEF IInv, ProcessKnows, Knows, InBody
  <2> QED BY <1>1, <1>3, <2>2, <2>3 DEF IInv, ProcessKnows, Knows, InBody
<1>5. row' \in RowStatuses /\ reports' \subseteq {"completed", "failed"}
  BY DEF IInv, TypeOK, SaveResult, RowStatuses, store
<1>6. TypeOK'
  BY <1>1, <1>2, <1>5 DEF IInv, TypeOK, bounds
<1>7. row # "absent"
  BY <1>1 DEF IInv, NothingBeforeStart, Running
<1>8. NothingBeforeStart'
  BY <1>7 DEF NothingBeforeStart, SaveResult, store
<1>9. /\ row' = "SUCCESS" => row = "SUCCESS" \/ Succeeded
      /\ row' = "ERROR" => row = "ERROR" \/ Failed
  BY DEF SaveResult, IInv, ProcessKnows, Knows, store
<1>10. /\ "completed" \in reports' => "completed" \in reports \/ Succeeded
       /\ "failed" \in reports' => "failed" \in reports \/ Failed
  BY DEF IInv, ProcessKnows, Knows, store
<1> QED BY <1>1, <1>2, <1>4, <1>6, <1>8, <1>9, <1>10, OutsideKeeps

(* Starts, recoveries, deadlines, deaths and operators. *)
LEMMA WorldInv ==
  ASSUME IInv, NEW p \in Procs,
         \/ StartWorkflow(p) \/ Recover(p) \/ Launch(p)
         \/ TimerFires(p) \/ PostCancel(p)
         \/ Crash(p) \/ Restart(p) \/ CancelWorkflow(p) \/ ResumeWorkflow(p)
  PROVE  IInv'
<1> USE DEF StartWorkflow, Recover, Launch, TimerFires, PostCancel, Crash,
            Restart, CancelWorkflow, ResumeWorkflow, Goto, Grant
<1>1. UNCHANGED <<ops, reports, attempt, fails, outcome, seen, lost>>
  BY DEF store, frame, bounds
<1>2. granted' \in [Procs -> 0..MaxGranted]
  <2>1. CASE StartWorkflow(p)
    <3>1. granted[p] = 0 /\ granted' = [granted EXCEPT ![p] = granted[p] + 1]
      BY <2>1 DEF IInv, NothingBeforeStart
    <3> QED BY <3>1 DEF IInv, TypeOK
  <2>2. CASE Restart(p)
    <3>1. granted[p] = 0
      BY <2>2 DEF IInv, ProcessKnows, Knows
    <3>2. CASE row = "PENDING"
      <4>1. granted' = [granted EXCEPT ![p] = granted[p] + 1]
        BY <2>2, <3>2
      <4>2. granted[p] + 1 \in 0..MaxGranted
        BY <3>1
      <4> QED BY <4>1, <4>2 DEF IInv, TypeOK
    <3>3. CASE row # "PENDING"
      BY <2>2, <3>3 DEF IInv, TypeOK
    <3> QED BY <3>2, <3>3
  <2>3. CASE Recover(p)
    <3>1. granted' = [granted EXCEPT ![p] = granted[p] + 1]
          /\ granted[p] < MaxGranted
      BY <2>3
    <3> QED BY <3>1 DEF IInv, TypeOK
  <2>4. CASE Launch(p)
    BY <2>4 DEF IInv, TypeOK
  <2>5. CASE \/ TimerFires(p) \/ PostCancel(p) \/ Crash(p)
             \/ CancelWorkflow(p) \/ ResumeWorkflow(p)
    BY <2>5 DEF IInv, TypeOK
  <2> QED BY <2>1, <2>2, <2>3, <2>4, <2>5
<1>3. TypeOK'
  <2>1. row' \in RowStatuses
    BY DEF IInv, TypeOK, RowStatuses, CreateWorkflow, store
  <2>2. pc' \in [Procs -> Running \cup {"down", "idle"}]
    BY SMTT(30) DEF IInv, TypeOK, Running, InBody
  <2>3. at' \in [Procs -> Ids]
    <3>1. 0 \in Ids
      BY DEF Ids
    <3>2. at' = at \/ at' = [at EXCEPT ![p] = 0]
      BY DEF frame
    <3> QED BY <3>1, <3>2 DEF IInv, TypeOK
  <2>4. cache' \in [Procs -> BOOLEAN]
    BY DEF IInv, TypeOK
  <2>5. timer' \in [Procs -> {"none", "armed", "fired", "posted"}]
    BY DEF IInv, TypeOK
  <2>6. crashes' \in 0..MaxCrashes /\ requests' \in 0..MaxRequests
    BY DEF IInv, TypeOK, bounds
  <2> QED BY <1>1, <1>2, <2>1, <2>2, <2>3, <2>4, <2>5, <2>6
          DEF IInv, TypeOK
<1>4. Others(p)
  BY <1>1 DEF Others, IInv, TypeOK, frame
<1>5. Knows(p)'
  <2>1. (\A i \in Ids : Done(i) <=> Done(i)')
        /\ (Succeeded <=> Succeeded') /\ (Failed <=> Failed')
    BY <1>1 DEF Done, Succeeded, Failed
  <2>2. Knows(p) /\ granted \in [Procs -> 0..MaxGranted]
    BY DEF IInv, ProcessKnows, TypeOK
  <2>3. CASE Launch(p) /\ pc[p] = "idle"
    <3>1. pc'[p] = "check" /\ at'[p] = 0
      BY <2>3 DEF IInv, TypeOK
    <3> QED BY <3>1 DEF Knows, InBody
  <2>4. CASE Crash(p) \/ Restart(p)
    <3>1. pc'[p] \in {"down", "idle"} /\ timer'[p] = "none"
      BY <2>2, <2>4 DEF IInv, TypeOK, Knows, InBody
    <3>2. pc'[p] = "down" => granted'[p] = 0
      BY <2>2, <2>4 DEF IInv, TypeOK
    <3> QED BY <3>1, <3>2 DEF Knows, InBody
  <2>5. CASE \/ StartWorkflow(p) \/ Recover(p) \/ TimerFires(p)
             \/ PostCancel(p) \/ (Launch(p) /\ pc[p] # "idle")
             \/ CancelWorkflow(p) \/ ResumeWorkflow(p)
    <3>0. pc' = pc /\ at' = at
      BY <2>5 DEF frame
    <3>1. /\ pc[p] = "down" => granted'[p] = granted[p]
          /\ timer'[p] # "none" => timer[p] # "none"
      <4>1. pc[p] = "down" => granted' = granted
        BY <2>5
      <4>2. \/ timer' = timer
            \/ timer[p] # "none"
        BY <2>5
      <4> QED BY <4>1, <4>2
    <3>2. pc[p] \in InBody => \A j \in 0..(at[p] - 1) : Done(j)'
      <4>1. \A j \in 0..(at[p] - 1) : j \in Ids
        BY DEF IInv, TypeOK, Ids
      <4> QED BY <2>1, <2>2, <4>1 DEF Knows
    <3>3. /\ pc'[p] = "down" => granted'[p] = 0
          /\ timer'[p] # "none" => pc'[p] \in InBody \cup {"settled"}
      BY <2>2, <3>0, <3>1 DEF Knows
    <3>4. /\ fails'[p] = fails[p] /\ attempt'[p] = attempt[p]
          /\ outcome'[p] = outcome[p] /\ pc'[p] = pc[p] /\ at'[p] = at[p]
      BY <1>1, <3>0
    <3>5. /\ pc'[p] \in {"try", "function"} => fails'[p] < attempt'[p]
          /\ pc'[p] = "record" => outcome'[p] \in {"output", "error"}
          /\ pc'[p] \in {"save", "complete"} =>
               \/ outcome'[p] = "output" /\ Succeeded'
               \/ outcome'[p] = "error" /\ Failed'
      BY <2>1, <2>2, <3>4 DEF Knows
    <3>6. pc'[p] \in InBody => \A j \in 0..(at'[p] - 1) : Done(j)'
      BY <3>2, <3>4
    <3> QED BY <3>3, <3>5, <3>6 DEF Knows, InBody
  <2> HIDE DEF StartWorkflow, Recover, Launch, TimerFires, PostCancel, Crash,
               Restart, CancelWorkflow, ResumeWorkflow, Goto, Grant
  <2> QED BY <2>3, <2>4, <2>5
<1>6. NothingBeforeStart'
  <2>1. CASE row' = "absent"
    <3>1. row = "absent" /\ (Crash(p) \/ Restart(p) \/ TimerFires(p))
      BY <2>1 DEF CreateWorkflow, store, IInv, NothingBeforeStart
    <3>2. /\ \A q \in Procs : granted[q] = 0 /\ pc[q] \notin Running
      BY <3>1 DEF IInv, NothingBeforeStart
    <3>3. \A q \in Procs : granted'[q] = 0 /\ pc'[q] \notin Running
      BY <3>1, <3>2 DEF IInv, TypeOK, Running, InBody
    <3> QED BY <3>3 DEF NothingBeforeStart
  <2>2. CASE row' # "absent"
    BY <2>2 DEF NothingBeforeStart
  <2> QED BY <2>1, <2>2
<1>7. /\ row' = "SUCCESS" => row = "SUCCESS"
      /\ row' = "ERROR" => row = "ERROR"
  BY DEF CreateWorkflow, store
<1> QED BY <1>1, <1>3, <1>4, <1>5, <1>6, <1>7, OutsideKeeps

LEMMA NextIInv == IInv /\ [Next]_vars => IInv'
<1> SUFFICES ASSUME IInv, [Next]_vars PROVE IInv'
  OBVIOUS
<1>1. ASSUME NEW p \in Procs, CallStep(p) PROVE IInv'
  BY <1>1, CheckInv, ReadRecordedInv, ReadMissingInv, AttemptInv, RecordInv
     DEF CallStep
<1>2. ASSUME NEW p \in Procs, RunWorkflow(p) \/ RecordLost(p) PROVE IInv'
  BY <1>2, RunWorkflowInv, RecordLostInv
<1>3. CASE UNCHANGED vars
  <2> USE <1>3 DEF vars, store, frame, bounds
  <2>1. TypeOK' /\ NothingBeforeStart' /\ SeenIsRecorded'
    BY DEF IInv, TypeOK, NothingBeforeStart, SeenIsRecorded
  <2>2. ProcessKnows' /\ RowFollowsOps' /\ ReportsFollowOps'
    BY DEF IInv, ProcessKnows, Knows, RowFollowsOps, ReportsFollowOps,
       Succeeded, Failed, Done
  <2> QED BY <2>1, <2>2 DEF IInv
<1> QED BY <1>1, <1>2, <1>3, WorldInv DEF Next

(* The inductive invariant holds in every reachable state. *)
THEOREM Invariance == Spec => []IInv
<1>1. Init => IInv
  BY InitIInv
<1>2. IInv /\ [Next]_vars => IInv'
  BY NextIInv
<1> QED BY <1>1, <1>2, PTL DEF Spec

(* Every variable keeps its type. *)
THEOREM TypeCorrect == Spec => []TypeOK
<1>1. IInv => TypeOK
  BY DEF IInv
<1> QED BY <1>1, Invariance, PTL

(* Whichever execution saved last, the row says what the operations say. *)
THEOREM RowTrue == Spec => []RowFollowsOps
<1>1. IInv => RowFollowsOps
  BY DEF IInv
<1> QED BY <1>1, Invariance, PTL

(* No body is given a result that is not the recorded one. *)
THEOREM SeenTrue == Spec => []SeenIsRecorded
<1>1. IInv => SeenIsRecorded
  BY DEF IInv
<1> QED BY <1>1, Invariance, PTL

(* No number of racing executions reports both ends. *)
THEOREM OneEnd == Spec => []OneVerdict
<1>1. IInv => OneVerdict
  BY DEF IInv, ReportsFollowOps, OneVerdict, Succeeded, Failed
<1> QED BY <1>1, Invariance, PTL

-----------------------------------------------------------------------------
(* What a step may never do. *)

(* Apart from the two sends of the record, no step touches the operations. *)
LEMMA OpsWritten ==
  ASSUME NEW p \in Procs
  PROVE  /\ CallStep(p) => Record(p) \/ UNCHANGED ops
         /\ RunWorkflow(p) => UNCHANGED ops
         /\ StartWorkflow(p) \/ Recover(p) \/ Launch(p) => UNCHANGED ops
         /\ TimerFires(p) \/ PostCancel(p) \/ Crash(p) => UNCHANGED ops
         /\ Restart(p) \/ CancelWorkflow(p) \/ ResumeWorkflow(p)
              => UNCHANGED ops
<1>1. CallStep(p) => Record(p) \/ UNCHANGED ops
  BY DEF CallStep, Check, ReadCancelled, ReadRecorded, ReadMissing, Try,
     FunctionReturns, FunctionThrows, store
<1>2. RunWorkflow(p) => UNCHANGED ops
  BY DEF RunWorkflow, TimedOut, Save, Complete, Await, store
<1>3. StartWorkflow(p) \/ Recover(p) \/ Launch(p) => UNCHANGED ops
  BY DEF StartWorkflow, Recover, Launch, store
<1>4. TimerFires(p) \/ PostCancel(p) \/ Crash(p) => UNCHANGED ops
  BY DEF TimerFires, PostCancel, Crash, store
<1>5. Restart(p) \/ CancelWorkflow(p) \/ ResumeWorkflow(p) => UNCHANGED ops
  BY DEF Restart, CancelWorkflow, ResumeWorkflow, store
<1> QED BY <1>1, <1>2, <1>3, <1>4, <1>5

(* However many executions record a step, its first record stands. *)
THEOREM WrittenOnce == Spec => OpsWriteOnce
<1>1. ASSUME IInv, [Next]_vars PROVE Grown
  <2>1. ASSUME UNCHANGED ops PROVE Grown
    BY <2>1 DEF Grown
  <2>2. ASSUME NEW p \in Procs, Record(p) \/ RecordLost(p) PROVE Grown
    <3>1. pc[p] = "record" /\ RecordOperation(p)
      BY <2>2 DEF Record, RecordLost
    <3>2. PICK k \in Ids : k = at[p]
      BY <1>1 DEF IInv, TypeOK
    <3> QED BY <1>1, <3>1, <3>2, RecordGrows
  <2>3. CASE Next
    <3>1. PICK p \in Procs :
            \/ StartWorkflow(p) \/ Recover(p) \/ Launch(p)
            \/ CallStep(p) \/ RunWorkflow(p)
            \/ TimerFires(p) \/ PostCancel(p)
            \/ RecordLost(p) \/ Crash(p) \/ Restart(p)
            \/ CancelWorkflow(p) \/ ResumeWorkflow(p)
      BY <2>3 DEF Next
    <3>2. Record(p) \/ RecordLost(p) \/ UNCHANGED ops
      BY <3>1, OpsWritten
    <3> QED BY <2>1, <2>2, <3>2
  <2>4. CASE UNCHANGED vars
    BY <2>1, <2>4 DEF vars, store
  <2> QED BY <1>1, <2>3, <2>4
<1>2. IInv /\ [Next]_vars
        => [\A i \in Ids : ops[i] # None => ops'[i] = ops[i]]_vars
  BY <1>1 DEF Grown
<1> QED BY <1>2, Invariance, PTL DEF Spec, OpsWriteOnce

(* Only a resume takes a cancelled row back. *)
THEOREM StaysCancelled == Spec => CancelSticks
<1> DEFINE Sticks == (row = "CANCELLED" /\ row' # "CANCELLED")
                       => \E p \in Procs : ResumeWorkflow(p)
<1>1. ASSUME [Next]_vars PROVE Sticks
  <2> SUFFICES ASSUME row = "CANCELLED", row' # "CANCELLED"
               PROVE  \E p \in Procs : ResumeWorkflow(p)
    OBVIOUS
  <2>1. PICK p \in Procs :
          \/ StartWorkflow(p) \/ Recover(p) \/ Launch(p)
          \/ CallStep(p) \/ RunWorkflow(p)
          \/ TimerFires(p) \/ PostCancel(p)
          \/ RecordLost(p) \/ Crash(p) \/ Restart(p)
          \/ CancelWorkflow(p) \/ ResumeWorkflow(p)
    BY <1>1 DEF Next, vars, store
  <2>2. ~ CallStep(p)
    BY DEF CallStep, Check, ReadCancelled, ReadRecorded, ReadMissing, Try,
       FunctionReturns, FunctionThrows, Record, store
  <2>3. ~ RunWorkflow(p)
    BY DEF RunWorkflow, TimedOut, Save, Complete, Await, SaveResult,
       SaveAccepted, store
  <2>4. ~ (StartWorkflow(p) \/ Recover(p) \/ Launch(p) \/ TimerFires(p))
    BY DEF StartWorkflow, Recover, Launch, TimerFires, store
  <2>5. ~ (PostCancel(p) \/ RecordLost(p) \/ Crash(p) \/ Restart(p))
    BY DEF PostCancel, RecordLost, Crash, Restart, store
  <2>6. ~ CancelWorkflow(p)
    BY DEF CancelWorkflow
  <2> QED BY <2>1, <2>2, <2>3, <2>4, <2>5, <2>6
<1>2. [Next]_vars => [Sticks]_vars
  BY <1>1
<1> QED BY <1>2, PTL DEF Spec, CancelSticks

(* No attempt begins on a cancelled row. *)
THEOREM AttemptsStop == Spec => CancelStopsAttempts
<1> DEFINE Stops == \A p \in Procs :
                      (pc[p] # "function" /\ pc'[p] = "function")
                        => row # "CANCELLED"
<1>1. ASSUME IInv, [Next]_vars PROVE Stops
  <2> SUFFICES ASSUME NEW q \in Procs, row = "CANCELLED",
                      pc[q] # "function", pc'[q] = "function"
               PROVE  FALSE
    OBVIOUS
  <2>1. PICK p \in Procs :
          \/ StartWorkflow(p) \/ Recover(p) \/ Launch(p)
          \/ CallStep(p) \/ RunWorkflow(p)
          \/ TimerFires(p) \/ PostCancel(p)
          \/ RecordLost(p) \/ Crash(p) \/ Restart(p)
          \/ CancelWorkflow(p) \/ ResumeWorkflow(p)
    BY <1>1 DEF Next, vars
  <2>2. pc \in [Procs -> Running \cup {"down", "idle"}]
    BY <1>1 DEF IInv, TypeOK
  <2> USE DEF Goto
  <2>3. ASSUME NEW why, EndBody(p, why) PROVE pc'[q] = pc[q] \/ pc'[q] # "function"
    BY <2>2, <2>3 DEF EndBody, Finish
  <2>4. ASSUME Continue(p) PROVE pc'[q] = pc[q] \/ pc'[q] # "function"
    BY <2>2, <2>3, <2>4 DEF Continue
  <2>5. ASSUME NEW why, Throw(p, why) PROVE pc'[q] = pc[q] \/ pc'[q] # "function"
    BY <2>3, <2>4, <2>5 DEF Throw
  <2>6. ASSUME NEW result, Return(p, result)
        PROVE  pc'[q] = pc[q] \/ pc'[q] # "function"
    BY <2>4, <2>5, <2>6 DEF Return
  <2>7. ASSUME NextAttempt(p) PROVE pc'[q] = pc[q] \/ pc'[q] # "function"
    BY <2>2, <2>7 DEF NextAttempt
  <2>8. ~ (Check(p) \/ ReadCancelled(p) \/ Record(p))
    BY <2>2, <2>5, <2>6 DEF Check, ReadCancelled, Record, Cancelled
  <2>9. ~ (ReadRecorded(p) \/ ReadMissing(p) \/ FunctionReturns(p))
    BY <2>2 DEF ReadRecorded, ReadMissing, FunctionReturns
  <2>10. ~ (Try(p) \/ FunctionThrows(p))
    BY <2>7 DEF Try, FunctionThrows, Cancelled
  <2>11. ~ RunWorkflow(p)
    BY <2>2 DEF RunWorkflow, TimedOut, Save, Complete, Await, Finish, SaveAccepted
  <2>12. ~ (StartWorkflow(p) \/ Recover(p) \/ Launch(p) \/ TimerFires(p))
    BY <2>2 DEF StartWorkflow, Recover, Launch, TimerFires
  <2>13. ~ (PostCancel(p) \/ RecordLost(p) \/ Crash(p) \/ Restart(p))
    BY <2>2 DEF PostCancel, RecordLost, Crash, Restart
  <2>14. ~ (CancelWorkflow(p) \/ ResumeWorkflow(p))
    BY DEF CancelWorkflow, ResumeWorkflow
  <2>15. ~ CallStep(p)
    BY <2>8, <2>9, <2>10 DEF CallStep
  <2> QED BY <2>1, <2>11, <2>12, <2>13, <2>14, <2>15
<1>2. IInv /\ [Next]_vars
        => [\A p \in Procs : (pc[p] # "function" /\ pc'[p] = "function")
                                => row # "CANCELLED"]_vars
  BY <1>1
<1> QED BY <1>2, Invariance, PTL DEF Spec, CancelStopsAttempts

-----------------------------------------------------------------------------
(* While nothing cancels the workflow, an error is recorded only when the  *)
(* attempts are used up.  The counters say so only between the read that   *)
(* sets them and the record, and only if no cancellation ends an attempt.  *)
CancelFree == row # "CANCELLED" /\ \A p \in Procs : ~ cache[p]

Counted(p) ==
  /\ pc[p] \in {"try", "function"} => fails[p] = attempt[p] - 1
  /\ pc[p] = "try" => at[p] \in Retried
  /\ pc[p] = "function" /\ at[p] \notin Retried => attempt[p] = 1
  /\ pc[p] = "record" /\ outcome[p] = "error" =>
       fails[p] = IF at[p] \in Retried THEN MaxAttempts ELSE 1

EInv == IInv /\ CancelFree /\ \A p \in Procs : Counted(p)

(* What a step of p leaves to the others. *)
Apart(p) ==
  \A q \in Procs \ {p} :
    /\ pc'[q] = pc[q] /\ at'[q] = at[q] /\ attempt'[q] = attempt[q]
    /\ outcome'[q] = outcome[q] /\ fails'[q] = fails[q]

Uncached == \A q \in Procs : ~ cache'[q]

(* The execution of p goes where no attempt is counted. *)
Leaves(p) ==
  /\ Apart(p)
  /\ Uncached
  /\ pc'[p] \notin {"try", "function", "record"}

LEMMA CountedApart ==
  ASSUME EInv, NEW p \in Procs, Apart(p), Counted(p)'
  PROVE  \A q \in Procs : Counted(q)'
<1> SUFFICES ASSUME NEW q \in Procs \ {p} PROVE Counted(q)'
  OBVIOUS
<1> QED BY DEF EInv, Counted, Apart

LEMMA LeavesCounted ==
  ASSUME EInv, NEW p \in Procs, Leaves(p), row' # "CANCELLED"
  PROVE  CancelFree' /\ \A q \in Procs : Counted(q)'
<1>1. CancelFree'
  BY DEF Leaves, Uncached, CancelFree
<1>2. Counted(p)'
  BY DEF Leaves, Counted
<1> QED BY <1>1, <1>2, CountedApart DEF Leaves

LEMMA FinishLeaves ==
  ASSUME EInv, NEW p \in Procs, Finish(p),
         UNCHANGED <<at, attempt, outcome, fails>>
  PROVE  Leaves(p)
BY DEF Finish, Goto, Leaves, Apart, Uncached, EInv, CancelFree, IInv, TypeOK

LEMMA EndBodyLeaves ==
  ASSUME EInv, NEW p \in Procs, NEW why, EndBody(p, why), UNCHANGED fails
  PROVE  Leaves(p)
<1> USE DEF EndBody, Finish, Goto, Remember, Cancelled, EInv, CancelFree,
            IInv, TypeOK
<1>1. Apart(p)
  BY DEF Apart
<1>2. Uncached
  BY DEF Uncached
<1>3. pc'[p] \notin {"try", "function", "record"}
  OBVIOUS
<1> QED BY <1>1, <1>2, <1>3 DEF Leaves

LEMMA ContinueLeaves ==
  ASSUME EInv, NEW p \in Procs, Continue(p), UNCHANGED fails
  PROVE  Leaves(p)
<1>1. CASE at[p] + 1 = Calls
  BY <1>1, EndBodyLeaves DEF Continue
<1>2. CASE at[p] + 1 # Calls
  <2> USE <1>2 DEF Continue, Goto, Remember, Cancelled, EInv, CancelFree,
                   IInv, TypeOK
  <2>1. Apart(p)
    BY DEF Apart
  <2>2. Uncached
    BY DEF Uncached
  <2>3. pc'[p] \notin {"try", "function", "record"}
    OBVIOUS
  <2> QED BY <2>1, <2>2, <2>3 DEF Leaves
<1> QED BY <1>1, <1>2

LEMMA ThrowLeaves ==
  ASSUME EInv, NEW p \in Procs, UNCHANGED fails,
         NEW why, Throw(p, why)
  PROVE  Leaves(p)
BY ContinueLeaves, EndBodyLeaves DEF Throw

LEMMA ReturnLeaves ==
  ASSUME EInv, NEW p \in Procs, UNCHANGED fails,
         NEW result, Return(p, result)
  PROVE  Leaves(p)
BY ContinueLeaves, ThrowLeaves DEF Return

(* A failed attempt of a step that may be tried again is counted. *)
LEMMA FunctionThrowsCounts ==
  ASSUME EInv, NEW p \in Procs, FunctionThrows(p)
  PROVE  CancelFree' /\ \A q \in Procs : Counted(q)'
<1> USE DEF FunctionThrows, NextAttempt, Goto, Remember, Cancelled, store
<1>1. /\ fails[p] = attempt[p] - 1 /\ attempt[p] \in 1..MaxAttempts
      /\ at[p] \notin Retried => attempt[p] = 1
  BY DEF EInv, Counted, IInv, TypeOK
<1>2. fails' = [fails EXCEPT ![p] = attempt[p]] /\ fails'[p] = attempt[p]
  <2>1. /\ fails' = [fails EXCEPT ![p] = fails[p] + 1]
        /\ fails \in [Procs -> 0..MaxAttempts]
    BY DEF EInv, IInv, TypeOK
  <2>2. fails[p] + 1 = attempt[p]
    BY <1>1
  <2> HIDE DEF FunctionThrows
  <2> QED BY <2>1, <2>2
<1>3. Apart(p)
  BY DEF Apart, EInv, IInv, TypeOK
<1>4. CancelFree'
  BY DEF CancelFree, EInv, IInv, TypeOK
<1>5. Counted(p)'
  <2>1. CASE at[p] \in Retried /\ attempt[p] < MaxAttempts
    <3>1. pc'[p] = "try" /\ attempt'[p] = attempt[p] + 1 /\ at' = at
      BY <1>1, <2>1 DEF EInv, IInv, TypeOK
    <3> QED BY <1>1, <1>2, <2>1, <3>1 DEF Counted
  <2>2. CASE ~ (at[p] \in Retried /\ attempt[p] < MaxAttempts)
    <3>1. pc'[p] = "record" /\ at' = at
      BY <2>2 DEF EInv, IInv, TypeOK
    <3>2. attempt[p] = IF at[p] \in Retried THEN MaxAttempts ELSE 1
      BY <1>1, <2>2
    <3> QED BY <1>2, <3>1, <3>2 DEF Counted
  <2> QED BY <2>1, <2>2
<1> QED BY <1>3, <1>4, <1>5, CountedApart

LEMMA CallStepCounts ==
  ASSUME EInv, NEW p \in Procs, CallStep(p)
  PROVE  CancelFree' /\ \A q \in Procs : Counted(q)'
<1>1. row' = row /\ row # "CANCELLED"
  BY DEF EInv, CancelFree, CallStep, Check, ReadCancelled, ReadRecorded,
     ReadMissing, Try, FunctionReturns, FunctionThrows, Record, store
<1>2. ~ Cancelled(p)
  BY DEF EInv, CancelFree, Cancelled
<1>3. CASE ReadRecorded(p) \/ Record(p)
  <2>1. UNCHANGED fails
    BY <1>3 DEF ReadRecorded, Record
  <2>2. Leaves(p)
    BY <1>3, <2>1, ThrowLeaves, ReturnLeaves DEF ReadRecorded, Record
  <2> QED BY <1>1, <2>2, LeavesCounted
<1>4. CASE Check(p)
  <2> USE <1>2, <1>4 DEF Check, Goto, EInv, IInv, TypeOK, CancelFree
  <2>1. Leaves(p)
    BY DEF Leaves, Apart, Uncached
  <2> QED BY <1>1, <2>1, LeavesCounted
<1>5. CASE ReadMissing(p)
  <2> USE <1>5 DEF ReadMissing, Goto, EInv, IInv, TypeOK
  <2>1. CancelFree'
    BY <1>1 DEF CancelFree
  <2>2. Apart(p)
    BY DEF Apart
  <2>3. /\ fails'[p] = 0 /\ attempt'[p] = 1 /\ at' = at
        /\ pc'[p] = IF at[p] \in Retried THEN "try" ELSE "function"
    OBVIOUS
  <2>4. Counted(p)'
    BY <2>3 DEF Counted
  <2> QED BY <2>1, <2>2, <2>4, CountedApart
<1>6. CASE Try(p) \/ FunctionReturns(p)
  <2> USE <1>2, <1>6 DEF Try, FunctionReturns, Goto, EInv, IInv, TypeOK
  <2>1. CancelFree'
    BY <1>1 DEF CancelFree
  <2>2. Apart(p)
    BY DEF Apart
  <2>3. Counted(p)'
    BY DEF Counted
  <2> QED BY <2>1, <2>2, <2>3, CountedApart
<1>7. ~ ReadCancelled(p)
  BY <1>1 DEF ReadCancelled
<1> QED BY <1>3, <1>4, <1>5, <1>6, <1>7, FunctionThrowsCounts DEF CallStep

LEMMA RunWorkflowCounts ==
  ASSUME EInv, NEW p \in Procs, RunWorkflow(p)
  PROVE  CancelFree' /\ \A q \in Procs : Counted(q)'
<1>1. row' # "CANCELLED" /\ UNCHANGED <<at, attempt, outcome, fails>>
  BY DEF RunWorkflow, TimedOut, Save, Complete, Await, SaveResult, EInv,
     CancelFree, store, frame
<1>2. CASE Finish(p)
  BY <1>1, <1>2, FinishLeaves, LeavesCounted
<1>3. CASE Goto(p, "complete") /\ UNCHANGED <<cache, timer>>
  <2>1. Leaves(p)
    BY <1>1, <1>3 DEF Goto, Leaves, Apart, Uncached, EInv, IInv, TypeOK,
       CancelFree
  <2> QED BY <1>1, <2>1, LeavesCounted
<1> QED BY <1>2, <1>3 DEF RunWorkflow, TimedOut, Save, Complete, Await,
        SaveAccepted, EInv, CancelFree

(* Starts, recoveries, deaths, and what operators do short of cancelling. *)
LEMMA WorldCounts ==
  ASSUME EInv, row' # "CANCELLED", NEW p \in Procs,
         \/ StartWorkflow(p) \/ Recover(p) \/ Launch(p)
         \/ TimerFires(p) \/ PostCancel(p) \/ RecordLost(p)
         \/ Crash(p) \/ Restart(p) \/ CancelWorkflow(p) \/ ResumeWorkflow(p)
  PROVE  CancelFree' /\ \A q \in Procs : Counted(q)'
<1>1. ~ (PostCancel(p) \/ CancelWorkflow(p))
  BY DEF PostCancel, CancelWorkflow
<1>2. CASE TimerFires(p)
  <2>1. UNCHANGED <<row, pc, at, attempt, outcome, fails, cache>>
    BY <1>2 DEF TimerFires, store, frame
  <2> QED BY <2>1 DEF EInv, CancelFree, Counted
<1>3. CASE ResumeWorkflow(p)
  <2>1. UNCHANGED <<pc, at, attempt, outcome, fails>>
    BY <1>3 DEF ResumeWorkflow, frame
  <2>2. CancelFree'
    BY <1>3 DEF ResumeWorkflow, EInv, CancelFree, IInv, TypeOK
  <2> QED BY <2>1, <2>2 DEF EInv, Counted
<1>4. CASE StartWorkflow(p) \/ Recover(p) \/ RecordLost(p)
  <2>1. UNCHANGED <<pc, at, attempt, outcome, fails, cache>>
    BY <1>4 DEF StartWorkflow, Recover, RecordLost, frame
  <2>2. CancelFree'
    BY <2>1 DEF EInv, CancelFree
  <2> QED BY <2>1, <2>2 DEF EInv, Counted
<1>5. CASE Launch(p)
  <2>1. UNCHANGED <<attempt, outcome, fails, cache>>
    BY <1>5 DEF Launch
  <2>2. CASE pc[p] = "idle"
    <3>1. /\ pc' = [pc EXCEPT ![p] = "check"]
          /\ at' = [at EXCEPT ![p] = 0]
      BY <1>5, <2>2 DEF Launch, Goto
    <3>2. Leaves(p)
      BY <2>1, <3>1 DEF Leaves, Apart, Uncached, EInv, IInv, TypeOK,
         CancelFree
    <3> QED BY <3>2, LeavesCounted
  <2>3. CASE pc[p] # "idle"
    <3>1. UNCHANGED <<pc, at>>
      BY <1>5, <2>3 DEF Launch
    <3> QED BY <2>1, <3>1 DEF EInv, CancelFree, Counted
  <2> QED BY <2>2, <2>3
<1>6. CASE Crash(p) \/ Restart(p)
  <2> USE <1>6 DEF Crash, Restart, Goto, store, frame
  <2>1. Leaves(p)
    BY DEF Leaves, Apart, Uncached, EInv, IInv, TypeOK, CancelFree
  <2> QED BY <2>1, LeavesCounted
<1> QED BY <1>1, <1>2, <1>3, <1>4, <1>5, <1>6

LEMMA NextEInv ==
  ASSUME EInv, [Next]_vars, row' # "CANCELLED"
  PROVE  EInv'
<1>1. IInv'
  BY NextIInv DEF EInv
<1>2. CancelFree' /\ \A q \in Procs : Counted(q)'
  <2>1. CASE UNCHANGED vars
    BY <2>1 DEF EInv, CancelFree, Counted, vars, store, frame
  <2>2. CASE Next
    BY <2>2, CallStepCounts, RunWorkflowCounts, WorldCounts DEF Next
  <2> QED BY <2>1, <2>2
<1> QED BY <1>1, <1>2 DEF EInv

(* Whatever crashes, recovers and races, an error that is recorded of a    *)
(* workflow nobody cancels is that of its step's last attempt.  The        *)
(* condition is needed: with a cancellation a run refutes the property.    *)
THEOREM ErrorExhausted ==
  Spec /\ [](row # "CANCELLED") => ErrorIsExhaustion
<1> DEFINE Exhausted ==
      \A i \in Ids : ops[i] = None /\ ops'[i].kind = "error" =>
        fails[ops'[i].by] = IF i \in Retried THEN MaxAttempts ELSE 1
<1>1. Init => EInv
  BY InitIInv DEF EInv, Init, CancelFree, Counted
<1>2. EInv /\ [Next]_vars /\ (row # "CANCELLED")' => EInv'
  BY NextEInv
<1>3. ASSUME EInv, [Next]_vars PROVE Exhausted
  <2> SUFFICES ASSUME NEW i \in Ids, ops[i] = None, ops'[i].kind = "error"
               PROVE  fails[ops'[i].by]
                        = IF i \in Retried THEN MaxAttempts ELSE 1
    OBVIOUS
  <2>1. ops'[i] # ops[i]
    BY DEF None
  <2>2. PICK p \in Procs :
          \/ StartWorkflow(p) \/ Recover(p) \/ Launch(p)
          \/ CallStep(p) \/ RunWorkflow(p)
          \/ TimerFires(p) \/ PostCancel(p)
          \/ RecordLost(p) \/ Crash(p) \/ Restart(p)
          \/ CancelWorkflow(p) \/ ResumeWorkflow(p)
    BY <1>3, <2>1 DEF Next, vars, store
  <2>3. Record(p) \/ RecordLost(p)
    BY <2>1, <2>2, OpsWritten
  <2>4. pc[p] = "record" /\ RecordOperation(p)
    BY <2>3 DEF Record, RecordLost
  <2>5. i = at[p] /\ ops'[i] = [kind |-> outcome[p], by |-> p]
    BY <1>3, <2>1, <2>4 DEF RecordOperation, EInv, IInv, TypeOK
  <2>6. outcome[p] = "error" /\ ops'[i].by = p
    BY <2>5
  <2> QED BY <1>3, <2>4, <2>5, <2>6 DEF EInv, Counted
<1>4. EInv /\ [Next]_vars
        => [\A i \in Ids : ops[i] = None /\ ops'[i].kind = "error" =>
              fails[ops'[i].by] = IF i \in Retried THEN MaxAttempts
                                  ELSE 1]_vars
  BY <1>3
<1> QED BY <1>1, <1>2, <1>4, PTL DEF Spec, ErrorIsExhaustion

(* Nobody cancels a workflow without a deadline or an operator. *)
LEMMA NobodyCancels ==
  ASSUME MaxRequests = 0, Deadline = FALSE
  PROVE  Spec => [](row # "CANCELLED")
<1> DEFINE NInv == row # "CANCELLED" /\ \A p \in Procs : timer[p] = "none"
<1>1. Init => NInv
  BY DEF Init
<1>2. ASSUME IInv, NInv, [Next]_vars PROVE NInv'
  <2>1. CASE UNCHANGED vars
    BY <1>2, <2>1 DEF vars, store
  <2>2. ASSUME NEW p \in Procs, CallStep(p) PROVE NInv'
    <3>1. row' = row
      BY <2>2 DEF CallStep, Check, ReadCancelled, ReadRecorded, ReadMissing,
         Try, FunctionReturns, FunctionThrows, Record, store
    <3>2. ASSUME NEW why, EndBody(p, why) PROVE NInv'
      BY <1>2, <3>1, <3>2 DEF EndBody, Finish, IInv, TypeOK
    <3>3. ASSUME Continue(p) PROVE NInv'
      BY <1>2, <3>1, <3>2, <3>3 DEF Continue
    <3>4. ASSUME NEW why, Throw(p, why) PROVE NInv'
      BY <3>2, <3>3, <3>4 DEF Throw
    <3>5. ASSUME NEW result, Return(p, result) PROVE NInv'
      BY <3>3, <3>4, <3>5 DEF Return
    <3>6. CASE UNCHANGED timer
      BY <1>2, <3>1, <3>6
    <3> HIDE DEF NInv
    <3> QED BY <2>2, <3>4, <3>5, <3>6
            DEF CallStep, Check, ReadCancelled, ReadRecorded, ReadMissing,
                Try, FunctionReturns, FunctionThrows, NextAttempt, Record
  <2>3. ASSUME NEW p \in Procs, RunWorkflow(p) PROVE NInv'
    BY <1>2, <2>3 DEF RunWorkflow, TimedOut, Save, Complete, Await, Finish,
       SaveResult, IInv, TypeOK, store
  <2>4. ASSUME NEW p \in Procs,
               StartWorkflow(p) \/ Recover(p) \/ RecordLost(p) \/ Restart(p)
        PROVE  NInv'
    BY <1>2, <2>4 DEF StartWorkflow, CreateWorkflow, Recover, RecordLost,
       Restart, store
  <2>5. ASSUME NEW p \in Procs, Launch(p) \/ Crash(p) PROVE NInv'
    BY <1>2, <2>5 DEF Launch, Crash, IInv, TypeOK, store
  <2>6. ASSUME NEW p \in Procs
        PROVE  ~ (TimerFires(p) \/ PostCancel(p))
    BY <1>2 DEF TimerFires, PostCancel
  <2>7. ASSUME NEW p \in Procs
        PROVE  ~ (CancelWorkflow(p) \/ ResumeWorkflow(p))
    BY <1>2 DEF CancelWorkflow, ResumeWorkflow, IInv, TypeOK
  <2> HIDE DEF NInv
  <2> QED BY <1>2, <2>1, <2>2, <2>3, <2>4, <2>5, <2>6, <2>7 DEF Next
<1>3. NInv => row # "CANCELLED"
  OBVIOUS
<1> HIDE DEF NInv
<1> QED BY <1>1, <1>2, <1>3, Invariance, PTL DEF Spec

(* The same where there is neither: what the run checks. *)
COROLLARY ErrorExhaustedAlone ==
  ASSUME MaxRequests = 0, Deadline = FALSE
  PROVE  Spec => ErrorIsExhaustion
BY NobodyCancels, ErrorExhausted, PTL

-----------------------------------------------------------------------------
(* Refinement. *)

(* A record of an operation is the abstract Record of the same call. *)
LEMMA RecordsInOrder ==
  ASSUME IInv, NEW p \in Procs, Record(p) \/ RecordLost(p)
  PROVE  [Run!RunNext]_(Run!runVars)
<1>1. pc[p] = "record" /\ RecordOperation(p) /\ row' = row
  BY DEF Record, RecordLost
<1>2. PICK k \in Ids : k = at[p]
  BY DEF IInv, TypeOK
<1>3. CASE ops[k] # None
  BY <1>1, <1>2, <1>3 DEF RecordOperation, Accepts, Run!runVars
<1>4. CASE ops[k] = None
  <2>1. ops' = [ops EXCEPT ![k] = [kind |-> outcome[p], by |-> p]]
    BY <1>1, <1>2, <1>4 DEF RecordOperation, Accepts
  <2>2. outcome[p] \in {"output", "error"}
    BY <1>1 DEF IInv, ProcessKnows, Knows
  <2>3. \A j \in 0..(k - 1) : Run!Done(j)
    <3>1. \A j \in 0..(k - 1) : Done(j) /\ j \in Ids
      BY <1>1, <1>2 DEF IInv, ProcessKnows, Knows, InBody, Ids
    <3> QED BY <3>1 DEF Run!Done, Done
  <2>4. ops[k].kind = "none"
    BY <1>4 DEF None
  <2>5. Run!Record(k)
    <3>1. [i \in Ids |-> ops'[i].kind]
            = [[i \in Ids |-> ops[i].kind] EXCEPT ![k] = outcome[p]]
      BY <2>1 DEF IInv, TypeOK
    <3> QED BY <1>1, <2>2, <2>3, <2>4, <3>1 DEF Run!Record
  <2> QED BY <2>5 DEF Run!RunNext, Run!RunIds, Ids
<1> QED BY <1>3, <1>4

(* Any number of processes on one workflow behave like the one durable run *)
(* they share; a step either is a step of that run or cannot be seen in it.*)
THEOREM Refinement == Spec => ImplementsRun
<1>1. Init => Run!RunInit
  BY DEF Init, Run!RunInit, Run!RunIds, Ids, None
<1>2. ASSUME IInv, [Next]_vars PROVE [Run!RunNext]_(Run!runVars)
  <2>1. ASSUME UNCHANGED <<row, ops>> PROVE [Run!RunNext]_(Run!runVars)
    BY <2>1 DEF Run!runVars
  <2>2. ASSUME NEW p \in Procs, CallStep(p) PROVE [Run!RunNext]_(Run!runVars)
    <3>1. CASE Record(p)
      BY <1>2, <3>1, RecordsInOrder
    <3>2. CASE ~ Record(p)
      <4>1. UNCHANGED <<row, ops>>
        BY <2>2, <3>2 DEF CallStep, Check, ReadCancelled, ReadRecorded,
           ReadMissing, Try, FunctionReturns, FunctionThrows, store
      <4> QED BY <2>1, <4>1
    <3> QED BY <3>1, <3>2
  <2>3. ASSUME NEW p \in Procs, Save(p) PROVE [Run!RunNext]_(Run!runVars)
    <3>1. row # "absent" /\ UNCHANGED ops
      BY <1>2, <2>3 DEF Save, IInv, NothingBeforeStart, Running
    <3>2. CASE ~ SaveAccepted
      BY <2>1, <2>3, <3>1, <3>2 DEF Save, SaveResult
    <3>3. CASE SaveAccepted /\ outcome[p] = "output"
      <4>1. row' = "SUCCESS" /\ Succeeded
        BY <1>2, <2>3, <3>3 DEF Save, SaveResult, IInv, ProcessKnows, Knows
      <4>2. Run!Succeed
        BY <3>1, <3>3, <4>1 DEF Run!Succeed, Run!RunIds, Ids, Run!Done,
           Succeeded, Done, SaveAccepted
      <4> QED BY <4>2 DEF Run!RunNext
    <3>4. CASE SaveAccepted /\ outcome[p] # "output"
      <4>1. row' = "ERROR"
        BY <2>3, <3>4 DEF Save, SaveResult
      <4>2. Run!Fail
        BY <3>1, <3>4, <4>1 DEF Run!Fail, SaveAccepted
      <4> QED BY <4>2 DEF Run!RunNext
    <3> QED BY <3>2, <3>3, <3>4
  <2>4. ASSUME NEW p \in Procs, RunWorkflow(p)
        PROVE  [Run!RunNext]_(Run!runVars)
    <3>1. CASE ~ Save(p)
      <4>1. UNCHANGED <<row, ops>>
        BY <2>4, <3>1 DEF RunWorkflow, TimedOut, Complete, Await, store
      <4> QED BY <2>1, <4>1
    <3> QED BY <2>3, <3>1
  <2>5. ASSUME NEW p \in Procs, StartWorkflow(p)
        PROVE  [Run!RunNext]_(Run!runVars)
    <3>1. Run!Create
      BY <2>5 DEF StartWorkflow, CreateWorkflow, Run!Create
    <3> QED BY <3>1 DEF Run!RunNext
  <2>6. ASSUME NEW p \in Procs, PostCancel(p) \/ CancelWorkflow(p)
        PROVE  [Run!RunNext]_(Run!runVars)
    <3>1. row # "absent"
      <4>1. PostCancel(p) => pc[p] \in Running
        BY <1>2 DEF PostCancel, IInv, ProcessKnows, Knows, Running
      <4> QED BY <1>2, <2>6, <4>1 DEF CancelWorkflow, IInv, NothingBeforeStart
    <3>2. Run!Cancel
      BY <2>6, <3>1 DEF PostCancel, CancelWorkflow, Run!Cancel
    <3> QED BY <3>2 DEF Run!RunNext
  <2>7. ASSUME NEW p \in Procs, ResumeWorkflow(p)
        PROVE  [Run!RunNext]_(Run!runVars)
    <3>1. Run!Resume
      BY <2>7 DEF ResumeWorkflow, Run!Resume
    <3> QED BY <3>1 DEF Run!RunNext
  <2>8. ASSUME NEW p \in Procs,
               \/ Recover(p) \/ Launch(p) \/ TimerFires(p) \/ Crash(p)
               \/ Restart(p)
        PROVE  [Run!RunNext]_(Run!runVars)
    <3>1. UNCHANGED <<row, ops>>
      BY <2>8 DEF Recover, Launch, TimerFires, Crash, Restart, store
    <3> QED BY <2>1, <3>1
  <2>9. CASE UNCHANGED vars
    BY <2>1, <2>9 DEF vars, store
  <2> QED BY <1>2, <2>2, <2>4, <2>5, <2>6, <2>7, <2>8, <2>9, RecordsInOrder
          DEF Next
<1> QED BY <1>1, <1>2, Invariance, PTL DEF Spec, ImplementsRun, Run!RunSpec

=============================================================================
