-------------------------- MODULE ChildAwaitProofs --------------------------
(***************************************************************************)
(* Proofs about ChildAwait, for every set of children and sessions, with   *)
(* and without an exclusive dispatcher, and for every bound.               *)
(***************************************************************************)
EXTENDS ChildAwait, TLAPS

USE ChildAwaitAssumption

(* The initial state satisfies the inductive invariant. *)
LEMMA InitIInv == Init => IInv
<1> SUFFICES ASSUME Init PROVE IInv
  OBVIOUS
<1> USE DEF Init, Resolved
<1>1. TypeOK
  <2>1. pc \in [Sessions -> [Children -> CallStates]]
    BY DEF CallStates
  <2>2. lost \in 0..MaxLost /\ crashes \in 0..MaxCrashes
    OBVIOUS
  <2>3. resultOp \in [Children -> {"none", "output", "error"}]
    OBVIOUS
  <2>4. row \in [Children -> {"absent", "PENDING", "SUCCESS", "ERROR"}]
    OBVIOUS
  <2> QED BY <2>1, <2>2, <2>3, <2>4 DEF TypeOK, TriggerStatuses, Active
<1>2. ResolvedMeansOver /\ EnqueuedWasCreated /\ CallsKnow
  BY DEF ResolvedMeansOver, EnqueuedWasCreated, CallsKnow, Joined
<1>3. WaitingHasWaker /\ StartedHasHolder /\ CompletedMeansJoined
  BY DEF WaitingHasWaker, StartedHasHolder, CompletedMeansJoined
<1> QED BY <1>1, <1>2, <1>3 DEF IInv

(* The calls of a live session preserve it, one lemma per request. *)
LEMMA SpawnReadInv ==
  ASSUME NEW s \in Sessions, NEW c \in Children, IInv, SpawnRead(s, c)
  PROVE  IInv'
<1> USE DEF IInv, SpawnRead, Step, Resolved
<1>1. TypeOK'
  BY DEF TypeOK, CallStates
<1>2. WaitingHasWaker' /\ ResolvedMeansOver' /\ EnqueuedWasCreated'
  BY DEF WaitingHasWaker, ResolvedMeansOver, EnqueuedWasCreated
<1>3. StartedHasHolder'
  BY DEF StartedHasHolder, TypeOK
<1>4. CallsKnow'
  BY DEF CallsKnow, TypeOK, EnqueuedWasCreated, Joined
<1>5. (~ Settles => CompletedMeansJoined)'
  BY DEF CompletedMeansJoined
<1> QED BY <1>1, <1>2, <1>3, <1>4, <1>5

LEMMA SpawnCreateInv ==
  ASSUME NEW s \in Sessions, NEW c \in Children, IInv, SpawnCreate(s, c)
  PROVE  IInv'
<1> USE DEF IInv, SpawnCreate, Step, Resolved, CreateWorkflow
<1>1. TypeOK'
  BY DEF TypeOK, CallStates
<1>2. WaitingHasWaker' /\ ResolvedMeansOver' /\ EnqueuedWasCreated'
  BY DEF WaitingHasWaker, ResolvedMeansOver, EnqueuedWasCreated, TypeOK
<1>3. StartedHasHolder'
  BY DEF StartedHasHolder, TypeOK
<1>4. CallsKnow'
  BY DEF CallsKnow, TypeOK, EnqueuedWasCreated, Joined
<1>5. (~ Settles => CompletedMeansJoined)'
  BY DEF CompletedMeansJoined
<1> QED BY <1>1, <1>2, <1>3, <1>4, <1>5

LEMMA SpawnRecordInv ==
  ASSUME NEW s \in Sessions, NEW c \in Children, IInv, SpawnRecord(s, c)
  PROVE  IInv'
<1> USE DEF IInv, SpawnRecord, Step, Resolved
<1>1. TypeOK'
  BY DEF TypeOK, CallStates
<1>2. WaitingHasWaker' /\ ResolvedMeansOver'
  BY DEF WaitingHasWaker, ResolvedMeansOver
<1>3. StartedHasHolder'
  BY DEF StartedHasHolder, TypeOK
<1>4. CallsKnow' /\ EnqueuedWasCreated'
  BY DEF CallsKnow, TypeOK, EnqueuedWasCreated, Joined
<1>5. (~ Settles => CompletedMeansJoined)'
  BY DEF CompletedMeansJoined
<1> QED BY <1>1, <1>2, <1>3, <1>4, <1>5

LEMMA AwaitReadInv ==
  ASSUME NEW s \in Sessions, NEW c \in Children, IInv, AwaitRead(s, c)
  PROVE  IInv'
<1> USE DEF IInv, AwaitRead, Step, Resolved
<1>1. TypeOK'
  BY DEF TypeOK, CallStates
<1>2. WaitingHasWaker' /\ ResolvedMeansOver' /\ EnqueuedWasCreated'
  BY DEF WaitingHasWaker, ResolvedMeansOver, EnqueuedWasCreated
<1>3. StartedHasHolder'
  BY DEF StartedHasHolder, TypeOK
<1>4. CallsKnow'
  BY DEF CallsKnow, TypeOK, Joined
<1>5. (~ Settles => CompletedMeansJoined)'
  BY DEF CompletedMeansJoined
<1> QED BY <1>1, <1>2, <1>3, <1>4, <1>5

(* The compare-and-set moves the trigger to waiting only when the awaited  *)
(* child is still pending, and then no trigger is held as started.         *)
LEMMA ChildWaitInv ==
  ASSUME NEW s \in Sessions, NEW c \in Children, IInv,
         ChildWait(s, c) \/ ChildWaitLost(s, c)
  PROVE  IInv'
<1> USE DEF IInv, ChildWait, ChildWaitLost, Step, Resolved, MarkWaiting
<1>1. TypeOK'
  BY DEF TypeOK, CallStates, TriggerStatuses, Active, Terminal
<1>2. WaitingHasWaker'
  BY DEF WaitingHasWaker, ResolvedMeansOver, CallsKnow, TypeOK
<1>3. ResolvedMeansOver' /\ EnqueuedWasCreated'
  BY DEF ResolvedMeansOver, EnqueuedWasCreated
<1>4. StartedHasHolder'
  BY DEF StartedHasHolder, TypeOK, Active
<1>5. CallsKnow'
  BY SMTT(30) DEF CallsKnow, TypeOK, Joined
<1>6. (~ Settles => CompletedMeansJoined)'
  BY DEF CompletedMeansJoined
<1> QED BY <1>1, <1>2, <1>3, <1>4, <1>5, <1>6

(* The re-read finds the operation the compare-and-set saw: the suspension *)
(* it falls through to is never taken.                                     *)
LEMMA AwaitRereadInv ==
  ASSUME NEW s \in Sessions, NEW c \in Children, IInv, AwaitReread(s, c)
  PROVE  IInv'
<1> USE DEF IInv, AwaitReread, Step, Resolved
<1>1. TypeOK'
  BY DEF TypeOK, CallStates
<1>2. WaitingHasWaker' /\ ResolvedMeansOver' /\ EnqueuedWasCreated'
  BY DEF WaitingHasWaker, ResolvedMeansOver, EnqueuedWasCreated
<1>3. StartedHasHolder'
  BY DEF StartedHasHolder, TypeOK, CallsKnow
<1>4. CallsKnow'
  BY DEF CallsKnow, TypeOK, Joined
<1>5. (~ Settles => CompletedMeansJoined)'
  BY DEF CompletedMeansJoined
<1> QED BY <1>1, <1>2, <1>3, <1>4, <1>5

(* The four ways a session ends. *)
LEMMA EndSessionInv ==
  ASSUME NEW s \in Sessions, IInv, EndSession(s)
  PROVE  IInv'
<1> USE DEF IInv, EndSession, Suspend, EndCancelled, EndFailed, EndCompleted,
            Leave, Clear, EndTrigger, Resolved
<1>1. TypeOK'
  BY SMTT(30) DEF TypeOK, CallStates, TriggerStatuses, Terminal
<1>2. WaitingHasWaker' /\ ResolvedMeansOver' /\ EnqueuedWasCreated'
  BY DEF WaitingHasWaker, ResolvedMeansOver, EnqueuedWasCreated, Terminal
<1>3. StartedHasHolder'
  BY DEF StartedHasHolder, TypeOK, Terminal
<1>4. CallsKnow'
  BY DEF CallsKnow, TypeOK, Joined
<1>5. (~ Settles => CompletedMeansJoined)'
  BY DEF CompletedMeansJoined, CallsKnow, Returned, Terminal, Joined
<1> QED BY <1>1, <1>2, <1>3, <1>4, <1>5

LEMMA DispatchInv ==
  ASSUME NEW s \in Sessions, IInv, Dispatch(s)
  PROVE  IInv'
<1> USE DEF IInv, Dispatch, Clear, Resolved
<1>1. TypeOK'
  BY DEF TypeOK, CallStates, TriggerStatuses, Active
<1>2. WaitingHasWaker' /\ ResolvedMeansOver' /\ EnqueuedWasCreated'
  BY DEF WaitingHasWaker, ResolvedMeansOver, EnqueuedWasCreated
<1>3. StartedHasHolder'
  BY DEF StartedHasHolder, TypeOK
<1>4. CallsKnow'
  BY DEF CallsKnow, TypeOK, Joined
<1>5. (~ Settles => CompletedMeansJoined)'
  BY DEF CompletedMeansJoined
<1> QED BY <1>1, <1>2, <1>3, <1>4, <1>5

LEMMA CrashInv ==
  ASSUME NEW s \in Sessions, IInv, Crash(s)
  PROVE  IInv'
<1> USE DEF IInv, Crash, Clear, Resolved
<1>1. TypeOK'
  BY DEF TypeOK, CallStates, TriggerStatuses, Active
<1>2. WaitingHasWaker' /\ ResolvedMeansOver' /\ EnqueuedWasCreated'
  BY DEF WaitingHasWaker, ResolvedMeansOver, EnqueuedWasCreated
<1>3. StartedHasHolder'
  BY DEF StartedHasHolder
<1>4. CallsKnow'
  BY DEF CallsKnow, TypeOK, Joined
<1>5. (~ Settles => CompletedMeansJoined)'
  BY DEF CompletedMeansJoined
<1> QED BY <1>1, <1>2, <1>3, <1>4, <1>5

(* A finished child takes the parent out of waiting in the same step. *)
LEMMA ChildFinishesInv ==
  ASSUME NEW c \in Children, IInv, ChildFinishes(c)
  PROVE  IInv'
<1> PICK result \in Joined : CompleteChild(c, result)
  BY DEF ChildFinishes
<1> USE DEF IInv, CompleteChild, RependParent, Resolved
<1>1. TypeOK'
  BY DEF TypeOK, TriggerStatuses, Active, Joined
<1>2. WaitingHasWaker' /\ StartedHasHolder'
  BY DEF WaitingHasWaker, StartedHasHolder
<1>3. ResolvedMeansOver' /\ EnqueuedWasCreated'
  BY DEF ResolvedMeansOver, EnqueuedWasCreated, TypeOK, Joined
<1>4. CallsKnow'
  BY DEF CallsKnow, TypeOK, Joined
<1>5. (~ Settles => CompletedMeansJoined)'
  BY DEF CompletedMeansJoined, TypeOK, Joined
<1> QED BY <1>1, <1>2, <1>3, <1>4, <1>5

(* Cancellation and infrastructure failures. *)
LEMMA OutsideInv ==
  ASSUME IInv, CancelWorkflow \/ FailTrigger \/ UNCHANGED vars
  PROVE  IInv'
BY DEF IInv, CancelWorkflow, FailTrigger, vars, TypeOK, WaitingHasWaker,
       StartedHasHolder, ResolvedMeansOver, CallsKnow, EnqueuedWasCreated,
       CompletedMeansJoined, Resolved, TriggerStatuses, Terminal

LEMMA NextIInv == IInv /\ [Next]_vars => IInv'
<1> SUFFICES ASSUME IInv, [Next]_vars PROVE IInv'
  OBVIOUS
<1>1. ASSUME NEW s \in Sessions, NEW c \in Children,
             Call(s, c) \/ ChildWaitLost(s, c)
      PROVE  IInv'
  BY <1>1, SpawnReadInv, SpawnCreateInv, SpawnRecordInv, AwaitReadInv,
     ChildWaitInv, AwaitRereadInv DEF Call
<1>2. ASSUME NEW s \in Sessions, EndSession(s) \/ Dispatch(s) \/ Crash(s)
      PROVE  IInv'
  BY <1>2, EndSessionInv, DispatchInv, CrashInv
<1>3. ASSUME NEW c \in Children, ChildFinishes(c) PROVE IInv'
  BY <1>3, ChildFinishesInv
<1>4. CASE CancelWorkflow \/ FailTrigger \/ UNCHANGED vars
  BY <1>4, OutsideInv
<1> QED BY <1>1, <1>2, <1>3, <1>4 DEF Next

(* The inductive invariant holds in every reachable state. *)
THEOREM Invariance == Spec => []IInv
<1>1. Init => IInv
  BY InitIInv
<1>2. IInv /\ [Next]_vars => IInv'
  BY NextIInv
<1> QED BY <1>1, <1>2, PTL DEF Spec

(* Whatever the bounds say, every variable keeps its type. *)
THEOREM TypeCorrect == Spec => []TypeOK
<1>1. IInv => TypeOK
  BY DEF IInv
<1> QED BY <1>1, Invariance, PTL

(* No wake-up is lost: the child-wait compare-and-set and the wake-up of   *)
(* completeChild leave no interleaving in which the parent sleeps with     *)
(* nobody to wake it.                                                      *)
THEOREM NeverStranded == Spec => []NotStranded
<1>1. IInv => NotStranded
  BY DEF IInv, TypeOK, TriggerStatuses, Active, WaitingHasWaker,
         StartedHasHolder, NotStranded
<1> QED BY <1>1, Invariance, PTL

(* Creating before recording: no recorded enqueue names a missing child.   *)
THEOREM RecordedWasCreated == Spec => []EnqueuedWasCreated
<1>1. IInv => EnqueuedWasCreated
  BY DEF IInv
<1> QED BY <1>1, Invariance, PTL

(* Unless the body swallows suspensions, a completed run joined them all.  *)
THEOREM CompletedJoined == ~ Settles => (Spec => []CompletedMeansJoined)
<1>1. ASSUME ~ Settles PROVE IInv => CompletedMeansJoined
  BY <1>1 DEF IInv
<1>2. ASSUME ~ Settles PROVE Spec => []CompletedMeansJoined
  BY <1>1, <1>2, Invariance, PTL
<1> QED BY <1>2

-----------------------------------------------------------------------------
(* Action properties: each handler's effect on the trigger and the rows.   *)

(* A terminal trigger is never moved again. *)
THEOREM StaysEnded == Spec => NoResurrection
<1>1. ASSUME [Next]_vars, triggerStatus \in Terminal
      PROVE  triggerStatus' = triggerStatus
  <2> USE DEF Terminal
  <2>1. ASSUME NEW s \in Sessions, NEW c \in Children,
               Call(s, c) \/ ChildWaitLost(s, c)
        PROVE  triggerStatus' = triggerStatus
    BY <1>1, <2>1 DEF Call, SpawnRead, SpawnCreate, SpawnRecord, AwaitRead,
       ChildWait, ChildWaitLost, AwaitReread, MarkWaiting, Active
  <2>2. ASSUME NEW s \in Sessions, EndSession(s) \/ Dispatch(s) \/ Crash(s)
        PROVE  triggerStatus' = triggerStatus
    BY <1>1, <2>2 DEF EndSession, Suspend, EndCancelled, EndFailed,
       EndCompleted, EndTrigger, Dispatch, Crash
  <2>3. ASSUME NEW c \in Children, ChildFinishes(c)
        PROVE  triggerStatus' = triggerStatus
    BY <1>1, <2>3 DEF ChildFinishes, CompleteChild, RependParent
  <2>4. CASE CancelWorkflow \/ FailTrigger \/ UNCHANGED vars
    BY <1>1, <2>4 DEF CancelWorkflow, FailTrigger, vars
  <2> QED BY <1>1, <2>1, <2>2, <2>3, <2>4 DEF Next
<1>2. [Next]_vars => [(triggerStatus \in Terminal)
                        => triggerStatus' = triggerStatus]_vars
  BY <1>1
<1> QED BY <1>2, PTL DEF Spec, NoResurrection

(* A child that exists keeps existing, and its result is final. *)
THEOREM RunsOnce == Spec => NeverRestarted
<1> DEFINE Kept == \A c \in Children :
             /\ row[c] # "absent" => row'[c] # "absent"
             /\ row[c] \in {"SUCCESS", "ERROR"} => row'[c] = row[c]
<1>1. ASSUME TypeOK, [Next]_vars PROVE Kept
  <2>1. ASSUME NEW s \in Sessions, NEW c \in Children, SpawnCreate(s, c)
        PROVE  Kept
    BY <1>1, <2>1 DEF SpawnCreate, CreateWorkflow, TypeOK
  <2>2. ASSUME NEW c \in Children, ChildFinishes(c) PROVE Kept
    BY <1>1, <2>2 DEF ChildFinishes, CompleteChild, TypeOK
  <2>3. ASSUME row' = row PROVE Kept
    BY <2>3
  <2>4. ASSUME NEW s \in Sessions, NEW c \in Children,
               Call(s, c) \/ ChildWaitLost(s, c)
        PROVE  Kept
    <3>1. CASE SpawnCreate(s, c)
      BY <3>1, <2>1
    <3>2. CASE ~ SpawnCreate(s, c)
      <4>1. row' = row
        BY <3>2, <2>4 DEF Call, SpawnRead, SpawnRecord, AwaitRead, ChildWait,
           ChildWaitLost, AwaitReread
      <4> QED BY <4>1, <2>3
    <3> QED BY <3>1, <3>2
  <2>5. ASSUME NEW s \in Sessions, EndSession(s) \/ Dispatch(s) \/ Crash(s)
        PROVE  Kept
    <3>1. row' = row
      BY <2>5 DEF EndSession, Suspend, EndCancelled, EndFailed,
         EndCompleted, Leave, Dispatch, Crash
    <3> QED BY <3>1, <2>3
  <2>6. CASE CancelWorkflow \/ FailTrigger \/ UNCHANGED vars
    <3>1. row' = row
      BY <2>6 DEF CancelWorkflow, FailTrigger, vars
    <3> QED BY <3>1, <2>3
  <2> HIDE DEF Kept
  <2> QED BY <1>1, <2>2, <2>4, <2>5, <2>6 DEF Next
<1>2. TypeOK /\ [Next]_vars => [Kept]_vars
  BY <1>1
<1> QED BY <1>2, TypeCorrect, PTL DEF Spec, NeverRestarted

-----------------------------------------------------------------------------
(* Refinement. *)

(* Every step of the protocol is a step of the abstract join, or leaves it *)
(* unchanged: Block is the child-wait that found its child pending, Finish *)
(* the completion that wakes the parent in the same request.               *)
THEOREM Refinement == Spec => ImplementsJoin
<1>1. Init => Join!JoinInit
  BY DEF Init, Join!JoinInit, Terminal, Resolved
<1>2. ASSUME IInv, [Next]_vars PROVE [Join!JoinNext]_(Join!joinVars)
  <2> USE DEF Join!joinVars, Resolved
  <2>1. ASSUME NEW s \in Sessions, NEW c \in Children,
               Call(s, c) \/ ChildWaitLost(s, c)
        PROVE  [Join!JoinNext]_(Join!joinVars)
    <3>1. CASE SpawnCreate(s, c)
      <4>1. Join!Start(c)
        BY <1>2, <3>1 DEF SpawnCreate, CreateWorkflow, Join!Start, IInv,
           TypeOK
      <4> QED BY <4>1 DEF Join!JoinNext
    <3>2. CASE ChildWait(s, c) \/ ChildWaitLost(s, c)
      <4>1. CASE triggerStatus' = triggerStatus
        BY <3>2, <4>1 DEF ChildWait, ChildWaitLost
      <4>2. CASE triggerStatus' # triggerStatus
        <5>1. /\ triggerStatus \in Active
              /\ triggerStatus' = "waiting"
              /\ resultOp[c] = "none"
              /\ UNCHANGED <<row, resultOp>>
          BY <3>2, <4>2 DEF ChildWait, ChildWaitLost, MarkWaiting
        <5>2. row[c] # "absent"
          BY <1>2, <3>2 DEF ChildWait, ChildWaitLost, Step, IInv, CallsKnow
        <5>3. {d \in Children : row[d] # "absent"}
                # {d \in Children : resultOp[d] # "none"}
          BY <5>1, <5>2
        <5>4. Join!Block
          BY <5>1, <5>3 DEF Join!Block, Active, Terminal
        <5> QED BY <5>4 DEF Join!JoinNext
      <4> QED BY <4>1, <4>2
    <3>3. CASE SpawnRead(s, c) \/ SpawnRecord(s, c) \/ AwaitRead(s, c)
               \/ AwaitReread(s, c)
      BY <3>3 DEF SpawnRead, SpawnRecord, AwaitRead, AwaitReread
    <3> QED BY <2>1, <3>1, <3>2, <3>3 DEF Call
  <2>2. ASSUME NEW s \in Sessions, EndSession(s) \/ Dispatch(s) \/ Crash(s)
        PROVE  [Join!JoinNext]_(Join!joinVars)
    <3>1. UNCHANGED <<row, resultOp>>
      BY <2>2 DEF EndSession, Suspend, EndCancelled, EndFailed,
         EndCompleted, Leave, Dispatch, Crash
    <3>2. \/ triggerStatus' = triggerStatus
          \/ triggerStatus' \in Terminal
          \/ triggerStatus \in Active /\ triggerStatus' \in Active
      BY <2>2 DEF EndSession, Suspend, EndCancelled, EndFailed,
         EndCompleted, EndTrigger, Dispatch, Crash, Active, Terminal
    <3>3. CASE triggerStatus' \in Terminal
      BY <3>1, <3>3 DEF Join!JoinNext, Join!End
    <3>4. CASE \/ triggerStatus' = triggerStatus
               \/ triggerStatus \in Active /\ triggerStatus' \in Active
      BY <3>1, <3>4 DEF Active, Terminal
    <3> QED BY <3>2, <3>3, <3>4
  <2>3. ASSUME NEW c \in Children, ChildFinishes(c)
        PROVE  [Join!JoinNext]_(Join!joinVars)
    <3> PICK result \in Joined : CompleteChild(c, result)
      BY <2>3 DEF ChildFinishes
    <3> USE DEF CompleteChild
    <3>1. row[c] = "PENDING" /\ resultOp[c] = "none"
      BY <1>2 DEF IInv, ResolvedMeansOver
    <3>2. {d \in Children : row'[d] # "absent"}
            = {d \in Children : row[d] # "absent"}
      BY <1>2, <3>1 DEF IInv, TypeOK
    <3>3. {d \in Children : resultOp'[d] # "none"}
            = {d \in Children : resultOp[d] # "none"} \cup {c}
      BY <1>2, <3>1 DEF IInv, TypeOK, Joined
    <3>4. Join!Finish(c)
      BY <3>1, <3>2, <3>3 DEF Join!Finish, RependParent, Terminal
    <3> QED BY <3>4 DEF Join!JoinNext
  <2>4. CASE FailTrigger
    BY <2>4 DEF FailTrigger, Join!JoinNext, Join!End, Terminal
  <2>5. CASE CancelWorkflow \/ UNCHANGED vars
    BY <2>5 DEF CancelWorkflow, vars
  <2> QED BY <1>2, <2>1, <2>2, <2>3, <2>4, <2>5 DEF Next
<1> QED BY <1>1, <1>2, Invariance, PTL DEF Spec, ImplementsJoin, Join!JoinSpec

=============================================================================
