----------------------------- MODULE ChildJoin ------------------------------
(***************************************************************************)
(* What the child-workflow join promises a parent workflow, with no        *)
(* trigger row, operation store or process in sight: a parent may go to    *)
(* sleep only while a child it started is unfinished, every child that     *)
(* finishes while the parent sleeps wakes it, and an ended parent stays    *)
(* ended.  ChildAwait implements this specification.                       *)
(***************************************************************************)
CONSTANT Children

VARIABLES parent,   \* "runnable", "blocked" or "ended"
          started,  \* the children that exist
          finished  \* the children whose result the parent can read

joinVars == <<parent, started, finished>>

JoinTypeOK ==
  /\ parent \in {"runnable", "blocked", "ended"}
  /\ started \subseteq Children
  /\ finished \subseteq Children

JoinInit ==
  /\ parent = "runnable"
  /\ started = {}
  /\ finished = {}

(* A running parent starts a child.  The process of a parent that already  *)
(* gave up the run (blocked or ended) may still be issuing the request.    *)
Start(c) ==
  /\ started' = started \cup {c}
  /\ UNCHANGED <<parent, finished>>

(* The parent gives up its process: some started child must still wake it. *)
Block ==
  /\ parent = "runnable"
  /\ started # finished
  /\ parent' = "blocked"
  /\ UNCHANGED <<started, finished>>

(* A child's result becomes readable and wakes a sleeping parent. *)
Finish(c) ==
  /\ c \in started \ finished
  /\ finished' = finished \cup {c}
  /\ parent' = IF parent = "blocked" THEN "runnable" ELSE parent
  /\ UNCHANGED started

(* The run ends: completed, failed or cancelled. *)
End ==
  /\ parent' = "ended"
  /\ UNCHANGED <<started, finished>>

JoinNext ==
  \/ \E c \in Children : Start(c) \/ Finish(c)
  \/ Block
  \/ End

JoinSpec == JoinInit /\ [][JoinNext]_joinVars

=============================================================================
