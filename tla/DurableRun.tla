----------------------------- MODULE DurableRun ------------------------------
(***************************************************************************)
(* What both engines promise of a durable run, with no process, request or *)
(* dispatcher in sight: the outcome of every call is written once and in   *)
(* the order of the body, a run succeeds only when every call its body     *)
(* relies on is done, and a cancelled run stays so until it is resumed.    *)
(* InvokeRun and Executor implement this specification.                    *)
(***************************************************************************)
EXTENDS Naturals

CONSTANTS Calls,   \* how many durable calls the body makes
          Guarded  \* the calls whose failure the body catches

RunIds == 0..(Calls - 1)

VARIABLES status,  \* of the run, as every reader of its row sees it
          log      \* the outcome of each call: "none", "output" or "error"

runVars == <<status, log>>

(* The body got past the call i. *)
Done(i) == i \notin Guarded => log[i] = "output"

RunInit ==
  /\ status = "absent"
  /\ log = [i \in RunIds |-> "none"]

Create ==
  /\ status = "absent"
  /\ status' = "PENDING"
  /\ UNCHANGED log

(* An outcome is written; the calls before it are behind the body. *)
Record(i) ==
  /\ log[i] = "none"
  /\ \A j \in 0..(i - 1) : Done(j)
  /\ \E outcome \in {"output", "error"} : log' = [log EXCEPT ![i] = outcome]
  /\ UNCHANGED status

Succeed ==
  /\ status \notin {"absent", "CANCELLED"}
  /\ \A i \in RunIds : Done(i)
  /\ status' = "SUCCESS"
  /\ UNCHANGED log

Fail ==
  /\ status \notin {"absent", "CANCELLED"}
  /\ status' = "ERROR"
  /\ UNCHANGED log

Cancel ==
  /\ status # "absent"
  /\ status' = "CANCELLED"
  /\ UNCHANGED log

Resume ==
  /\ status \in {"CANCELLED", "ERROR"}
  /\ status' = "PENDING"
  /\ UNCHANGED log

RunNext ==
  \/ Create \/ Succeed \/ Fail \/ Cancel \/ Resume
  \/ \E i \in RunIds : Record(i)

RunSpec == RunInit /\ [][RunNext]_runVars

=============================================================================
