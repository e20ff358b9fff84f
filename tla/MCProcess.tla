----------------------------- MODULE MCProcess ------------------------------
(* Programs of a few statements in each of the three modes. *)
EXTENDS Process, TLC

CONSTANTS f1, f2, c1, n1, n2, n3, n4

(* The names in the source; n3 is cut to n1 by its hyphen. *)
MCFnName == (f1 :> n1) @@ (f2 :> n2) @@ (c1 :> n4)
MCFirstPart == (n1 :> n1) @@ (n2 :> n2) @@ (n3 :> n1) @@ (n4 :> n4)

S(op, f, n, c, cls, e) ==
  [op |-> op, fn |-> f, name |-> n, ctor |-> c, cls |-> cls, entry |-> e]

Plain(op, f, n) == S(op, f, n, NoCtor, NoName, FALSE)
In(op, f, n) == S(op, f, n, c1, NoName, FALSE)
Only(op) == Plain(op, NoFn, NoName)

Invoking ==
  {Plain("defineWorkflow", f1, NoName), Plain("defineWorkflow", f2, NoName),
   Plain("defineWorkflow", f2, n1), Plain("registerWorkflow", f2, NoName),
   Plain("run", f1, NoName), Plain("runIfEntrypoint", f1, NoName),
   S("runIfEntrypoint", f2, NoName, NoCtor, NoName, TRUE),
   Only("throw"), Only("exitCode")}

Launching ==
  {In("workflow", f1, NoName), In("workflow", f2, n1),
   In("step", f2, n3), Plain("registerStep", f1, n2),
   Plain("registerWorkflow", f1, NoName),
   S("registerWorkflow", f2, n2, c1, n4, FALSE),
   S("registerWorkflow", f2, n2, NoCtor, n4, FALSE),
   S("className", NoFn, NoName, c1, n3, FALSE),
   S("instance", NoFn, n1, c1, NoName, FALSE),
   Only("middleware"), Only("launch"), Only("shutdown")}

MCStatements ==
  [m \in Modes |-> IF m = "legacy" THEN Launching ELSE Invoking]

MCJobs ==
  {[mode |-> m, input |-> i, manifest |-> TRUE, oneShot |-> TRUE,
    entryEnv |-> TRUE, id |-> n] :
     m \in {"direct", "launcher"}, i \in {"inline", "malformed", "url"}, n \in {n1, n3}}
  \cup {[mode |-> m, input |-> "inline", manifest |-> FALSE, oneShot |-> FALSE,
         entryEnv |-> FALSE, id |-> n1] : m \in {"legacy", "launcher", "direct"}}
=============================================================================
