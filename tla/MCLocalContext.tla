--------------------------- MODULE MCLocalContext ---------------------------
(* Programs that mix concurrent calls, nested calls, children, scopes and
   patches, none of which opens a scope inside a workflow that was started
   under one, or makes a patch concurrent with another call.               *)
EXTENDS LocalContext, TLC

CONSTANTS a, b

C(op, body, group) ==
  [op |-> op, body |-> body, group |-> group, id |-> NoId, scope |-> NoId, on |-> {}]
Under(s, c) == [c EXCEPT !.scope = s]
Named(w, c) == [c EXCEPT !.id = w]
If(p, answer, c) == [c EXCEPT !.on = {[patch |-> p, answer |-> answer]}]

(* Steps, one with calls in it that are inline or refused, beside a recv. *)
Concurrent ==
  <<C("start", 0, 1), C("step", 1, 1), C("runStep", 2, 1), C("send", 2, 2),
    C("recv", 1, 1), C("setEvent", 1, 2), C("respond", 1, 3), C("now", 1, 4)>>

(* Waits for a result, whose timer has the first of their ids: beside the
   first step and in it, where it takes an id of the step's own context, and
   in another, where it is refused; with a stream written and ended.       *)
Waits ==
  <<C("start", 0, 1), C("step", 1, 1), C("getResult", 1, 1), C("writeStream", 2, 1),
    C("getResult", 2, 2), C("step", 1, 2), C("getResult", 6, 1), C("status", 6, 1),
    C("retrieve", 1, 2), C("closeStream", 1, 2)>>

(* Children of a workflow started under a scope, called and started. *)
Children ==
  <<Under(a, C("start", 0, 1)), C("call", 1, 1), C("step", 2, 1),
    C("start", 1, 1), C("step", 4, 1), C("start", 3, 1), C("getEvent", 1, 2),
    C("step", 2, 2)>>

(* Scopes inside a workflow that was not started under one. *)
Scopes ==
  <<C("call", 0, 1), Under(a, C("start", 1, 1)), Under(b, C("step", 1, 2)),
    C("start", 1, 3), Named(b, C("start", 1, 4)), C("step", 5, 1),
    Named(a, C("send", 5, 2))>>

(* What runs outside of a workflow: temporary workflows, direct runs,
   refusals, under a scope and not.                                        *)
Outside ==
  <<C("send", 0, 1), Under(a, C("step", 0, 2)), C("runStep", 2, 1), C("writeStream", 2, 2),
    Under(b, C("runStep", 0, 3)), C("runStep", 0, 4), C("recv", 0, 5), C("manage", 6, 1)>>

(* A workflow before its patch and with it; another with its patch and with
   the patch deprecated, once no execution from before it is left.         *)
Unpatched ==
  <<C("start", 0, 1), C("step", 1, 1), C("absent", 1, 2), C("absent", 1, 3),
    C("step", 1, 4), C("sleep", 1, 5)>>
Patched ==
  <<C("start", 0, 1), C("step", 1, 1), C("patch", 1, 2), If(3, TRUE, C("step", 1, 3)),
    If(3, FALSE, C("step", 1, 4)), C("sleep", 1, 5)>>
Retired == [Patched EXCEPT ![5] = C("absent", 1, 4)]
Deprecated == [Retired EXCEPT ![3] = C("deprecatePatch", 1, 2), ![4] = C("step", 1, 3)]

MCPrograms == {Concurrent, Waits, Children, Scopes, Outside, Unpatched, Patched, Retired, Deprecated}

(* What the theorem about such programs assumes holds of each of these. *)
ASSUME PlainAssumption == \A p \in MCPrograms : IsPlain(p)

MCVersions ==
  [p \in MCPrograms |->
     CASE p = Unpatched -> {Unpatched, Patched}
       [] p = Retired -> {Retired, Deprecated}
       [] OTHER -> {p}]
=============================================================================
