----------------------------- MODULE MCInvokeRun -----------------------------
(* Small instances of InvokeRun: step, sleep, step; the last step guarded. *)
EXTENDS InvokeRun, TLC

CONSTANTS v1, v2

MCSleeps == {1}

MCGuarded == {2}
=============================================================================
