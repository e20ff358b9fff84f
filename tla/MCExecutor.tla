----------------------------- MODULE MCExecutor ------------------------------
(* Small instances of Executor: a retried step and a plain one. *)
EXTENDS Executor, TLC

CONSTANTS p1, p2

MCRetried == {0}

MCGuarded == {}

MCGuardedFirst == {0}

=============================================================================
