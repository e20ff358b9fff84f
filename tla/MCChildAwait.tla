---------------------------- MODULE MCChildAwait ----------------------------
(* Small instances of ChildAwait. *)
EXTENDS ChildAwait, TLC

CONSTANTS c1, c2

MCAwaitBoth == {c1, c2}
=============================================================================
