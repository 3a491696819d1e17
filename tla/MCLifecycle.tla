---------------------------- MODULE MCLifecycle ------------------------------
(***************************************************************************)
(* A small instance of Lifecycle for TLC.                                  *)
(***************************************************************************)
EXTENDS Lifecycle

(* Two minors of major 0, major 1, and a major that is no int. *)
SomeVersions == {<<0, 0>>, <<0, 1>>, <<1, 0>>, <<2, 0>>}
=============================================================================
