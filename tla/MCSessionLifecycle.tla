------------------------- MODULE MCSessionLifecycle -------------------------
(***************************************************************************)
(* SessionLifecycle for TLC: the threads that execute commands are alike.  *)
(***************************************************************************)
EXTENDS SessionLifecycle, TLC

AnyThread == Permutations(Commands)
=============================================================================
