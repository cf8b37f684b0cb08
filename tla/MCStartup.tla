----------------------------- MODULE MCStartup -----------------------------
(***************************************************************************)
(* An instance of Startup: three calls of init, three processes that open. *)
(* Which of them is which makes no difference to the code.                 *)
(***************************************************************************)
EXTENDS Startup, TLC

Alike == Permutations(Procs) \cup Permutations(Openers)
=============================================================================
