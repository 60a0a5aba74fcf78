------------------------------ MODULE MCSetUrl ------------------------------
(* Finite instance: two worktrees of a superproject; the submodule is mounted *)
(* in the first only.                                                         *)
EXTENDS SetUrlContract, TLC

CONSTANTS w1, w2, old, new

MCParticipants == (w1 :> Parts) @@ (w2 :> {"declaration", "superproject"})
\* Everything in step, or .gitmodules of the first worktree already edited by
\* hand: what `submodule sync` is for.
MCInitialUrls ==
  {[f \in Files |-> old],
   [f \in Files |-> IF f = <<"declaration", w1>> THEN new ELSE old]}
=============================================================================
