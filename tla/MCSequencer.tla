---------------------------- MODULE MCSequencer ----------------------------
(***************************************************************************)
(* A branch of three commits and an upstream of one, for TLC.  The second   *)
(* commit of the branch conflicts with the upstream in path p and changes   *)
(* q, which the third changes again; the first conflicts in t alone, which  *)
(* is not merged line by line.                                              *)
(***************************************************************************)
EXTENDS Sequencer, TLC

CONSTANTS p, q, r, s, t, a, b, d, g, u, w, f, e

MCPathOf == a :> p @@ u :> p @@ b :> q @@ d :> q @@ g :> t @@ w :> t @@ f :> r @@ e :> s
MCPaths == {p, q, r, s, t}
MCMine == <<{g}, {a, b}, {d}>>
MCTheirs == <<{u, w}>>

StartPoints == {"name", "origfile", "ontofile", "todofile", "base", "reset", "move"}
StepPoints == {"materialise", "checkout", "unmerge", "orig", "stop", "finish", "seal", "record",
               "advance", "replay", "restore", "clear", "clearname", "clearorig", "clearonto",
               "cleartodo"}
EveryPoint == StartPoints \cup StepPoints
=============================================================================
