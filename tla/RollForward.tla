---------------------------- MODULE RollForward ----------------------------
(***************************************************************************)
(* What a journalled configuration transaction promises                     *)
(* (src/docs/hlds/submodule-operations.md, "The three possible config edits *)
(* form one durable, roll-forward transaction"): at most one is open in a   *)
(* superproject, it is abandoned only while nothing is published, and once  *)
(* it is decided every participant is published, each once, before it ends. *)
(* Crashes and retries are stuttering.                                      *)
(***************************************************************************)
CONSTANTS Owners, Targets

VARIABLES
  stage,  \* [Owners -> "none", "open" or "decided"]
  left    \* [Owners -> targets still to publish]

contractVars == <<stage, left>>

ContractInit ==
  /\ stage = [w \in Owners |-> "none"]
  /\ left = [w \in Owners |-> {}]

Open(w, cs) ==
  /\ \A v \in Owners : stage[v] = "none"
  /\ cs # {}
  /\ stage' = [stage EXCEPT ![w] = "open"]
  /\ left' = [left EXCEPT ![w] = cs]

Abandon(w) ==
  /\ stage[w] = "open"
  /\ stage' = [stage EXCEPT ![w] = "none"]
  /\ left' = [left EXCEPT ![w] = {}]

Decide(w) ==
  /\ stage[w] = "open"
  /\ stage' = [stage EXCEPT ![w] = "decided"]
  /\ UNCHANGED left

Publish(w, c) ==
  /\ stage[w] = "decided"
  /\ c \in left[w]
  /\ left' = [left EXCEPT ![w] = @ \ {c}]
  /\ UNCHANGED stage

Finish(w) ==
  /\ stage[w] = "decided"
  /\ left[w] = {}
  /\ stage' = [stage EXCEPT ![w] = "none"]
  /\ UNCHANGED left

ContractNext == \E w \in Owners :
  \/ Abandon(w) \/ Decide(w) \/ Finish(w)
  \/ \E cs \in SUBSET Targets : Open(w, cs)
  \/ \E c \in Targets : Publish(w, c)

ContractSpec == ContractInit /\ [][ContractNext]_contractVars
=============================================================================
