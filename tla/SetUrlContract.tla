--------------------------- MODULE SetUrlContract ---------------------------
(***************************************************************************)
(* The set-url protocol implements the roll-forward contract: a participant  *)
(* is still to be published until its after-image has become the file.       *)
(***************************************************************************)
EXTENDS SetUrl

StageOf(w) ==
  IF journal[w] = None THEN "none"
  ELSE IF journal[w].phase < Ready THEN "open" ELSE "decided"

\* The file has the after-image, or stock Git has edited the file since.
IsPublished(w, c) ==
  LET j == journal[w]
      f == File(w, c)
  IN \/ target[f].id = j.tx
     \/ /\ target[f].id \in git
        /\ \A i \in private[f] \cup {lock[f]} : i = None \/ i.id # j.tx

LeftOf(w) ==
  IF journal[w] = None THEN {}
  ELSE {c \in journal[w].changed : journal[w].phase < Ready \/ ~IsPublished(w, c)}

Contract == INSTANCE RollForward WITH
  Owners <- Worktrees, Targets <- Parts,
  stage <- [w \in Worktrees |-> StageOf(w)],
  left <- [w \in Worktrees |-> LeftOf(w)]

\* Every behaviour of set-url, with its crashes, cancellations and retries and
\* whatever other writers do, is a behaviour of the contract: one transaction
\* at a time, abandoned only before anything is published, ended only when
\* everything is.
ImplementsRollForward == Contract!ContractSpec
=============================================================================
