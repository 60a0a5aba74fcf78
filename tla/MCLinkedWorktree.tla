-------------------------- MODULE MCLinkedWorktree --------------------------
(***************************************************************************)
(* Two destinations and three branches for TLC: a prepared create that is   *)
(* repeated, and a rival that creates, removes and moves at both.           *)
(***************************************************************************)
EXTENDS LinkedWorktree, TLC

CONSTANTS d1, d2, m, b, c, client, rival

Ask1(op, mode, dest, to, branch, start, recover, force) ==
  [op |-> op, mode |-> mode, dest |-> dest, to |-> to, branch |-> branch, start |-> start,
   recover |-> recover, force |-> force]

MCTips == m :> 1 @@ b :> 2 @@ c :> 0
MCIntent == Ask1("create", "existing", d1, d1, b, 2, TRUE, FALSE)
MCRequests ==
  {Ask1("create", "new", d1, d1, c, 1, FALSE, FALSE),
   Ask1("create", "existing", d2, d2, b, 0, FALSE, FALSE),
   Ask1("create", "reset", d2, d2, c, 2, FALSE, FALSE),
   Ask1("remove", "none", d1, d1, None, 0, FALSE, FALSE),
   Ask1("remove", "none", d2, d2, b, 0, FALSE, FALSE),
   Ask1("move", "none", d1, d2, None, 0, FALSE, TRUE)}
=============================================================================
