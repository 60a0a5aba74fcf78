----------------------------- MODULE RefContract -----------------------------
(***************************************************************************)
(* What RefStore::transact promises a participant that honours the ref      *)
(* locks: a batch is accepted only at an instant at which every ref has the *)
(* value its op expects, from then on its refs are the batch's own until    *)
(* each has taken its new value once, and a batch that is refused has       *)
(* changed nothing.                                                         *)
(***************************************************************************)
EXTENDS FiniteSets

CONSTANTS Refs, Oids, None, Procs, Plans

VARIABLES
    refs,       \* the value of every ref
    phase,      \* "idle", "open" (submitted) or "accepted", per process
    batch,      \* the ops of its transaction
    rest        \* the ops it has accepted and not yet applied

Values == Oids \cup {None}
NoPlan == [n \in {} |-> None]

Init ==
    /\ refs \in [Refs -> Values]
    /\ phase = [p \in Procs |-> "idle"]
    /\ batch = [p \in Procs |-> NoPlan]
    /\ rest = [p \in Procs |-> {}]

Open(p) == \E plan \in Plans :
    /\ phase[p] = "idle"
    /\ phase' = [phase EXCEPT ![p] = "open"]
    /\ batch' = [batch EXCEPT ![p] = plan]
    /\ UNCHANGED <<refs, rest>>

\* No other accepted batch still owns a ref of this one.
Accept(p) ==
    /\ phase[p] = "open"
    /\ \A n \in DOMAIN batch[p] : refs[n] = batch[p][n].expected
    /\ \A q \in Procs \ {p} : rest[q] \cap DOMAIN batch[p] = {}
    /\ phase' = [phase EXCEPT ![p] = "accepted"]
    /\ rest' = [rest EXCEPT ![p] = DOMAIN batch[p]]
    /\ UNCHANGED <<refs, batch>>

Apply(p) == \E n \in rest[p] :
    /\ refs[n] = batch[p][n].expected
    /\ refs' = [refs EXCEPT ![n] = batch[p][n].new]
    /\ rest' = [rest EXCEPT ![p] = @ \ {n}]
    /\ UNCHANGED <<phase, batch>>

Leave(p) ==
    /\ phase' = [phase EXCEPT ![p] = "idle"]
    /\ batch' = [batch EXCEPT ![p] = NoPlan]
    /\ rest' = [rest EXCEPT ![p] = {}]

Refuse(p) == phase[p] = "open" /\ Leave(p) /\ UNCHANGED refs

Complete(p) == phase[p] = "accepted" /\ rest[p] = {} /\ Leave(p) /\ UNCHANGED refs

\* The locks of a process that died are removed: the ops it had not applied
\* are dropped, and a ref it was deleting may be left with any value.
Abandon(p) ==
    /\ phase[p] # "idle" /\ Leave(p)
    /\ \/ UNCHANGED refs
       \/ \E n \in rest[p], v \in Values :
            batch[p][n].new = None /\ refs' = [refs EXCEPT ![n] = v]

\* Stock git moves a ref no accepted batch owns.
Foreign == \E n \in Refs, v \in Values :
    /\ \A p \in Procs : n \notin rest[p]
    /\ refs' = [refs EXCEPT ![n] = v]
    /\ UNCHANGED <<phase, batch, rest>>

Next ==
    \/ \E p \in Procs : Open(p) \/ Accept(p) \/ Apply(p) \/ Refuse(p) \/ Complete(p) \/ Abandon(p)
    \/ Foreign

Spec == Init /\ [][Next]_<<refs, phase, batch, rest>>
=============================================================================
