---------------------------- MODULE MCObjectStore ----------------------------
(***************************************************************************)
(* Small object stores for TLC.                                            *)
(***************************************************************************)
EXTENDS ObjectStore

CONSTANTS a, b, c

PackOrder == [o \in Objects |-> CASE o = a -> 0 [] o = b -> 1 [] OTHER -> 2]

Store(loose, packs, index) ==
    [files |-> {Loose(o) : o \in loose} \cup {Pack(P) : P \in packs} \cup {Idx(P) : P \in packs},
     midx |-> index]

\* Two packs with a multi-pack-index; a pack and a loose object; a pack that a
\* geometric repack keeps beside a loose object.
MixedStores ==
    {Store({}, {{a}, {b}}, {{a}, {b}}), Store({b}, {{a}}, None), Store({c}, {{a, b}}, None)}
TwoPackStore == {Store({}, {{b}, {c}}, {{b}, {c}})}
=============================================================================
