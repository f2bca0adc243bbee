----------------------------- MODULE SuperBlock -----------------------------
(***************************************************************************)
(* What mounting promises, without counters: the super block of a load of  *)
(* the module is one object shared by all who hold it.  It comes into      *)
(* being, empty, with its first holder and goes with its last; the keeper, *)
(* aufs_init's own mount, fills it with the tree, and nobody can empty it  *)
(* while it is held.                                                       *)
(***************************************************************************)
CONSTANTS
    Gens,     \* the loads of the module, each with a super block of its own
    Holders,  \* what can hold a super block: mounts
    Keeper    \* the holder that fills it

VARIABLES
    held,   \* who holds the super block of each load
    alive,  \* the super blocks that exist
    full    \* those of them that have got their directories and files

vars == <<held, alive, full>>

Init ==
    /\ held = [g \in Gens |-> {}]
    /\ alive = {}
    /\ full = {}

\* A mount: the super block is made if there is none.
Acquire(g, h) ==
    /\ h \notin held[g]
    /\ held' = [held EXCEPT ![g] = @ \cup {h}]
    /\ alive' = alive \cup {g}
    /\ UNCHANGED full

\* aufs_init has created the tree.
Fill(g) ==
    /\ Keeper \in held[g]
    /\ full' = full \cup {g}
    /\ UNCHANGED <<held, alive>>

\* An unmount: the last one destroys the super block and its tree.
Release(g, h) ==
    /\ h \in held[g]
    /\ held' = [held EXCEPT ![g] = @ \ {h}]
    /\ alive' = IF held[g] = {h} THEN alive \ {g} ELSE alive
    /\ full' = IF held[g] = {h} THEN full \ {g} ELSE full

Next ==
    \E g \in Gens :
        \/ Fill(g)
        \/ \E h \in Holders : Acquire(g, h) \/ Release(g, h)

Spec == Init /\ [][Next]_vars
=============================================================================
