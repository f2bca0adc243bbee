----------------------------- MODULE Directory ------------------------------
(***************************************************************************)
(* What a path walk promises, without a dentry cache: one tree of names    *)
(* that only grows, an entry at a time, until it is destroyed as a whole,  *)
(* and lookups that happen at one moment.  A user at a path sees what the  *)
(* tree has there, also when the entry is created while it is there.       *)
(***************************************************************************)
EXTENDS Naturals

CONSTANTS
    Users,    \* processes that walk
    Names,    \* names of entries
    NoName,   \* name of the root
    Nowhere   \* "this user is not walking"

\* The root, or the names of a directory (or of the root) and of an entry.
RootPath == <<NoName, NoName>>
Paths    == {RootPath} \cup ((Names \cup {NoName}) \X Names)
Above(p) == IF p[1] = NoName THEN RootPath ELSE <<NoName, p[1]>>

VARIABLES
    tree,  \* the kind of entry at each path, "none" if there is none
    at,    \* the path each user has walked to
    sees   \* what it finds there

vars == <<tree, at, sees>>

Init ==
    /\ tree = [p \in Paths |-> IF p = RootPath THEN "dir" ELSE "none"]
    /\ at = [u \in Users |-> Nowhere]
    /\ sees = [u \in Users |-> "none"]

\* A new entry, at once visible to every user who is there.
Create(p, kind) ==
    /\ p # RootPath
    /\ tree[p] = "none"
    /\ tree[Above(p)] = "dir"
    /\ tree' = [tree EXCEPT ![p] = kind]
    /\ sees' = [u \in Users |-> IF at[u] = p THEN kind ELSE sees[u]]
    /\ UNCHANGED at

\* A walk begins at the root or goes on to an entry, or missing entry, of the
\* directory it is in.
Walk(u, p) ==
    /\ IF p = RootPath THEN at[u] = Nowhere
                       ELSE at[u] = Above(p) /\ sees[u] = "dir"
    /\ at' = [at EXCEPT ![u] = p]
    /\ sees' = [sees EXCEPT ![u] = tree[p]]
    /\ UNCHANGED tree

Leave(u) ==
    /\ at[u] # Nowhere
    /\ at' = [at EXCEPT ![u] = Nowhere]
    /\ sees' = [sees EXCEPT ![u] = "none"]
    /\ UNCHANGED tree

\* The file system is unmounted; nobody is in it.
Destroy ==
    /\ \A u \in Users : at[u] = Nowhere
    /\ tree' = [p \in Paths |-> "none"]
    /\ UNCHANGED <<at, sees>>

Next ==
    \/ \E p \in Paths, kind \in {"dir", "reg"} : Create(p, kind)
    \/ \E u \in Users : Leave(u) \/ \E p \in Paths : Walk(u, p)
    \/ Destroy

Spec == Init /\ [][Next]_vars
=============================================================================
