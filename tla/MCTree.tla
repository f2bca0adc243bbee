------------------------------- MODULE MCTree -------------------------------
(* Constants of AufsTree for model checking. *)
EXTENDS AufsTree, TLC

dir(n) == [name |-> n, kind |-> "dir"]
reg(n) == [name |-> n, kind |-> "reg"]

\* The calls of aufs_init, aufs.c:42-50.
AufsScript == <<dir("woman_star"), reg("lbb"), reg("fbb"), reg("lj1"),
                dir("man_star"), reg("ldh"), reg("lcw"), reg("jw")>>

\* Two directories and a file: the shortest script in which a file can go to
\* the directory of another call, and whose directory can fail.
ShortScript == <<dir("woman_star"), dir("man_star"), reg("ldh")>>

\* One directory with one file, where two users race with aufs_init.
TinyScript == <<dir("woman_star"), reg("lbb")>>

MCSymmetry == Permutations(Users)
=============================================================================
