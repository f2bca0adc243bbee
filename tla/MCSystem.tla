------------------------------ MODULE MCSystem ------------------------------
(* Constants of AufsSystem for model checking. *)
EXTENDS AufsSystem

\* One directory with one file in it.
TinyScript == <<[name |-> "woman_star", kind |-> "dir"], [name |-> "lbb", kind |-> "reg"]>>
=============================================================================
