------------------------------- MODULE MCFile -------------------------------
(* Constants of AufsFile for model checking. *)
EXTENDS AufsFile

\* strlen of the two literals of aufs_file_read; each ends in a backslash
\* and the letter n, not in a newline.
AufsMsgLen == [v \in {0, 1} |-> IF v = 1 THEN 19 ELSE 20]

\* The first writer has inherited the reader's open file, as a child process
\* does; the second has opened the file itself.
CONSTANTS r1, w1, w2
OneShares == [w \in {w1, w2} |-> IF w = w1 THEN r1 ELSE Own]
=============================================================================
