----------------------------- MODULE MCConnPool -----------------------------
(* Instances of ConnPool for TLC. *)
EXTENDS ConnPool, TLC

CONSTANTS s1, s2, s3, c1, c2, c3, c4

Symmetry == Permutations(Senders) \cup Permutations(Conns)

=============================================================================
