---------------------------- MODULE MCConnPool -----------------------------
(* Instances of ConnPool for TLC. *)
EXTENDS ConnPool

CONSTANTS w1, w2, r1, k1, k2
=============================================================================
