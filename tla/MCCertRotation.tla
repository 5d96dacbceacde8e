---------------------------- MODULE MCCertRotation ----------------------------
(* Instances of CertRotation for TLC. *)
EXTENDS CertRotation

CONSTANTS mine, foreign, i1, i2

(* A certificate, and one with another key and another issuer.             *)
Uploads == {mine, foreign}
Pairs == (mine :> 1) @@ (foreign :> 2)
Symmetric == Permutations({i1, i2})

(* Who does not wait for the outcome uploads within the hour, and every     *)
(* event is delivered once.                                                *)
Hurried == patient \/ (clock = 0 /\ \A e \in events : e.copy = 1)
=============================================================================
