----------------------------- MODULE MCLambdas ------------------------------
(* The two Lambdas, for TLC.  They share nothing, so that a behaviour is of  *)
(* one of them.                                                              *)
EXTENDS MCCertRotation, MCKionKeyRotate

VARIABLE lambda
mcVars == <<lambda, vars, kionVars>>

MCInit ==
  /\ Init /\ KionInit
  /\ \/ lambda = "cert" /\ current.at = 0
     \/ lambda = "kion" /\ patient

MCNext ==
  \/ lambda = "cert" /\ Next /\ UNCHANGED <<lambda, kionVars>>
  \/ lambda = "kion" /\ KionNext /\ UNCHANGED <<lambda, vars>>

MCSpec == MCInit /\ [][MCNext]_mcVars

TypesHold == TypeOK /\ KionTypeOK
=============================================================================
