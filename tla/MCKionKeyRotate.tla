-------------------------- MODULE MCKionKeyRotate ---------------------------
(* Instances of KionKeyRotate for TLC. *)
EXTENDS KionKeyRotate

CONSTANTS daily, manual
=============================================================================
