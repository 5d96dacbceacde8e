------------------------------- MODULE Clock -------------------------------
(***************************************************************************)
(* The time the API's process reads.  The modules that compare moments     *)
(* extend this one and say themselves when time may pass.                  *)
(***************************************************************************)
EXTENDS Integers

CONSTANT Horizon  \* bound: the last moment of a behaviour
ASSUME HorizonAssumption == Horizon \in Nat

VARIABLE now

Tick == now < Horizon /\ now' = now + 1
=============================================================================
