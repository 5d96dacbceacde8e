----------------------------- MODULE MCAnswers ------------------------------
(* The two ways in which an answer comes into a data call, for TLC: a user  *)
(* writes it (ScoreReview), or the data call's creation carries it forward  *)
(* (Rollover).  Each sees the other's writes as single steps of its own     *)
(* environment, so that a behaviour is of one of them.                      *)
EXTENDS MCScoreReview, MCRollover

VARIABLE door
mcVars == <<door, vars, rolloverVars>>

MCInit ==
  /\ Init /\ RolloverInit
  /\ door \in {"questionnaire", "rollover"}

MCNext ==
  \/ door = "questionnaire" /\ Next /\ UNCHANGED <<door, rolloverVars>>
  \/ door = "rollover" /\ RolloverNext /\ UNCHANGED <<door, vars>>

MCSpec == MCInit /\ [][MCNext]_mcVars

TypesHold == TypeOK /\ RolloverTypeOK
=============================================================================
