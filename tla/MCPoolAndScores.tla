-------------------------- MODULE MCPoolAndScores --------------------------
(* The connections that every read and write of the API takes, and the views *)
(* of the scores that they serve, for TLC.  They share nothing, so that a    *)
(* behaviour is of one of them.                                              *)
EXTENDS MCConnPool, MCScoring

VARIABLE part
mcVars == <<part, vars, scoringVars>>

MCInit ==
  /\ Init /\ ScoringInit
  /\ \/ part = "pool" /\ scores = << >>
     \/ part = "scores"

MCNext ==
  \/ part = "pool" /\ Next /\ UNCHANGED <<part, scoringVars>>
  \/ part = "scores" /\ ScoringNext /\ UNCHANGED <<part, vars>>
  \/ changes = MaxChanges /\ UNCHANGED mcVars  \* the bound, not a deadlock

MCSpec == MCInit /\ [][MCNext]_mcVars /\ Fairness

TypesHold == TypeOK /\ ScoringTypeOK
=============================================================================
