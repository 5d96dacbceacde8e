---------------------------- MODULE MCRollover -----------------------------
(* Instances of Rollover for TLC. *)
EXTENDS Rollover, TLC

CONSTANTS p1, p2, cms1, hhs1, yes, no, maybe, gone,
          fy25q3, fy25ztm, fy26q1, fy26q2, fy25q1

(* Options yes and no answer one question, maybe another; gone resolves to
   nothing. *)
MCFunctionOf == (yes :> 1) @@ (no :> 1) @@ (maybe :> 2) @@ (gone :> 3)

At(name, deadline) == [name |-> name, deadline |-> deadline]
Stored(i, d, system, option) ==
  [id |-> i, call |-> d, system |-> system, option |-> option,
   status |-> "done", origin |-> 0]

(* The two 2025 lineages.  The CMS system answered in both, and twice in its
   own; one answer of each lineage no longer resolves. *)
TwoLineages == <<At(fy25ztm, 3), At(fy25q3, 4)>>
LineageScores ==
  {Stored(1, 1, hhs1, yes), Stored(2, 1, cms1, maybe), Stored(3, 2, cms1, yes),
   Stored(4, 2, cms1, no)}
UnresolvedScores ==
  LineageScores \cup {Stored(5, 1, hhs1, gone), Stored(6, 2, cms1, gone)}

(* One earlier cycle: the override stays out of the way. *)
OneLineage == <<At(fy25q3, 4)>>
OneScore == {Stored(1, 1, cms1, yes)}
OneUnresolved == OneScore \cup {Stored(2, 1, cms1, gone)}

(* A new cycle, a second one of the same year, and one for the past. *)
NewCycles == {At(fy26q1, 6), At(fy26q2, 7), At(fy25q1, 2), At(fy26q2, 2)}
TwoQuarters == {At(fy26q1, 6), At(fy26q2, 7)}
OneQuarter == {At(fy26q1, 6)}

(* A data call created for the past by mistake is corrected. *)
Correction == {[id |-> 3, name |-> fy26q1, deadline |-> 6]}
LateAnswers ==
  {[call |-> d, system |-> cms1, option |-> yes] : d \in 1..3}
=============================================================================
