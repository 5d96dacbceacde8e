----------------------------- MODULE MCScoring -----------------------------
(* Instances of Scoring for TLC. *)
EXTENDS Scoring, TLC

CONSTANTS s1, s2, cms, hhs, cloud, hosted, retired, saas, dc, p1, p2,
          f1, f2, f3, f4, f5, a0, a4, v1, b3, d2, g2, x3, q1, q2,
          none, note, spaced, isso, opdiv, admin

MCOpDivOf == (s1 :> cms) @@ (s2 :> hhs)
MCKeyOf == (cloud :> saas) @@ (hosted :> dc) @@ (retired :> Null)

(* Two pillars in either edition, the first with two functions in the cloud;
   the question of f5 is gone. *)
MCEditionOf == (f1 :> saas) @@ (f2 :> saas) @@ (f3 :> saas) @@ (f4 :> dc) @@ (f5 :> saas)
MCPillarOf == (f1 :> p1) @@ (f2 :> p2) @@ (f3 :> p1) @@ (f4 :> p2) @@ (f5 :> Null)
MCFunctionOf ==
  (a0 :> f1) @@ (a4 :> f1) @@ (v1 :> f2) @@ (b3 :> f2) @@ (d2 :> f3) @@ (g2 :> f4) @@ (x3 :> f5)
MCScoreOf ==
  (a0 :> 0) @@ (a4 :> 4) @@ (v1 :> 1) @@ (b3 :> 3) @@ (d2 :> 2) @@ (g2 :> 2) @@ (x3 :> 3)
MCPlainOf == (none :> none) @@ (note :> note) @@ (spaced :> note)

(* Systems in the cloud lose the second pillar from the second data call on. *)
MCRules == {[key |-> saas, pillar |-> p2, anchor |-> q2]}
MCGranted == (opdiv :> {cms}) @@ (admin :> {}) @@ (isso :> {})

Stored(s, c, option, n, status) ==
  [system |-> s, cycle |-> c, option |-> option, notes |-> n, status |-> status]

(* A data call answered in full, then rolled over with one answer reviewed;
   and one in which a system answered twice and before it moved. *)
Carried ==
  <<Stored(s1, q1, a4, note, "done"), Stored(s1, q1, v1, none, "done"),
    Stored(s1, q2, a4, spaced, "not_started"), Stored(s1, q2, b3, none, "done")>>
Moved ==
  <<Stored(s1, q1, a0, none, "done"), Stored(s1, q1, a4, none, "done"),
    Stored(s1, q2, g2, note, "not_started"), Stored(s2, q2, x3, none, "done")>>
Tables(rows, e) ==
  [env |-> (s1 :> cloud) @@ (s2 :> e), deadline |-> (q1 :> 1) @@ (q2 :> 2),
   scores |-> rows, assigned |-> {<<isso, s1>>}]
(* Or nothing is asked, of nobody. *)
Unused ==
  [env |-> (s1 :> retired) @@ (s2 :> retired), deadline |-> (q1 :> 1) @@ (q2 :> 2),
   scores |-> << >>, assigned |-> {}]
MCSeeds == {Tables(Carried, hosted), Tables(Moved, cloud), Unused}

Form(s, c, option, n) == [system |-> s, cycle |-> c, option |-> option, notes |-> n]
MCForms ==
  {Form(s1, q1, d2, none), Form(s1, q2, a0, note), Form(s1, q2, g2, none),
   Form(s2, q1, g2, none), Form(s2, q2, v1, spaced)}
MCEdits ==
  {[option |-> a0, notes |-> note], [option |-> b3, notes |-> spaced],
   [option |-> d2, notes |-> none]}

(* The second data call is moved to the deadline of the first, or before it. *)
MCMoves == {[cycle |-> q1, deadline |-> 2], [cycle |-> q2, deadline |-> 0]}
=============================================================================
