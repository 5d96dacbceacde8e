--------------------------- MODULE MCScoreReview ----------------------------
(* The instance of ScoreReview for TLC. *)
EXTENDS ScoreReview, FiniteSets, TLC

CONSTANTS r1, r2, r3, isso, issm, opdivAdmin, auditor, owner,
          s1, s2, c1, c2, i1, i2, t1, t2, tooLong

Untouched(s, c) ==
  [system |-> s, cycle |-> c, text |-> t1, ai |-> "yes", status |-> "not_started"]

Empty == [Untouched(s1, c1) EXCEPT !.status = "absent"]

(* One carried-forward row and room for another. *)
SomeSeed == (i1 :> Untouched(s1, c1)) @@ (i2 :> Empty)
SomeGrants == (isso :> {s1}) @@ (issm :> {s1}) @@ (opdivAdmin :> {s1}) @@ (auditor :> {s1}) @@ (owner :> {})
SomeMovable == {<<isso, s1>>}

Asked(u, op, i, t, ai, s, c) ==
  [user |-> u, op |-> op, id |-> i, text |-> t, ai |-> ai, system |-> s, cycle |-> c]

(* Saves and confirms of the carried-forward row by its two members. *)
RaceInputs ==
  {Asked(isso, x[1], i1, x[2], x[3], s1, c1) :
      x \in {<<"confirm", t1, "unset">>, <<"save", t1, "unset">>, <<"save", t1, "no">>,
             <<"save", t2, "unset">>}}
  \cup {Asked(issm, x[1], i1, x[2], "unset", s1, c1) : x \in {<<"confirm", t1>>, <<"save", t2>>}}

(* Every kind of request, by every tier; a body may name another system and
   another cycle than the row it is about. *)
DutyInputs ==
  {Asked(isso, x[1], x[2], x[3], "unset", x[4], x[5]) : x \in {
     <<"save", i1, t2, s1, c1>>, <<"save", i1, t2, s2, c2>>, <<"save", i1, tooLong, s1, c1>>,
     <<"confirm", i1, t2, s1, c1>>, <<"confirm", i2, t2, s1, c1>>,
     <<"create", i2, t2, s1, c1>>, <<"create", i2, t2, s1, c2>>, <<"create", i2, t2, s2, c2>>}}
  \cup {Asked(opdivAdmin, x[1], x[2], t2, "unset", x[3], c1) : x \in {
     <<"save", i1, s2>>, <<"confirm", i1, s1>>, <<"create", i2, s1>>, <<"create", i2, s2>>}}
  \cup {Asked(auditor, "save", i1, t2, "unset", s1, c1), Asked(owner, "save", i1, t2, "unset", s2, c2),
        Asked(owner, "create", i2, t2, "unset", s2, c1)}

SomeInputs == RaceInputs \cup DutyInputs

(* Bound: three requests meet only on the carried-forward row, in a world that
   stands still; two meet under deadlines and grants that move. *)
Bounded ==
  LET begun == {r \in Requests : pc[r] # "idle"} IN
  \/ /\ closed = {} /\ grant = Grants
     /\ \A r \in begun : body[r] \in RaceInputs
  \/ /\ Cardinality(begun) < 3
     /\ \A r \in begun : body[r] \in DutyInputs

Symmetry == Permutations(Requests)
=============================================================================
