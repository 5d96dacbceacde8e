------------------------------ MODULE Scoring ------------------------------
(***************************************************************************)
(* What is read off the answers: the questionnaire and its progress, the   *)
(* export of a data call, the maturity scores and tiers, and the diff of   *)
(* two data calls.  Each is one query of its own over the same tables, and *)
(* the four are meant to agree while answers, environments, deadlines and  *)
(* systems change under them.                                              *)
(*                                                                         *)
(* A view is an operator over the tables; an action is a write.  Scores    *)
(* are exact fractions <<numerator, denominator>>.  An absent note and an  *)
(* empty one are one value, as every reader treats them.                   *)
(***************************************************************************)
EXTENDS Naturals, Sequences, FiniteSets

CONSTANTS
  Systems, OpDivOf,       \* FISMA systems and the OpDiv of each
  Environments, KeyOf,    \* data center environments and their scoring keys
  Functions, EditionOf,   \* questionnaire functions, the scoring key of each,
  PillarOf,               \* and its pillar (Null: its question is gone)
  Options, FunctionOf,    \* function options, the function of each,
  ScoreOf,                \* and its maturity score, 0 to 4
  Notes, PlainOf,         \* notes, and each with its white space normalised
  Rules,                  \* reducedpillarscopes: [key, pillar, anchor]
  Cycles,                 \* the data calls
  Users, Unscoped,        \* users, those who read every OpDiv,
  OpDivTier, Granted,     \* the OpDiv tiers and their grants; the others
                          \* read the systems assigned to them
  Null,
  Seeds,        \* the tables a behaviour may start with
  Forms,        \* bound: the [system, cycle, option, notes] of POST /scores
  Edits,        \* bound: the [option, notes] of PUT /scores/{id}
  Moves,        \* bound: the [cycle, deadline] of PUT /datacalls/{id}
  MaxChanges    \* bound: the writes of a behaviour

Statuses == {"not_started", "done"}
Row == [system : Systems, cycle : Cycles, option : Options, notes : Notes,
        status : Statuses]

ASSUME CatalogAssumption ==
  /\ KeyOf \in [Environments -> {EditionOf[f] : f \in Functions} \cup {Null}]
  /\ Null \notin {EditionOf[f] : f \in Functions}
  /\ FunctionOf \in [Options -> Functions]
  /\ ScoreOf \in [Options -> 0..4]
  /\ \A r \in Rules : r.key # Null /\ r.pillar # Null /\ r.anchor \in Cycles
  /\ IsFiniteSet(Functions)

(* Rows have the columns' types from the start, and bodies those of a row. *)
ASSUME TablesAssumption ==
  /\ \A seed \in Seeds :
       /\ seed.env \in [Systems -> Environments] /\ seed.deadline \in [Cycles -> Nat]
       /\ seed.scores \in Seq(Row) /\ seed.assigned \subseteq Users \X Systems
  /\ Forms \subseteq [system : Systems, cycle : Cycles, option : Options, notes : Notes]
  /\ Edits \subseteq [option : Options, notes : Notes]
  /\ Moves \subseteq [cycle : Cycles, deadline : Nat]
  /\ MaxChanges \in Nat

VARIABLES
  env,      \* fismasystems.datacenterenvironment
  off,      \* the decommissioned systems
  deadline, \* datacalls.deadline
  scores,   \* the scores table, by scoreid
  assigned, \* users_fismasystems
  changes   \* bound: the writes so far

scoringVars == <<env, off, deadline, scores, assigned, changes>>

(* Every row has the columns' types and a status the CHECK allows. *)
ScoringTypeOK ==
  /\ env \in [Systems -> Environments]
  /\ off \subseteq Systems
  /\ deadline \in [Cycles -> Nat]
  /\ scores \in Seq(Row)
  /\ assigned \subseteq Users \X Systems
  /\ changes \in 0..MaxChanges

ScoringInit ==
  /\ \E seed \in Seeds : /\ env = seed.env /\ deadline = seed.deadline
                         /\ scores = seed.scores /\ assigned = seed.assigned
  /\ off = {}
  /\ changes = 0

-----------------------------------------------------------------------------
(* The questionnaire, and progress through it. *)

(* A system's answers in a data call, and those to one function. *)
RowsOf(s, c) == {i \in DOMAIN scores : scores[i].system = s /\ scores[i].cycle = c}
AnswersTo(s, c, f) == {i \in RowsOf(s, c) : FunctionOf[scores[i].option] = f}

Key(s) == KeyOf[env[s]]

(* reducedPillarScopeSQL: no rule removes the pillar on data call c. *)
InScope(key, pillar, c) ==
  ~ \E r \in Rules : /\ r.key = key /\ r.pillar = pillar
                     /\ deadline[c] >= deadline[r.anchor]

(* The inner joins of functions, questions and pillars on the system's key. *)
Applicable(s) == {f \in Functions : EditionOf[f] = Key(s) /\ PillarOf[f] # Null}

(* The questions put to a system: questionsexpected. *)
Asked(s, c) == {f \in Applicable(s) : InScope(Key(s), PillarOf[f], c)}

(* Variant: the pillar scope is left out of the numerators. *)
CountsUnscoped(i) == FunctionOf[scores[i].option] \in Applicable(scores[i].system)

(* The row passes the joins of the `updated` CTE. *)
Counts(i) ==
  LET r == scores[i]
      f == FunctionOf[r.option]
  IN f \in Applicable(r.system) /\ InScope(EditionOf[f], PillarOf[f], r.cycle)

Answered(s, c) == {FunctionOf[scores[i].option] : i \in {j \in RowsOf(s, c) : Counts(j)}}
Updated(s, c) ==
  {FunctionOf[scores[i].option] :
     i \in {j \in RowsOf(s, c) : Counts(j) /\ scores[j].status = "done"}}

(* FindScoreProgress: active systems only. *)
Progress(c) ==
  [s \in Systems \ off |->
     [expected |-> Cardinality(Asked(s, c)), answered |-> Cardinality(Answered(s, c)),
      updated |-> Cardinality(Updated(s, c))]]

-----------------------------------------------------------------------------
(* The export. *)

(* The functions of a system's lines: applicable, or answered in this data
   call under whatever environment the system had then (#528). *)
Listed(s, c) ==
  {f \in Functions : /\ PillarOf[f] # Null
                     /\ EditionOf[f] = Key(s) \/ AnswersTo(s, c, f) # {}
                     /\ InScope(Key(s), PillarOf[f], c)}

(* LEFT JOIN scores: 0 where the function has no answer. *)
OrUnanswered(rows) == IF rows = {} THEN {0} ELSE rows

(* FindAnswers: the lines <<function, scoreid>>; a decommissioned system has
   only those with an answer. *)
Export(s, c) ==
  {line \in UNION {{f} \X OrUnanswered(AnswersTo(s, c, f)) : f \in Listed(s, c)} :
     s \notin off \/ line[2] # 0}

-----------------------------------------------------------------------------
(* Scores and tiers. *)

(* scored_pairs: the systems and data calls with an answer. *)
Scored == {<<r.system, r.cycle>> : r \in {scores[i] : i \in DOMAIN scores}}

Pillars(s, c) == {PillarOf[f] : f \in Asked(s, c)}

(* Variant: answers are INNER JOINed, so that unanswered questions drop out
   wherever the pillar has any answer. *)
ItemsAnswered(s, c, p) ==
  LET asked == {f \in Asked(s, c) : PillarOf[f] = p}
      found == UNION {{f} \X AnswersTo(s, c, f) : f \in asked}
  IN IF found = {} THEN asked \X {0} ELSE found

(* expected LEFT JOIN answers: what a pillar's average runs over. *)
Items(s, c, p) ==
  UNION {{f} \X OrUnanswered(AnswersTo(s, c, f)) :
           f \in {g \in Asked(s, c) : PillarOf[g] = p}}

Shifted(item) == IF item[2] = 0 THEN 1 ELSE ScoreOf[scores[item[2]].option] + 1

(* The sum and the product of labelled naturals <<label, n>>, by counting. *)
Total(parts) == Cardinality(UNION {{x} \X (1..x[2]) : x \in parts})
Product(parts) ==
  Cardinality({pick \in [parts -> 1..Total(parts)] : \A x \in parts : pick[x] <= x[2]})

(* AVG(COALESCE(a.score, 0) + 1.0). *)
PillarScore(s, c, p) ==
  LET items == Items(s, c, p)
  IN <<Total({<<item, Shifted(item)>> : item \in items}), Cardinality(items)>>

PillarScores(s, c) == {<<p, PillarScore(s, c, p)>> : p \in Pillars(s, c)}

(* The average of labelled fractions, over a common denominator. *)
Average(parts) ==
  LET common == Product({<<x[1], x[2][2]>> : x \in parts})
  IN <<Total({<<x[1], x[2][1] * (common \div x[2][2])>> : x \in parts}),
       Cardinality(parts) * common>>

(* AVG(pillar_score) OVER the system and data call: pillars weigh the same. *)
SystemScore(s, c) == Average(PillarScores(s, c))

(* Tier, as its place among Not Assessed, Traditional, Initial, Advanced and
   Optimal, of the score rounded to hundredths. *)
Tier(x) ==
  LET hundredths == (200 * x[1] + x[2]) \div (2 * x[2])
  IN Cardinality({bound \in {101, 210, 310, 410} : hundredths >= bound})

(* FindScoresAggregate for the given systems. *)
Aggregate(systems) ==
  {[system |-> pair[1], cycle |-> pair[2], score |-> SystemScore(pair[1], pair[2]),
    pillars |-> PillarScores(pair[1], pair[2])] :
     pair \in {x \in Scored : x[1] \in systems /\ Pillars(x[1], x[2]) # {}}}

-----------------------------------------------------------------------------
(* The diff of data calls a and b. *)

SameFunction(i, j) == FunctionOf[scores[i].option] = FunctionOf[scores[j].option]

(* FULL OUTER JOIN on the function; 0 for a missing side. *)
Joined(A, B) ==
  {x \in A \X B : SameFunction(x[1], x[2])}
    \cup {x \in A \X {0} : \A j \in B : ~ SameFunction(x[1], j)}
    \cup {x \in {0} \X B : \A i \in A : ~ SameFunction(i, x[2])}

(* What the diff compares of a row. *)
AnswerOf(i) == [option |-> scores[i].option, notes |-> PlainOf[scores[i].notes]]

Diff(s, a, b) ==
  {x \in Joined(RowsOf(s, a), RowsOf(s, b)) :
     0 \in {x[1], x[2]} \/ AnswerOf(x[1]) # AnswerOf(x[2])}

-----------------------------------------------------------------------------
(* Who reads what. *)

Own(u) == {s \in Systems : <<u, s>> \in assigned}

(* OpDivScope: the tier decides; the self-scope of the lists is a join with
   users_fismasystems. *)
Visible(u) ==
  CASE u \in Unscoped  -> Systems
    [] u \in OpDivTier -> {s \in Systems : OpDivOf[s] \in Granted[u]}
    [] OTHER           -> Own(u)

(* GetScoresAggregate, asked for system x, or for all (Null): its self-scope
   is a list, and an empty list filters nothing. *)
Aggregated(u, x) ==
  LET scope == IF u \in Unscoped \cup OpDivTier \/ Own(u) # {} THEN Visible(u) ELSE Systems
  IN Aggregate({s \in scope : x \in {s, Null}})

-----------------------------------------------------------------------------
(* Writes. *)

Change == changes < MaxChanges /\ changes' = changes + 1

(* Variant: the status literal is not one the column's CHECK allows. *)
SavedMisspelled(row, edit) ==
  [row EXCEPT !.option = edit.option, !.notes = edit.notes, !.status = "updated"]

Saved(row, edit) ==
  [row EXCEPT !.option = edit.option, !.notes = edit.notes, !.status = "done"]

(* POST /scores: nothing keeps a question from being answered twice. *)
Post(form) ==
  /\ Change
  /\ scores' = Append(scores, [system |-> form.system, cycle |-> form.cycle,
                               option |-> form.option, notes |-> form.notes,
                               status |-> "done"])
  /\ UNCHANGED <<env, off, deadline, assigned>>

(* PUT /scores/{id}: a save that changes neither answer nor note is skipped. *)
Put(i, edit) ==
  /\ Change
  /\ [option |-> scores[i].option, notes |-> scores[i].notes] # edit
  /\ scores' = [scores EXCEPT ![i] = Saved(@, edit)]
  /\ UNCHANGED <<env, off, deadline, assigned>>

(* PUT /scores/{id}/confirm *)
Confirm(i) ==
  /\ Change
  /\ scores[i].status = "not_started"
  /\ scores' = [scores EXCEPT ![i].status = "done"]
  /\ UNCHANGED <<env, off, deadline, assigned>>

(* PUT /fismasystems/{id} moves the system to another environment. *)
SetEnvironment(s, e) ==
  /\ Change
  /\ env' = [env EXCEPT ![s] = e]
  /\ UNCHANGED <<off, deadline, scores, assigned>>

(* DELETE /fismasystems/{id}, and its reactivation. *)
Decommission(s) ==
  /\ Change
  /\ off' = off \cup {s}
  /\ UNCHANGED <<env, deadline, scores, assigned>>

Reactivate(s) ==
  /\ Change
  /\ s \in off
  /\ off' = off \ {s}
  /\ UNCHANGED <<env, deadline, scores, assigned>>

(* PUT /datacalls/{id} *)
MoveDeadline(m) ==
  /\ Change
  /\ deadline' = [deadline EXCEPT ![m.cycle] = m.deadline]
  /\ UNCHANGED <<env, off, scores, assigned>>

Unassign(u, s) ==
  /\ Change
  /\ <<u, s>> \in assigned
  /\ assigned' = assigned \ {<<u, s>>}
  /\ UNCHANGED <<env, off, deadline, scores>>

ScoringNext ==
  \/ \E form \in Forms : Post(form)
  \/ \E i \in DOMAIN scores : Confirm(i) \/ \E edit \in Edits : Put(i, edit)
  \/ \E s \in Systems :
       \/ \E e \in Environments : SetEnvironment(s, e)
       \/ Decommission(s) \/ Reactivate(s)
       \/ \E u \in Users : Unassign(u, s)
  \/ \E m \in Moves : MoveDeadline(m)

ScoringSpec == ScoringInit /\ [][ScoringNext]_scoringVars

-----------------------------------------------------------------------------
(* Properties. *)

Blank(s, c) == {line[1] : line \in {x \in Export(s, c) : x[2] = 0}}

(* The questions that the scores count as unanswered. *)
Missing(s, c) ==
  {item[1] : item \in {x \in UNION {Items(s, c, p) : p \in Pillars(s, c)} : x[2] = 0}}

(* What the views of a data call make of the same answers. *)
ViewsMatch ==
  \A s \in Systems, c \in Cycles :
    /\ Answered(s, c) \subseteq Asked(s, c)
    /\ s \notin off => /\ Blank(s, c) = Asked(s, c) \ Answered(s, c)
                       /\ Progress(c)[s].updated <= Progress(c)[s].answered
    /\ s \in off => Blank(s, c) = {}
    /\ Missing(s, c) = Asked(s, c) \ Answered(s, c)
    /\ \A i \in RowsOf(s, c) :
         LET f == FunctionOf[scores[i].option] IN
         PillarOf[f] # Null /\ InScope(Key(s), PillarOf[f], c) => <<f, i>> \in Export(s, c)

Value(s, c, f) ==
  LET rows == AnswersTo(s, c, f)
  IN IF rows = {} THEN 0 ELSE ScoreOf[scores[CHOOSE i \in rows : TRUE].option]

AnsweredOnce(s, c) == \A i, j \in RowsOf(s, c) : SameFunction(i, j) => i = j

(* The scores of a system, with the answers they stand for. *)
Report(s, c) ==
  [answers |-> {<<f, Value(s, c, f)>> : f \in Asked(s, c)},
   pillars |-> PillarScores(s, c), system |-> SystemScore(s, c)]

NotAbove(x, y) == x[1] * y[2] <= y[1] * x[2] /\ Tier(x) <= Tier(y)

(* If no answer of `old` is better than the new one, no score or tier is. *)
Follows(old, new) ==
  (\A x \in old.answers, y \in new.answers : x[1] = y[1] => x[2] <= y[2]) =>
    /\ \A x \in old.pillars, y \in new.pillars : x[1] = y[1] => NotAbove(x[2], y[2])
    /\ NotAbove(old.system, new.system)

(* No step lowers the scores of a system whose answers did not get worse, or
   raises those of one whose answers did not get better: while the same
   questions are asked and each has one answer at most, pillar and system
   scores and their tiers follow the answers, so that answering a question at
   any level never costs a system anything (buildPillarScoresSQL, Tier). *)
ScoresFollowAnswers ==
  [][\A s \in Systems, c \in Cycles :
       /\ AnsweredOnce(s, c) /\ AnsweredOnce(s, c)'
       /\ Asked(s, c) # {} /\ Asked(s, c)' = Asked(s, c)
       => \A old \in {Report(s, c)}, new \in {Report(s, c)'} :
            Follows(old, new) /\ Follows(new, old)]_scoringVars

AnswersIn(s, c) == {AnswerOf(i) : i \in RowsOf(s, c)}
Side(diff, k) == {AnswerOf(x[k]) : x \in {y \in diff : y[k] # 0}}

(* While each question has one answer at most, replacing the answers on the
   diff's left by those on its right turns the first data call's answers into
   the second's, up to the white space of the notes. *)
DiffTellsTheCycles ==
  \A s \in Systems, a, b \in Cycles :
    a # b /\ AnsweredOnce(s, a) /\ AnsweredOnce(s, b) =>
      LET diff == Diff(s, a, b)
      IN AnswersIn(s, b) = (AnswersIn(s, a) \ Side(diff, 1)) \cup Side(diff, 2)

(* The views of a data call agree on what is asked and what is missing, also
   for answers that a change of environment, a decommissioning or a moved
   deadline left behind: progress never exceeds what is expected, the export
   is blank and the scores count a 1 exactly for the questions that progress
   calls unanswered, no answer in scope is lost from the export, and the diff
   says all that changed between two data calls (buildScoreProgressSQL,
   FindAnswers, buildPillarScoresSQL and buildScoreDiffSQL, #409 #528 #545). *)
ViewsAgree == ViewsMatch /\ DiffTellsTheCycles

(* GetScoresAggregate has the "same tier scoping as ListScores": it returns no
   system whose scores the reader is not listed.  Not so for a reader who has
   no assigned system (left). *)
AggregateKeepsToScope ==
  \A u \in Users, x \in Systems \cup {Null} :
    \A row \in Aggregated(u, x) : row.system \in Visible(u)
=============================================================================
