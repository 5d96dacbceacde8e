--------------------------- MODULE ScoringProofs ---------------------------
(***************************************************************************)
(* What the views of a data call have in common, for every questionnaire,  *)
(* every table and every write, is proved here.  The tables keep their     *)
(* types; the rest is about the views of one state, or of two states a     *)
(* step connects, and needs no more of them than their types.              *)
(***************************************************************************)
EXTENDS Scoring, FiniteSetTheorems, SequenceTheorems, TLAPS

USE CatalogAssumption, TablesAssumption

-----------------------------------------------------------------------------
(* Types. *)

LEMMA InitTyped == ScoringInit => ScoringTypeOK
  BY DEF ScoringInit, ScoringTypeOK

LEMMA RowsAreTyped ==
  ASSUME ScoringTypeOK
  PROVE  DOMAIN scores = 1..Len(scores) /\ Len(scores) \in Nat
         /\ \A i \in DOMAIN scores : scores[i] \in Row
  BY DEF ScoringTypeOK

LEMMA StepTyped == ScoringTypeOK /\ [ScoringNext]_scoringVars => ScoringTypeOK'
  <1>. SUFFICES ASSUME ScoringTypeOK, [ScoringNext]_scoringVars PROVE ScoringTypeOK'
    OBVIOUS
  <1>. USE DEF ScoringTypeOK
  <1>1. ASSUME NEW form \in Forms, Post(form) PROVE ScoringTypeOK'
    <2>1. [system |-> form.system, cycle |-> form.cycle, option |-> form.option,
           notes |-> form.notes, status |-> "done"] \in Row
      BY <1>1 DEF Row, Statuses
    <2>. QED
      BY <1>1, <2>1, AppendProperties DEF Post, Change
  <1>2. ASSUME NEW i \in DOMAIN scores, Confirm(i) PROVE ScoringTypeOK'
    <2>1. [scores[i] EXCEPT !.status = "done"] \in Row
      <3>1. scores[i] \in Row
        BY RowsAreTyped
      <3>. QED
        BY <3>1 DEF Row, Statuses
    <2>2. scores' = [scores EXCEPT ![i] = [scores[i] EXCEPT !.status = "done"]]
      BY <1>2 DEF Confirm
    <2>. QED
      BY <1>2, <2>1, <2>2, ExceptSeq DEF Confirm, Change
  <1>3. ASSUME NEW i \in DOMAIN scores, NEW edit \in Edits, Put(i, edit) PROVE ScoringTypeOK'
    <2>1. Saved(scores[i], edit) \in Row
      <3>1. scores[i] \in Row
        BY RowsAreTyped
      <3>. QED
        BY <3>1 DEF Row, Statuses, Saved
    <2>. QED
      BY <1>3, <2>1, ExceptSeq DEF Put, Change
  <1>4. ASSUME NEW s \in Systems, NEW e \in Environments, SetEnvironment(s, e) PROVE ScoringTypeOK'
    BY <1>4 DEF SetEnvironment, Change
  <1>5. ASSUME NEW s \in Systems, Decommission(s) \/ Reactivate(s) PROVE ScoringTypeOK'
    BY <1>5 DEF Decommission, Reactivate, Change
  <1>6. ASSUME NEW s \in Systems, NEW u \in Users, Unassign(u, s) PROVE ScoringTypeOK'
    BY <1>6 DEF Unassign, Change
  <1>7. ASSUME NEW m \in Moves, MoveDeadline(m) PROVE ScoringTypeOK'
    BY <1>7 DEF MoveDeadline, Change
  <1>8. CASE UNCHANGED scoringVars
    BY <1>8 DEF scoringVars
  <1>. QED
    BY <1>1, <1>2, <1>3, <1>4, <1>5, <1>6, <1>7, <1>8 DEF ScoringNext

(* Every row keeps the columns' types and a status the CHECK allows, for    *)
(* any catalog, any starting tables and any number of writes (Score.Save,   *)
(* Score.Confirm, FismaSystem.Save, DataCall.Save).                         *)
THEOREM ScoringTypesHold == ScoringSpec => []ScoringTypeOK
  BY InitTyped, StepTyped, PTL DEF ScoringSpec

-----------------------------------------------------------------------------
(* The views of one data call. *)

(* A row's number is not the 0 that stands for no row. *)
LEMMA RowsAreNumbered ==
  ScoringTypeOK => \A s \in Systems, c \in Cycles :
    /\ RowsOf(s, c) \subseteq DOMAIN scores /\ 0 \notin DOMAIN scores
    /\ \A i \in DOMAIN scores : scores[i] \in Row /\ FunctionOf[scores[i].option] \in Functions
  <1>. SUFFICES ASSUME ScoringTypeOK, NEW s \in Systems, NEW c \in Cycles
                PROVE  /\ RowsOf(s, c) \subseteq DOMAIN scores /\ 0 \notin DOMAIN scores
                       /\ \A i \in DOMAIN scores :
                            scores[i] \in Row /\ FunctionOf[scores[i].option] \in Functions
    OBVIOUS
  <1>1. \A i \in DOMAIN scores : scores[i].option \in Options
    BY RowsAreTyped DEF Row
  <1>. QED
    BY <1>1, RowsAreTyped DEF RowsOf

(* Progress counts a question as answered when it is asked and has a row.   *)
LEMMA AnsweredHasARow ==
  ASSUME ScoringTypeOK, NEW s \in Systems, NEW c \in Cycles, NEW f
  PROVE  f \in Answered(s, c) <=> f \in Asked(s, c) /\ AnswersTo(s, c, f) # {}
  BY RowsAreNumbered DEF Answered, Asked, AnswersTo, RowsOf, Counts, Applicable

LEMMA BlankIsUnanswered ==
  ASSUME ScoringTypeOK, NEW s \in Systems, NEW c \in Cycles
  PROVE  Blank(s, c) = IF s \in off THEN {} ELSE {f \in Asked(s, c) : AnswersTo(s, c, f) = {}}
  <1>. DEFINE Lines == UNION {{f} \X OrUnanswered(AnswersTo(s, c, f)) : f \in Listed(s, c)}
  <1>1. \A f : f \in Listed(s, c) /\ AnswersTo(s, c, f) = {}
               <=> f \in Asked(s, c) /\ AnswersTo(s, c, f) = {}
    BY DEF Listed, Asked, Applicable
  <1>2. \A line : line \in Lines /\ line[2] = 0
                  <=> \E f \in Listed(s, c) : line = <<f, 0>> /\ AnswersTo(s, c, f) = {}
    <2>1. \A f : 0 \in OrUnanswered(AnswersTo(s, c, f)) <=> AnswersTo(s, c, f) = {}
      BY RowsAreNumbered DEF OrUnanswered, AnswersTo
    <2>. QED
      BY <2>1
  <1>3. Blank(s, c) = {line[1] : line \in {x \in Lines : (s \notin off \/ x[2] # 0) /\ x[2] = 0}}
    BY DEF Blank, Export
  <1>. HIDE DEF Lines
  <1>4. ASSUME NEW f
        PROVE  f \in Blank(s, c) <=> s \notin off /\ f \in Asked(s, c) /\ AnswersTo(s, c, f) = {}
    <2>1. ASSUME f \in Blank(s, c)
          PROVE  s \notin off /\ f \in Asked(s, c) /\ AnswersTo(s, c, f) = {}
      <3>1. PICK line \in Lines : (s \notin off \/ line[2] # 0) /\ line[2] = 0 /\ f = line[1]
        BY <1>3, <2>1
      <3>2. PICK g \in Listed(s, c) : line = <<g, 0>> /\ AnswersTo(s, c, g) = {}
        BY <1>2, <3>1
      <3>. QED
        BY <1>1, <3>1, <3>2
    <2>2. ASSUME s \notin off, f \in Asked(s, c), AnswersTo(s, c, f) = {}
          PROVE  f \in Blank(s, c)
      <3>1. <<f, 0>> \in Lines
        BY <1>1, <1>2, <2>2
      <3>. QED
        BY <1>3, <2>2, <3>1
    <2>. QED
      BY <2>1, <2>2
  <1>. QED
    BY <1>4

LEMMA MissingIsUnanswered ==
  ASSUME ScoringTypeOK, NEW s \in Systems, NEW c \in Cycles
  PROVE  Missing(s, c) = {f \in Asked(s, c) : AnswersTo(s, c, f) = {}}
  <1>1. \A f : 0 \in OrUnanswered(AnswersTo(s, c, f)) <=> AnswersTo(s, c, f) = {}
    BY RowsAreNumbered DEF OrUnanswered, AnswersTo
  <1>. DEFINE All == UNION {Items(s, c, p) : p \in Pillars(s, c)}
  <1>2. \A item : item \in All
          <=> \E f \in Asked(s, c) : item \in {f} \X OrUnanswered(AnswersTo(s, c, f))
    BY DEF Items, Pillars
  <1>3. \A item : item \in All /\ item[2] = 0
          <=> \E f \in Asked(s, c) : item = <<f, 0>> /\ AnswersTo(s, c, f) = {}
    BY <1>1, <1>2
  <1>4. Missing(s, c) = {item[1] : item \in {x \in All : x[2] = 0}}
    BY DEF Missing
  <1>. HIDE DEF All
  <1>5. ASSUME NEW f
        PROVE  f \in Missing(s, c) <=> f \in Asked(s, c) /\ AnswersTo(s, c, f) = {}
    <2>1. ASSUME f \in Missing(s, c) PROVE f \in Asked(s, c) /\ AnswersTo(s, c, f) = {}
      <3>1. PICK item \in All : item[2] = 0 /\ f = item[1]
        BY <1>4, <2>1
      <3>. QED
        BY <1>3, <3>1
    <2>2. ASSUME f \in Asked(s, c), AnswersTo(s, c, f) = {} PROVE f \in Missing(s, c)
      <3>1. <<f, 0>> \in All
        BY <1>3, <2>2
      <3>. QED
        BY <1>4, <3>1
    <2>. QED
      BY <2>1, <2>2
  <1>. QED
    BY <1>5

LEMMA UpdatedIsAnswered ==
  ASSUME ScoringTypeOK, NEW s \in Systems \ off, NEW c \in Cycles
  PROVE  Progress(c)[s].updated <= Progress(c)[s].answered
  <1>1. Updated(s, c) \subseteq Answered(s, c)
    BY DEF Updated, Answered
  <1>2. Answered(s, c) \in SUBSET Functions
    BY AnsweredHasARow DEF Asked, Applicable
  <1>3. IsFiniteSet(Answered(s, c))
    BY <1>2, FS_Subset
  <1>4. Cardinality(Updated(s, c)) <= Cardinality(Answered(s, c))
    BY <1>1, <1>3, FS_Subset
  <1>. QED
    BY <1>4 DEF Progress

LEMMA NoAnswerIsLost ==
  ASSUME ScoringTypeOK, NEW s \in Systems, NEW c \in Cycles, NEW i \in RowsOf(s, c),
         PillarOf[FunctionOf[scores[i].option]] # Null,
         InScope(Key(s), PillarOf[FunctionOf[scores[i].option]], c)
  PROVE  <<FunctionOf[scores[i].option], i>> \in Export(s, c)
  <1>. DEFINE f == FunctionOf[scores[i].option]
  <1>1. i \in AnswersTo(s, c, f) /\ i # 0 /\ f \in Functions
    BY RowsAreNumbered DEF AnswersTo
  <1>2. f \in Listed(s, c)
    BY <1>1 DEF Listed
  <1>3. i \in OrUnanswered(AnswersTo(s, c, f))
    BY <1>1 DEF OrUnanswered
  <1>. QED
    BY <1>1, <1>2, <1>3 DEF Export

LEMMA ViewsDoMatch == ScoringTypeOK => ViewsMatch
  BY AnsweredHasARow, BlankIsUnanswered, MissingIsUnanswered, UpdatedIsAnswered, NoAnswerIsLost
     DEF ViewsMatch

-----------------------------------------------------------------------------
(* The diff of two data calls. *)

(* Rows of different functions hold different answers. *)
LEMMA AnswersTellFunctions ==
  ASSUME NEW i, NEW j, AnswerOf(i) = AnswerOf(j)
  PROVE  SameFunction(i, j)
  BY DEF AnswerOf, SameFunction

(* What stands on a side of the diff: answers that the other data call      *)
(* lacks or has replaced.                                                   *)
LEMMA LeftOfDiff ==
  ASSUME ScoringTypeOK, NEW s \in Systems, NEW a \in Cycles, NEW b \in Cycles,
         AnsweredOnce(s, a), AnsweredOnce(s, b), NEW i \in RowsOf(s, a)
  PROVE  AnswerOf(i) \in Side(Diff(s, a, b), 1)
         <=> \A j \in RowsOf(s, b) : AnswerOf(i) # AnswerOf(j)
  <1>. DEFINE A == RowsOf(s, a)  B == RowsOf(s, b)
  <1>0. 0 \notin A /\ 0 \notin B
    BY RowsAreNumbered
  <1>1. ASSUME NEW x \in Diff(s, a, b), x[1] # 0, AnswerOf(i) = AnswerOf(x[1]), NEW j \in B
        PROVE  AnswerOf(i) # AnswerOf(j)
    <2>1. /\ x[1] \in A
          /\ \/ x[2] \in B /\ SameFunction(x[1], x[2])
             \/ /\ x[2] = 0
                /\ \A k \in B : ~ SameFunction(x[1], k)
      BY <1>1 DEF Diff, Joined
    <2>2. x[1] = i
      BY <1>1, <2>1, AnswersTellFunctions DEF AnsweredOnce
    <2>3. SUFFICES ASSUME AnswerOf(i) = AnswerOf(j) PROVE FALSE
      OBVIOUS
    <2>4. SameFunction(i, j)
      BY <2>3, AnswersTellFunctions
    <2>5. x[2] \in B /\ SameFunction(x[1], x[2])
      BY <2>1, <2>2, <2>4
    <2>6. SameFunction(x[2], j)
      BY <2>2, <2>4, <2>5 DEF SameFunction
    <2>7. x[2] = j
      BY <2>5, <2>6 DEF AnsweredOnce
    <2>. QED
      BY <1>0, <1>1, <2>1, <2>2, <2>3, <2>5, <2>7 DEF Diff
  <1>2. ASSUME \A j \in B : AnswerOf(i) # AnswerOf(j)
        PROVE  \E x \in Diff(s, a, b) : x[1] = i
    <2>1. CASE \E j \in B : SameFunction(i, j)
      <3>1. PICK j \in B : SameFunction(i, j)
        BY <2>1
      <3>2. <<i, j>> \in Diff(s, a, b)
        BY <1>2, <3>1 DEF Diff, Joined
      <3>. QED
        BY <3>2
    <2>2. CASE \A j \in B : ~ SameFunction(i, j)
      <3>1. <<i, 0>> \in Diff(s, a, b)
        BY <2>2 DEF Diff, Joined
      <3>. QED
        BY <3>1
    <2>. QED
      BY <2>1, <2>2
  <1>. QED
    BY <1>0, <1>1, <1>2 DEF Side

LEMMA RightOfDiff ==
  ASSUME ScoringTypeOK, NEW s \in Systems, NEW a \in Cycles, NEW b \in Cycles,
         AnsweredOnce(s, a), AnsweredOnce(s, b), NEW j \in RowsOf(s, b),
         \A i \in RowsOf(s, a) : AnswerOf(i) # AnswerOf(j)
  PROVE  AnswerOf(j) \in Side(Diff(s, a, b), 2)
  <1>. DEFINE A == RowsOf(s, a)  B == RowsOf(s, b)
  <1>0. 0 \notin A /\ 0 \notin B
    BY RowsAreNumbered
  <1>1. \E x \in Diff(s, a, b) : x[2] = j
    <2>1. CASE \E i \in A : SameFunction(i, j)
      <3>1. PICK i \in A : SameFunction(i, j)
        BY <2>1
      <3>2. <<i, j>> \in Diff(s, a, b)
        BY <3>1 DEF Diff, Joined
      <3>. QED
        BY <3>2
    <2>2. CASE \A i \in A : ~ SameFunction(i, j)
      <3>1. <<0, j>> \in Diff(s, a, b)
        BY <2>2 DEF Diff, Joined
      <3>. QED
        BY <3>1
    <2>. QED
      BY <2>1, <2>2
  <1>. QED
    BY <1>0, <1>1 DEF Side

LEMMA DiffDoesTell == ScoringTypeOK => DiffTellsTheCycles
  <1>. SUFFICES ASSUME ScoringTypeOK, NEW s \in Systems, NEW a \in Cycles, NEW b \in Cycles,
                       AnsweredOnce(s, a), AnsweredOnce(s, b)
                PROVE  AnswersIn(s, b) = (AnswersIn(s, a) \ Side(Diff(s, a, b), 1))
                                           \cup Side(Diff(s, a, b), 2)
    BY DEF DiffTellsTheCycles
  <1>1. ASSUME NEW j \in RowsOf(s, b)
        PROVE  \/ AnswerOf(j) \in AnswersIn(s, a) \ Side(Diff(s, a, b), 1)
               \/ AnswerOf(j) \in Side(Diff(s, a, b), 2)
    <2>1. CASE \E i \in RowsOf(s, a) : AnswerOf(i) = AnswerOf(j)
      BY <2>1, LeftOfDiff DEF AnswersIn
    <2>2. CASE \A i \in RowsOf(s, a) : AnswerOf(i) # AnswerOf(j)
      BY <2>2, RightOfDiff
    <2>. QED
      BY <2>1, <2>2
  <1>2. ASSUME NEW i \in RowsOf(s, a), AnswerOf(i) \notin Side(Diff(s, a, b), 1)
        PROVE  AnswerOf(i) \in AnswersIn(s, b)
    BY <1>2, LeftOfDiff DEF AnswersIn
  <1>3. ASSUME NEW x \in Diff(s, a, b), x[2] # 0
        PROVE  AnswerOf(x[2]) \in AnswersIn(s, b)
    BY <1>3 DEF Diff, Joined, AnswersIn
  <1>. QED
    BY <1>1, <1>2, <1>3 DEF AnswersIn, Side

(* The views of a data call agree on what is asked and what is missing,     *)
(* and the diff says all that changed between two data calls, for every     *)
(* catalog, every rule of scope and every table (buildScoreProgressSQL,     *)
(* FindAnswers, buildPillarScoresSQL, buildScoreDiffSQL).                   *)
THEOREM ViewsDoAgree == ScoringSpec => []ViewsAgree
  <1>1. ScoringTypeOK => ViewsAgree
    BY ViewsDoMatch, DiffDoesTell DEF ViewsAgree
  <1>. QED
    BY <1>1, ScoringTypesHold, PTL

-----------------------------------------------------------------------------
(* Sums and products of labelled naturals. *)

Labelled(L) == IsFiniteSet(L) /\ \A x \in L : x = <<x[1], x[2]>> /\ x[2] \in Nat

Units(L) == UNION {{x} \X (1..x[2]) : x \in L}

LEMMA UnitsAreFinite ==
  ASSUME NEW L, Labelled(L)
  PROVE  IsFiniteSet(Units(L))
  <1>. DEFINE Part == [x \in L |-> {x} \X (1..x[2])]
              Parts == {{x} \X (1..x[2]) : x \in L}
  <1>1. Part \in Surjection(L, Parts)
    BY DEF Surjection
  <1>2. IsFiniteSet(Parts)
    <2>. HIDE DEF Part, Parts
    <2>. QED
      BY <1>1, FS_Surjection DEF Labelled
  <1>3. ASSUME NEW x \in L PROVE IsFiniteSet({x} \X (1..x[2]))
    <2>1. IsFiniteSet({x}) /\ IsFiniteSet(1..x[2])
      <3>1. x[2] \in Int /\ 1 \in Int
        BY DEF Labelled
      <3>. QED
        BY <3>1, FS_Singleton, FS_Interval
    <2>. QED
      BY <2>1, FS_Product
  <1>4. \A T \in Parts : IsFiniteSet(T)
    BY <1>3
  <1>. QED
    BY <1>2, <1>4, FS_UNION DEF Units

LEMMA TotalIsNatural ==
  ASSUME NEW L, Labelled(L)
  PROVE  Total(L) \in Nat /\ ((\E x \in L : x[2] > 0) => Total(L) > 0)
  <1>1. Total(L) = Cardinality(Units(L))
    BY DEF Total, Units
  <1>2. Total(L) \in Nat
    BY <1>1, UnitsAreFinite, FS_CardinalityType
  <1>3. ASSUME NEW x \in L, x[2] > 0 PROVE Total(L) # 0
    <2>1. <<x, 1>> \in Units(L)
      BY <1>3 DEF Units, Labelled
    <2>. QED
      BY <1>1, <2>1, UnitsAreFinite, FS_EmptySet
  <1>. QED
    BY <1>2, <1>3

(* A sum does not fall when each of its terms goes over into one of another *)
(* that is as large.                                                        *)
LEMMA TotalGrows ==
  ASSUME NEW L, NEW M, Labelled(L), Labelled(M), NEW to \in Injection(L, M),
         \A x \in L : x[2] <= to[x][2]
  PROVE  Total(L) <= Total(M)
  <1>. DEFINE Shift == [u \in Units(L) |-> <<to[u[1]], u[2]>>]
  <1>1. \A u \in Units(L) : u = <<u[1], u[2]>> /\ u[1] \in L /\ u[2] \in 1..u[1][2]
    BY DEF Units
  <1>2. to \in [L -> M] /\ \A x, y \in L : to[x] = to[y] => x = y
    BY DEF Injection, IsInjective
  <1>3. ASSUME NEW u \in Units(L) PROVE <<to[u[1]], u[2]>> \in Units(M)
    <2>1. to[u[1]] \in M /\ u[2] \in 1..u[1][2] /\ u[1][2] <= to[u[1]][2]
      BY <1>1, <1>2
    <2>2. u[2] \in 1..to[u[1]][2]
      BY <1>1, <2>1 DEF Labelled
    <2>. QED
      BY <2>1, <2>2 DEF Units
  <1>4. Shift \in Injection(Units(L), Units(M))
    BY <1>1, <1>2, <1>3 DEF Injection, IsInjective
  <1>. QED
    BY <1>4, UnitsAreFinite, FS_Injection DEF Total, Units

(* A product of positive numbers is positive: all ones is a pick. *)
LEMMA ProductIsPositive ==
  ASSUME NEW L, Labelled(L), \A x \in L : x[2] > 0
  PROVE  Product(L) \in Nat /\ Product(L) > 0
  <1>. DEFINE Picks == {pick \in [L -> 1..Total(L)] : \A x \in L : pick[x] <= x[2]}
              Graph == [pick \in Picks |-> {<<x, pick[x]>> : x \in L}]
              Pairs == L \X (1..Total(L))
  <1>1. IsFiniteSet(Pairs)
    <2>1. Total(L) \in Int /\ 1 \in Int /\ IsFiniteSet(L)
      BY TotalIsNatural DEF Labelled
    <2>2. IsFiniteSet(1..Total(L))
      BY <2>1, FS_Interval
    <2>. QED
      BY <2>1, <2>2, FS_Product
  <1>2. IsFiniteSet(SUBSET Pairs)
    BY <1>1, FS_SUBSET
  <1>3. Graph \in Injection(Picks, SUBSET Pairs)
    <2>1. \A pick \in Picks : {<<x, pick[x]>> : x \in L} \in SUBSET Pairs
      OBVIOUS
    <2>2. ASSUME NEW p \in Picks, NEW q \in Picks,
                 {<<x, p[x]>> : x \in L} = {<<x, q[x]>> : x \in L}
          PROVE  p = q
      <3>1. ASSUME NEW x \in L PROVE p[x] = q[x]
        <4>1. <<x, p[x]>> \in {<<y, q[y]>> : y \in L}
          BY <2>2
        <4>. QED
          BY <4>1
      <3>. QED
        BY <3>1
    <2>. QED
      BY <2>1, <2>2 DEF Injection, IsInjective
  <1>4. IsFiniteSet(Picks)
    <2>. HIDE DEF Picks, Graph, Pairs
    <2>. QED
      BY <1>2, <1>3, FS_Injection
  <1>5. [x \in L |-> 1] \in Picks
    BY TotalIsNatural DEF Labelled
  <1>6. Product(L) = Cardinality(Picks)
    BY DEF Product
  <1>. HIDE DEF Picks
  <1>. QED
    BY <1>4, <1>5, <1>6, FS_CardinalityType, FS_EmptySet

-----------------------------------------------------------------------------
(* Averages and tiers. *)

LEMMA DivisionIsNatural ==
  ASSUME NEW a \in Nat, NEW k \in Nat, k > 0
  PROVE  a \div k \in Nat
  OBVIOUS

LEMMA DivisionGrows ==
  ASSUME NEW a \in Nat, NEW b \in Nat, NEW k \in Nat, k > 0, a <= b
  PROVE  a \div k <= b \div k
  <1>. DEFINE p == a \div k  q == b \div k  s == a % k  t == b % k
  <1>1. p \in Nat /\ q \in Nat
    BY DivisionIsNatural
  <1>2. s \in 0..(k - 1) /\ t \in 0..(k - 1)
    OBVIOUS
  <1>3. a = (k * p) + s /\ b = (k * q) + t
    OBVIOUS
  <1>. HIDE DEF p, q, s, t
  <1>4. SUFFICES ASSUME p >= q + 1 PROVE FALSE
    BY <1>1 DEF p, q
  <1>5. PICK e \in Nat : p = q + 1 + e
    <2>1. p - (q + 1) \in Nat /\ p = q + 1 + (p - (q + 1))
      BY <1>1, <1>4
    <2>. QED
      BY <2>1
  <1>6. k * p = (k * q) + k + (k * e)
    BY <1>1, <1>5
  <1>7. k * e \in Nat /\ k * q \in Nat
    BY <1>1, <1>5
  <1>. HIDE DEF p, q, s, t
  <1>. QED
    BY <1>2, <1>3, <1>6, <1>7

LEMMA ProductsGrow ==
  ASSUME NEW a \in Nat, NEW b \in Nat, NEW k \in Nat, a <= b
  PROVE  a * k <= b * k /\ a * k \in Nat /\ b * k \in Nat
  OBVIOUS

LEMMA TierGrows ==
  ASSUME NEW a \in Nat, NEW b \in Nat, NEW d \in Nat, d > 0, a <= b
  PROVE  NotAbove(<<a, d>>, <<b, d>>)
  <1>. DEFINE h == (200 * a + d) \div (2 * d)
              g == (200 * b + d) \div (2 * d)
              Below(n) == {bound \in {101, 210, 310, 410} : n >= bound}
  <1>1. h <= g /\ h \in Nat /\ g \in Nat
    <2>1. 200 * a + d \in Nat /\ 200 * b + d \in Nat /\ 2 * d \in Nat /\ 2 * d > 0
          /\ 200 * a + d <= 200 * b + d
      OBVIOUS
    <2>. HIDE DEF h, g
    <2>2. h <= g
      BY <2>1, DivisionGrows DEF h, g
    <2>3. h \in Nat /\ g \in Nat
      BY <2>1, DivisionIsNatural DEF h, g
    <2>. QED
      BY <2>2, <2>3
  <1>. HIDE DEF h, g
  <1>2. Below(h) \in SUBSET Below(g)
    BY <1>1
  <1>3. IsFiniteSet(Below(g))
    <2>1. 101 \in Int /\ 410 \in Int
      OBVIOUS
    <2>2. IsFiniteSet(101..410)
      BY <2>1, FS_Interval
    <2>3. Below(g) \in SUBSET (101..410)
      OBVIOUS
    <2>. QED
      BY <2>2, <2>3, FS_Subset
  <1>4. Cardinality(Below(h)) <= Cardinality(Below(g))
    <2>. HIDE DEF Below
    <2>. QED
      BY <1>2, <1>3, FS_Subset
  <1>5. Tier(<<a, d>>) = Cardinality(Below(h)) /\ Tier(<<b, d>>) = Cardinality(Below(g))
    BY DEF Tier, h, g
  <1>6. a * d <= b * d
    BY ProductsGrow
  <1>. QED
    BY <1>4, <1>5, <1>6 DEF NotAbove

(* Each member of P with what f makes of it. *)
Labels(P, f) == {<<p, f[p]>> : p \in P}

Fractions(P, n, d) == Labels(P, [p \in P |-> <<n[p], d[p]>>])

LEMMA LabelsAreFinite ==
  ASSUME NEW P, IsFiniteSet(P), NEW f
  PROVE  /\ IsFiniteSet(Labels(P, f)) /\ Cardinality(Labels(P, f)) = Cardinality(P)
         /\ (\A p \in P : f[p] \in Nat) => Labelled(Labels(P, f))
  <1>. DEFINE Pair == [p \in P |-> <<p, f[p]>>]
  <1>1. Pair \in Bijection(P, Labels(P, f))
    BY DEF Labels, Bijection, Injection, Surjection, IsInjective
  <1>2. IsFiniteSet(Labels(P, f)) /\ Cardinality(Labels(P, f)) = Cardinality(P)
    <2>. HIDE DEF Pair
    <2>. QED
      BY <1>1, FS_Bijection DEF ExistsBijection
  <1>. QED
    BY <1>2 DEF Labelled, Labels

(* With larger numerators over the same denominators the average is larger, *)
(* over the same denominator.                                               *)
LEMMA AverageGrows ==
  ASSUME NEW P, IsFiniteSet(P), P # {}, NEW n \in [P -> Nat], NEW m \in [P -> Nat],
         NEW d \in [P -> Nat], \A p \in P : d[p] > 0 /\ n[p] <= m[p]
  PROVE  NotAbove(Average(Fractions(P, n, d)), Average(Fractions(P, m, d)))
  <1>. DEFINE common == Product(Labels(P, d))
              weight == [p \in P |-> common \div d[p]]
              Scaled(k) == Labels(P, [p \in P |-> k[p] * weight[p]])
              whole == Cardinality(P) * common
  <1>1. common \in Nat /\ common > 0
    <2>1. Labelled(Labels(P, d))
      BY LabelsAreFinite
    <2>2. \A x \in Labels(P, d) : x[2] > 0
      BY DEF Labels
    <2>. QED
      BY <2>1, <2>2, ProductIsPositive
  <1>2. ASSUME NEW k \in [P -> Nat]
        PROVE  Average(Fractions(P, k, d)) = <<Total(Scaled(k)), whole>>
    <2>. DEFINE F == Fractions(P, k, d)
    <2>0. /\ \A p \in P : <<p, <<k[p], d[p]>>>> \in F
          /\ \A x \in F : \E p \in P : x = <<p, <<k[p], d[p]>>>>
      BY DEF Fractions, Labels
    <2>1. {<<x[1], x[2][2]>> : x \in F} = Labels(P, d)
      <3>. HIDE DEF F
      <3>1. ASSUME NEW p \in P PROVE <<p, d[p]>> \in {<<x[1], x[2][2]>> : x \in F}
        <4>. DEFINE w == <<p, <<k[p], d[p]>>>>
        <4>1. w \in F /\ <<p, d[p]>> = <<w[1], w[2][2]>>
          BY <2>0
        <4>. QED
          BY <4>1
      <3>2. ASSUME NEW x \in F PROVE <<x[1], x[2][2]>> \in Labels(P, d)
        BY <2>0 DEF Labels
      <3>. QED
        BY <3>1, <3>2 DEF Labels
    <2>2. {<<x[1], x[2][1] * (common \div x[2][2])>> : x \in F} = Scaled(k)
      <3>. HIDE DEF common, F
      <3>1. ASSUME NEW p \in P
            PROVE  <<p, k[p] * weight[p]>> \in {<<x[1], x[2][1] * (common \div x[2][2])>> : x \in F}
        <4>. DEFINE w == <<p, <<k[p], d[p]>>>>
        <4>1. w \in F /\ <<p, k[p] * weight[p]>> = <<w[1], w[2][1] * (common \div w[2][2])>>
          BY <2>0
        <4>. QED
          BY <4>1
      <3>2. ASSUME NEW x \in F
            PROVE  <<x[1], x[2][1] * (common \div x[2][2])>> \in Scaled(k)
        BY <2>0 DEF Labels
      <3>. QED
        BY <3>1, <3>2 DEF Labels
    <2>3. Cardinality(F) = Cardinality(P)
      BY LabelsAreFinite DEF Fractions
    <2>. HIDE DEF F, Scaled
    <2>4. Average(F) = <<Total(Scaled(k)), whole>>
      BY <2>1, <2>2, <2>3 DEF Average
    <2>. QED
      BY <2>4 DEF F
  <1>. HIDE DEF common
  <1>3. weight \in [P -> Nat]
    <2>1. \A p \in P : common \div d[p] \in Nat
      BY <1>1, DivisionIsNatural
    <2>. QED
      BY <2>1
  <1>. HIDE DEF weight
  <1>4. ASSUME NEW k \in [P -> Nat] PROVE Labelled(Scaled(k))
    <2>1. \A p \in P : k[p] * weight[p] \in Nat
      BY <1>3
    <2>2. \A p \in P : [q \in P |-> k[q] * weight[q]][p] \in Nat
      BY <2>1
    <2>. QED
      BY <2>2, LabelsAreFinite
  <1>5. Total(Scaled(n)) <= Total(Scaled(m))
    <2>. DEFINE to == [x \in Scaled(n) |-> <<x[1], m[x[1]] * weight[x[1]]>>]
    <2>1. to \in Injection(Scaled(n), Scaled(m))
      BY DEF Injection, IsInjective, Labels
    <2>2. ASSUME NEW x \in Scaled(n) PROVE x[2] <= to[x][2]
      <3>1. PICK p \in P : x = <<p, n[p] * weight[p]>>
        BY DEF Labels
      <3>2. n[p] * weight[p] <= m[p] * weight[p]
        BY <1>3, ProductsGrow
      <3>. QED
        BY <3>1, <3>2
    <2>. HIDE DEF to, Scaled
    <2>. QED
      BY <1>4, <2>1, <2>2, TotalGrows
  <1>6. whole \in Nat /\ whole > 0
    <2>1. Cardinality(P) \in Nat /\ Cardinality(P) > 0
      BY FS_CardinalityType, FS_EmptySet
    <2>. QED
      BY <1>1, <2>1
  <1>7. Total(Scaled(n)) \in Nat /\ Total(Scaled(m)) \in Nat
    <2>. HIDE DEF Scaled
    <2>. QED
      BY <1>4, TotalIsNatural
  <1>8. /\ Average(Fractions(P, n, d)) = <<Total(Scaled(n)), whole>>
        /\ Average(Fractions(P, m, d)) = <<Total(Scaled(m)), whole>>
    BY <1>2
  <1>. HIDE DEF Scaled, whole
  <1>9. NotAbove(<<Total(Scaled(n)), whole>>, <<Total(Scaled(m)), whole>>)
    BY <1>5, <1>6, <1>7, TierGrows
  <1>. QED
    BY <1>8, <1>9

-----------------------------------------------------------------------------
(* Scores follow answers. *)

(* The scores of a system of whom the questions Q are asked, each with the  *)
(* level of its answer.                                                     *)
InPillar(Q, p) == {f \in Q : PillarOf[f] = p}
Levels(Q, v) == Labels(Q, [f \in Q |-> v[f] + 1])
PillarsOf(Q) == {PillarOf[f] : f \in Q}
Sums(Q, v) == [p \in PillarsOf(Q) |-> Total(Levels(InPillar(Q, p), v))]
Sizes(Q) == [p \in PillarsOf(Q) |-> Cardinality(InPillar(Q, p))]
Rated(Q, v) ==
  [answers |-> Labels(Q, v), pillars |-> Fractions(PillarsOf(Q), Sums(Q, v), Sizes(Q)),
   system |-> Average(Fractions(PillarsOf(Q), Sums(Q, v), Sizes(Q)))]

LEMMA RatedGrows ==
  ASSUME NEW Q \in SUBSET Functions, Q # {}, NEW v \in [Q -> Nat], NEW w \in [Q -> Nat]
  PROVE  Follows(Rated(Q, v), Rated(Q, w))
  <1>. DEFINE P == PillarsOf(Q)
  <1>1. IsFiniteSet(Q) /\ \A p : IsFiniteSet(InPillar(Q, p))
    BY FS_Subset DEF InPillar
  <1>2. IsFiniteSet(P) /\ P # {}
    <2>1. [f \in Q |-> PillarOf[f]] \in Surjection(Q, P)
      BY DEF Surjection, PillarsOf
    <2>2. P # {}
      <3>1. PICK f \in Q : TRUE
        OBVIOUS
      <3>2. PillarOf[f] \in P
        BY DEF PillarsOf
      <3>. QED
        BY <3>2
    <2>. HIDE DEF P
    <2>. QED
      BY <1>1, <2>1, <2>2, FS_Surjection
  <1>3. ASSUME NEW p, NEW u \in [Q -> Nat]
        PROVE  Labelled(Levels(InPillar(Q, p), u))
    <2>1. \A f \in InPillar(Q, p) : [g \in InPillar(Q, p) |-> u[g] + 1][f] \in Nat
      BY DEF InPillar
    <2>. QED
      BY <1>1, <2>1, LabelsAreFinite DEF Levels
  <1>4. ASSUME NEW u \in [Q -> Nat] PROVE Sums(Q, u) \in [P -> Nat]
    <2>1. \A p \in P : Total(Levels(InPillar(Q, p), u)) \in Nat
      BY <1>3, TotalIsNatural
    <2>. QED
      BY <2>1 DEF Sums
  <1>5. Sizes(Q) \in [P -> Nat] /\ \A p \in P : Sizes(Q)[p] > 0
    <2>1. \A p \in P : InPillar(Q, p) # {}
      BY DEF PillarsOf, InPillar
    <2>2. \A p \in P : Cardinality(InPillar(Q, p)) \in Nat /\ Cardinality(InPillar(Q, p)) > 0
      BY <1>1, <2>1, FS_CardinalityType, FS_EmptySet
    <2>. QED
      BY <2>2 DEF Sizes
  <1>6. SUFFICES ASSUME \A x \in Labels(Q, v), y \in Labels(Q, w) : x[1] = y[1] => x[2] <= y[2]
        PROVE  /\ \A x \in Fractions(P, Sums(Q, v), Sizes(Q)),
                     y \in Fractions(P, Sums(Q, w), Sizes(Q)) : x[1] = y[1] => NotAbove(x[2], y[2])
               /\ NotAbove(Average(Fractions(P, Sums(Q, v), Sizes(Q))),
                           Average(Fractions(P, Sums(Q, w), Sizes(Q))))
    BY DEF Follows, Rated
  <1>7. \A f \in Q : v[f] <= w[f]
    <2>1. \A f \in Q : <<f, v[f]>> \in Labels(Q, v) /\ <<f, w[f]>> \in Labels(Q, w)
      BY DEF Labels
    <2>. QED
      BY <1>6, <2>1
  <1>8. ASSUME NEW p \in P PROVE Sums(Q, v)[p] <= Sums(Q, w)[p]
    <2>. DEFINE I == InPillar(Q, p)
                to == [x \in Levels(I, v) |-> <<x[1], w[x[1]] + 1>>]
    <2>0. I \subseteq Q
      BY DEF InPillar
    <2>. HIDE DEF I
    <2>1. to \in Injection(Levels(I, v), Levels(I, w))
      <3>1. /\ \A f \in I : <<f, w[f] + 1>> \in Levels(I, w)
            /\ \A x \in Levels(I, v) : \E f \in I : x = <<f, v[f] + 1>>
        BY DEF Levels, Labels
      <3>2. \A x \in Levels(I, v) : <<x[1], w[x[1]] + 1>> \in Levels(I, w)
        BY <3>1
      <3>3. \A x, y \in Levels(I, v) : x[1] = y[1] => x = y
        BY <3>1
      <3>. QED
        BY <3>2, <3>3 DEF Injection, IsInjective
    <2>2. ASSUME NEW x \in Levels(I, v) PROVE x[2] <= to[x][2]
      <3>1. PICK f \in I : x = <<f, v[f] + 1>>
        BY DEF Levels, Labels
      <3>2. v[f] + 1 <= w[f] + 1
        BY <1>7, <2>0
      <3>. QED
        BY <3>1, <3>2
    <2>3. Labelled(Levels(I, v)) /\ Labelled(Levels(I, w))
      BY <1>3 DEF I
    <2>. HIDE DEF to
    <2>4. Total(Levels(I, v)) <= Total(Levels(I, w))
      BY <2>1, <2>2, <2>3, TotalGrows
    <2>. QED
      BY <2>4 DEF Sums, I
  <1>. HIDE DEF P
  <1>9. ASSUME NEW p \in P
        PROVE  NotAbove(<<Sums(Q, v)[p], Sizes(Q)[p]>>, <<Sums(Q, w)[p], Sizes(Q)[p]>>)
    <2>1. Sums(Q, v)[p] \in Nat /\ Sums(Q, w)[p] \in Nat /\ Sizes(Q)[p] \in Nat
      BY <1>4, <1>5
    <2>. QED
      BY <1>5, <1>8, <2>1, TierGrows
  <1>10. ASSUME NEW x \in Fractions(P, Sums(Q, v), Sizes(Q)),
                NEW y \in Fractions(P, Sums(Q, w), Sizes(Q)), x[1] = y[1]
         PROVE  NotAbove(x[2], y[2])
    <2>1. PICK p \in P : x = <<p, <<Sums(Q, v)[p], Sizes(Q)[p]>>>>
      BY DEF Fractions, Labels
    <2>2. PICK q \in P : y = <<q, <<Sums(Q, w)[q], Sizes(Q)[q]>>>>
      BY DEF Fractions, Labels
    <2>3. p = q
      BY <1>10, <2>1, <2>2
    <2>. QED
      BY <1>9, <2>1, <2>2, <2>3
  <1>11. Sums(Q, v) \in [P -> Nat] /\ Sums(Q, w) \in [P -> Nat]
    BY <1>4
  <1>. QED
    BY <1>2, <1>5, <1>8, <1>10, <1>11, AverageGrows

(* What the code computes from the rows is that: while every question has   *)
(* one answer at most, a pillar's items are its questions.                  *)
ReportsAreRated ==
  \A s \in Systems, c \in Cycles : AnsweredOnce(s, c) =>
    \E v \in [Asked(s, c) -> Nat] : Report(s, c) = Rated(Asked(s, c), v)

LEMMA RowOfQuestion ==
  ASSUME ScoringTypeOK, NEW s \in Systems, NEW c \in Cycles, AnsweredOnce(s, c)
  PROVE  \E row : \A f \in Functions :
           /\ OrUnanswered(AnswersTo(s, c, f)) = {row[f]}
           /\ Shifted(<<f, row[f]>>) = Value(s, c, f) + 1 /\ Value(s, c, f) \in Nat
  <1>. DEFINE first(f) == CHOOSE i \in AnswersTo(s, c, f) : TRUE
              row == [f \in Functions |-> IF AnswersTo(s, c, f) = {} THEN 0 ELSE first(f)]
  <1>1. SUFFICES ASSUME NEW f \in Functions
                 PROVE  /\ OrUnanswered(AnswersTo(s, c, f)) = {row[f]}
                        /\ Shifted(<<f, row[f]>>) = Value(s, c, f) + 1 /\ Value(s, c, f) \in Nat
    OBVIOUS
  <1>2. CASE AnswersTo(s, c, f) = {}
    BY <1>2 DEF OrUnanswered, Shifted, Value
  <1>3. CASE AnswersTo(s, c, f) # {}
    <2>1. first(f) \in AnswersTo(s, c, f)
      BY <1>3
    <2>2. first(f) \in DOMAIN scores /\ first(f) # 0
      BY <2>1, RowsAreNumbered DEF AnswersTo
    <2>3. \A i \in AnswersTo(s, c, f) : i = first(f)
      BY <2>1 DEF AnswersTo, AnsweredOnce, SameFunction
    <2>4. ScoreOf[scores[first(f)].option] \in 0..4
      BY <2>2, RowsAreNumbered DEF Row
    <2>5. row[f] = first(f)
      BY <1>3
    <2>6. Value(s, c, f) = ScoreOf[scores[first(f)].option]
      BY <1>3 DEF Value
    <2>. HIDE DEF first, row
    <2>. QED
      BY <1>3, <2>1, <2>2, <2>3, <2>4, <2>5, <2>6 DEF OrUnanswered, Shifted
  <1>. QED
    BY <1>2, <1>3

LEMMA PillarIsRated ==
  ASSUME ScoringTypeOK, NEW s \in Systems, NEW c \in Cycles, AnsweredOnce(s, c), NEW p
  PROVE  LET I == InPillar(Asked(s, c), p)
             v == [f \in Asked(s, c) |-> Value(s, c, f)]
         IN PillarScore(s, c, p) = <<Total(Levels(I, v)), Cardinality(I)>>
  <1>. DEFINE I == InPillar(Asked(s, c), p)
              v == [f \in Asked(s, c) |-> Value(s, c, f)]
              Shifts == {<<item, Shifted(item)>> : item \in Items(s, c, p)}
  <1>0. I \subseteq Asked(s, c) /\ I \in SUBSET Functions /\ IsFiniteSet(I)
    <2>1. I \subseteq Asked(s, c) /\ I \in SUBSET Functions
      BY DEF InPillar, Asked, Applicable
    <2>. QED
      BY <2>1, FS_Subset
  <1>1. PICK row : \A f \in Functions :
           /\ OrUnanswered(AnswersTo(s, c, f)) = {row[f]}
           /\ Shifted(<<f, row[f]>>) = Value(s, c, f) + 1 /\ Value(s, c, f) \in Nat
    BY RowOfQuestion
  <1>2. Items(s, c, p) = Labels(I, row)
    <2>1. Items(s, c, p) = UNION {{f} \X OrUnanswered(AnswersTo(s, c, f)) : f \in I}
      BY DEF Items, InPillar
    <2>. HIDE DEF I
    <2>2. ASSUME NEW f \in I
          PROVE  {f} \X OrUnanswered(AnswersTo(s, c, f)) = {<<f, row[f]>>}
      <3>1. f \in Functions
        BY <1>0
      <3>2. OrUnanswered(AnswersTo(s, c, f)) = {row[f]}
        BY <1>1, <3>1
      <3>. QED
        BY <3>2
    <2>3. ASSUME NEW item
          PROVE  item \in Items(s, c, p) <=> \E f \in I : item = <<f, row[f]>>
      BY <2>1, <2>2
    <2>. QED
      BY <2>3 DEF Labels
  <1>3. Cardinality(Items(s, c, p)) = Cardinality(I) /\ IsFiniteSet(Items(s, c, p))
    BY <1>0, <1>2, LabelsAreFinite
  <1>4. Shifts = {<<<<f, row[f]>>, v[f] + 1>> : f \in I}
    <2>1. \A f \in I : Shifted(<<f, row[f]>>) = v[f] + 1
      BY <1>0, <1>1
    <2>. HIDE DEF I, v
    <2>2. /\ \A item \in Items(s, c, p) : \E f \in I : item = <<f, row[f]>>
          /\ \A f \in I : <<f, row[f]>> \in Items(s, c, p)
      BY <1>2 DEF Labels
    <2>3. ASSUME NEW x
          PROVE  x \in Shifts <=> \E f \in I : x = <<<<f, row[f]>>, v[f] + 1>>
      BY <2>1, <2>2
    <2>. QED
      BY <2>3
  <1>5. Levels(I, v) = {<<f, v[f] + 1>> : f \in I}
    BY DEF Levels, Labels
  <1>6. \A f \in I : v[f] + 1 \in Nat
    <2>1. \A f \in I : v[f] = Value(s, c, f) /\ f \in Functions
      BY <1>0
    <2>. HIDE DEF I, v
    <2>2. \A f \in Functions : Value(s, c, f) \in Nat
      BY <1>1
    <2>. QED
      BY <2>1, <2>2
  <1>7. Labelled(Levels(I, v))
    <2>1. \A f \in I : [g \in I |-> v[g] + 1][f] \in Nat
      BY <1>6
    <2>. HIDE DEF I, v
    <2>. QED
      BY <1>0, <2>1, LabelsAreFinite DEF Levels
  <1>8. Labelled(Shifts)
    <2>. DEFINE shift == [item \in Items(s, c, p) |-> Shifted(item)]
    <2>1. Shifts = Labels(Items(s, c, p), shift)
      BY DEF Labels
    <2>2. \A item \in Items(s, c, p) : shift[item] \in Nat
      BY <1>0, <1>1, <1>2 DEF Labels
    <2>. HIDE DEF Shifts, shift
    <2>. QED
      BY <1>3, <2>1, <2>2, LabelsAreFinite
  <1>. HIDE DEF I, v, Shifts
  <1>9. Total(Shifts) <= Total(Levels(I, v))
    <2>. DEFINE to == [x \in Shifts |-> <<x[1][1], x[2]>>]
    <2>1. \A x \in Shifts : \E f \in I : x = <<<<f, row[f]>>, v[f] + 1>>
      BY <1>4
    <2>2. \A x \in Shifts : <<x[1][1], x[2]>> \in Levels(I, v)
      BY <1>5, <2>1
    <2>3. \A x, y \in Shifts : x[1][1] = y[1][1] => x = y
      BY <2>1
    <2>4. to \in Injection(Shifts, Levels(I, v))
      BY <2>2, <2>3 DEF Injection, IsInjective
    <2>5. \A x \in Shifts : x[2] <= to[x][2]
      BY <1>8 DEF Labelled
    <2>. HIDE DEF to
    <2>. QED
      BY <1>7, <1>8, <2>4, <2>5, TotalGrows
  <1>10. Total(Levels(I, v)) <= Total(Shifts)
    <2>. DEFINE to == [x \in Levels(I, v) |-> <<<<x[1], row[x[1]]>>, x[2]>>]
    <2>1. \A x \in Levels(I, v) : \E f \in I : x = <<f, v[f] + 1>>
      BY <1>5
    <2>2. \A x \in Levels(I, v) : <<<<x[1], row[x[1]]>>, x[2]>> \in Shifts
      BY <1>4, <2>1
    <2>3. \A x, y \in Levels(I, v) : x[1] = y[1] => x = y
      BY <2>1
    <2>4. to \in Injection(Levels(I, v), Shifts)
      BY <2>2, <2>3 DEF Injection, IsInjective
    <2>5. \A x \in Levels(I, v) : x[2] <= to[x][2]
      BY <1>7 DEF Labelled
    <2>. HIDE DEF to
    <2>. QED
      BY <1>7, <1>8, <2>4, <2>5, TotalGrows
  <1>11. Total(Shifts) = Total(Levels(I, v))
    BY <1>7, <1>8, <1>9, <1>10, TotalIsNatural
  <1>12. PillarScore(s, c, p) = <<Total(Shifts), Cardinality(Items(s, c, p))>>
    BY DEF PillarScore, Shifts
  <1>. QED
    BY <1>3, <1>11, <1>12 DEF I, v

LEMMA ReportsDoRate == ScoringTypeOK => ReportsAreRated
  <1>. SUFFICES ASSUME ScoringTypeOK, NEW s \in Systems, NEW c \in Cycles, AnsweredOnce(s, c)
                PROVE  \E v \in [Asked(s, c) -> Nat] : Report(s, c) = Rated(Asked(s, c), v)
    BY DEF ReportsAreRated
  <1>. DEFINE Q == Asked(s, c)
              v == [f \in Q |-> Value(s, c, f)]
  <1>1. v \in [Q -> Nat]
    BY RowOfQuestion DEF Asked, Applicable
  <1>2. Pillars(s, c) = PillarsOf(Q)
    BY DEF Pillars, PillarsOf
  <1>3. \A p \in PillarsOf(Q) : PillarScore(s, c, p) = <<Sums(Q, v)[p], Sizes(Q)[p]>>
    BY PillarIsRated DEF Sums, Sizes
  <1>4. {<<f, Value(s, c, f)>> : f \in Asked(s, c)} = Labels(Q, v)
    BY DEF Labels
  <1>. HIDE DEF v
  <1>5. PillarScores(s, c) = Fractions(PillarsOf(Q), Sums(Q, v), Sizes(Q))
    BY <1>2, <1>3 DEF PillarScores, Fractions, Labels
  <1>6. Report(s, c) = Rated(Q, v)
    BY <1>4, <1>5 DEF Report, Rated, SystemScore
  <1>. QED
    BY <1>1, <1>6

(* No write lowers the scores of a system whose answers did not get worse,  *)
(* nor raises those of one whose answers did not get better: for every      *)
(* questionnaire, of however many questions in however many pillars,        *)
(* answering one at any level never costs a system anything                 *)
(* (buildPillarScoresSQL, Tier).                                            *)
THEOREM ScoresDoFollowAnswers == ScoringSpec => ScoresFollowAnswers
  <1>1. ASSUME ScoringTypeOK, ScoringTypeOK', ReportsAreRated, ReportsAreRated',
               NEW s \in Systems, NEW c \in Cycles,
               AnsweredOnce(s, c), AnsweredOnce(s, c)', Asked(s, c) # {}, Asked(s, c)' = Asked(s, c)
        PROVE  Follows(Report(s, c), Report(s, c)') /\ Follows(Report(s, c)', Report(s, c))
    <2>. DEFINE Q == Asked(s, c)
    <2>1. Q \in SUBSET Functions
      BY DEF Asked, Applicable
    <2>2. PICK v \in [Q -> Nat] : Report(s, c) = Rated(Q, v)
      BY <1>1 DEF ReportsAreRated
    <2>3. PICK w \in [Q -> Nat] : Report(s, c)' = Rated(Q, w)
      BY <1>1 DEF ReportsAreRated
    <2>. HIDE DEF Q
    <2>4. Q # {}
      BY <1>1 DEF Q
    <2>5. Follows(Rated(Q, v), Rated(Q, w)) /\ Follows(Rated(Q, w), Rated(Q, v))
      BY <2>1, <2>4, RatedGrows
    <2>. QED
      BY <2>2, <2>3, <2>5
  <1>2. ASSUME ScoringTypeOK, ScoringTypeOK', ReportsAreRated, ReportsAreRated'
        PROVE  \A s \in Systems, c \in Cycles :
                 /\ AnsweredOnce(s, c) /\ AnsweredOnce(s, c)'
                 /\ Asked(s, c) # {} /\ Asked(s, c)' = Asked(s, c)
                 => \A old \in {Report(s, c)}, new \in {Report(s, c)'} :
                      Follows(old, new) /\ Follows(new, old)
    BY <1>1, <1>2
  <1>. QED
    BY <1>2, ReportsDoRate, ScoringTypesHold, PTL DEF ScoresFollowAnswers

=============================================================================
