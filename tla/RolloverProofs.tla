--------------------------- MODULE RolloverProofs ---------------------------
(***************************************************************************)
(* Theorems of Rollover, for any number of requests, every set of systems  *)
(* and options, whatever the tables hold, whoever answers or edits         *)
(* meanwhile and whichever statement fails.                                *)
(*                                                                         *)
(* The argument: rows of scores are never removed and never moved, and     *)
(* every request has a data call of its own to copy into.  So a row that   *)
(* was there when a request chose its source is there when it copies; what *)
(* it carried stays; and nobody else's rows are in its way.                *)
(***************************************************************************)
EXTENDS Rollover, FiniteSetTheorems, WellFoundedInduction, TLAPS

Ids(rows) == {s.id : s \in rows}

(* A row keeps what it says of whom, in which data call, and from where.     *)
Same(s, t) ==
  /\ t.id = s.id /\ t.call = s.call /\ t.system = s.system
  /\ t.option = s.option /\ t.origin = s.origin

(* The identifiers are given in order, and a row is copied from an earlier.  *)
Table ==
  /\ scores \subseteq Score /\ IsFiniteSet(scores)
  /\ \A s \in scores : s.id \in 1 .. Cardinality(scores) /\ s.origin < s.id
  /\ \A s, t \in scores : s.id = t.id => s = t
  /\ \A s \in scores : s.call \in DOMAIN calls

(* A request that got as far as its copy has a data call that it inserted,   *)
(* and shares it with nobody.                                                *)
Inserted(c) ==
  /\ target[c] = 0 <=> at[c] \in {"idle", "refused"}
  /\ target[c] \notin DOMAIN SeedCalls
  /\ path[c] # "none" => at[c] \in {"diagnose", "ended", "crashed"}
  /\ at[c] = "diagnose" => path[c] = "override"
  /\ late[c] # {} => at[c] \in {"copy", "ended", "crashed"}
Requests ==
  /\ Len(SeedCalls) <= Len(calls)
  /\ \A c \in Creators : Inserted(c)
  /\ \A b, c \in Creators : target[b] = target[c] /\ target[b] # 0 => b = c

(* Answers are carried only into the data call of a request that copied.     *)
CarriedByItsRequest ==
  \A s \in scores : IsCarried(s) => \E c \in Creators : target[c] = s.call /\ path[c] # "none"

(* Only rows that were loaded resolve to nothing.                            *)
DeadWereLoaded == \A s \in scores : Resolves(s) \/ s.call \in DOMAIN SeedCalls

(* What is due is still in the source; once the override has copied, what    *)
(* resolves has arrived.                                                     *)
DueOK(c) ==
  /\ \A i \in due[c] : i \in 1 .. Cardinality(scores)
  /\ at[c] \in {"idle", "refused", "sources", "gate3", "previous"} => due[c] = {}
  /\ \A s \in scores : s.id \in due[c] =>
       /\ at[c] \in {"override", "diagnose"} => s \in Assigned(source[c])
       /\ at[c] \in {"count", "copy"} => s \in Of(source[c].cms)
       /\ at[c] = "diagnose" /\ Resolves(s) => Arrived(s, target[c])

(* When the copy begins, the count is of all rows but the late answers, and  *)
(* those resolve; or the source was created by a request and nothing in it   *)
(* is dead.                                                                  *)
CountOK(c) ==
  at[c] = "copy" =>
    \/ source[c].cms \notin DOMAIN SeedCalls
    \/ /\ late[c] \subseteq Ids(Resolving(Of(source[c].cms)))
       /\ tally[c] = Cardinality(Ids(Of(source[c].cms)) \ late[c])

(* OverrideKeepsLineages and SilentLossIsBounded, of one request.            *)
KeepsLineages(c) ==
  path[c] = "override" =>
    \A s \in Of(target[c]) : IsCarried(s) =>
      /\ \E t \in Assigned(source[c]) : t.id = s.origin
      /\ \A x \in Of(target[c]) :
           IsCarried(x) /\ x.system = s.system /\ FunctionOf[x.option] = FunctionOf[s.option]
             => x = s
LossBounded(c) ==
  Ended(c) /\ target[c] \notin alarms \cup remarks =>
    Cardinality(Missing(c)) <= Cardinality(late[c])

CopyInv ==
  /\ RolloverTypeOK /\ Table /\ Requests /\ CarriedByItsRequest /\ DeadWereLoaded
  /\ \A c \in Creators : DueOK(c) /\ CountOK(c) /\ KeepsLineages(c) /\ LossBounded(c)

(* Answers of data call d are in e, or about to be copied into it.           *)
Linked(d, e) ==
  \/ \E s, t \in scores : IsCarried(s) /\ t.id = s.origin /\ t.call = d /\ s.call = e
  \/ \E c \in Creators :
       /\ target[c] = e
       /\ \/ at[c] \in {"gate3", "override"} /\ d \in {source[c].cms, source[c].other}
          \/ at[c] \in {"count", "copy"} /\ d = source[c].cms

(* No edit moves a data call before one whose answers it has, or is getting. *)
OrderStands ==
  \A d, e \in DOMAIN calls : Linked(d, e) /\ Earlier(d, e) => Earlier(d, e)'

LinkedInOrder ==
  \A d, e \in Nat : Linked(d, e) => d \in DOMAIN calls /\ e \in DOMAIN calls /\ Earlier(d, e)

-----------------------------------------------------------------------------
(* Finite sets. *)

LEMMA Paired ==
  ASSUME NEW S, IsFiniteSet(S), NEW T, NEW f \in [S -> T],
         \A t \in T : \E s \in S : f[s] = t,
         \A s, u \in S : f[s] = f[u] => s = u
  PROVE  IsFiniteSet(T) /\ Cardinality(T) = Cardinality(S)
  <1>1. f \in Bijection(S, T)
    BY DEF Bijection, Injection, Surjection, IsInjective
  <1>2. ExistsBijection(S, T)
    BY <1>1 DEF ExistsBijection
  <1>. QED
    BY <1>2, FS_Bijection

(* A finite set has a greatest element in every order.                       *)
LEMMA Greatest ==
  ASSUME NEW S, IsFiniteSet(S), S # {}, NEW R, \A x \in S : <<x, x>> \notin R,
         \A x, y, z \in S : <<x, y>> \in R /\ <<y, z>> \in R => <<x, z>> \in R
  PROVE  \E x \in S : \A y \in S : <<x, y>> \notin R
  <1>. DEFINE Above(x) == {y \in S : <<x, y>> \in R}
              T == {Above(x) : x \in S}
  <1>1. T \subseteq FiniteSubsetsOf(S) /\ T # {}
    <2>1. \A x \in S : Above(x) \in FiniteSubsetsOf(S)
      <3>1. \A x \in S : Above(x) \in SUBSET S
        OBVIOUS
      <3>. HIDE DEF Above
      <3>. QED
        BY <3>1, FS_Subset DEF FiniteSubsetsOf
    <2>. HIDE DEF Above
    <2>. QED
      BY <2>1
  <1>2. IsWellFoundedOn(StrictSubsetOrdering(S), FiniteSubsetsOf(S))
    BY FS_StrictSubsetOrderingWellFounded
  <1>3. PICK U \in T : \A V \in T : <<V, U>> \notin StrictSubsetOrdering(S)
    <2>. HIDE DEF T
    <2>. QED
      BY <1>1, <1>2, WFMin
  <1>4. PICK x \in S : U = Above(x)
    BY <1>3
  <1>5. ASSUME NEW y \in S, <<x, y>> \in R PROVE FALSE
    <2>1. Above(y) \subseteq Above(x) /\ y \in Above(x) /\ y \notin Above(y)
      BY <1>5
    <2>2. Above(y) \subseteq S /\ Above(x) \subseteq S
      OBVIOUS
    <2>3. <<Above(y), Above(x)>> \in StrictSubsetOrdering(S)
      <3>. HIDE DEF Above
      <3>. QED
        BY <2>1, <2>2 DEF StrictSubsetOrdering
    <2>4. Above(y) \in T
      OBVIOUS
    <2>. QED
      BY <1>3, <1>4, <2>3, <2>4
  <1>. QED
    BY <1>5

(* A greatest number among finitely many.                                    *)
LEMMA GreatestNumber ==
  ASSUME NEW S, IsFiniteSet(S), S # {}, S \subseteq Nat
  PROVE  \E x \in S : \A y \in S : y <= x
  <1>. DEFINE R == {p \in S \X S : p[1] < p[2]}
  <1>1. \A x \in S : <<x, x>> \notin R
    OBVIOUS
  <1>2. \A x, y, z \in S : <<x, y>> \in R /\ <<y, z>> \in R => <<x, z>> \in R
    OBVIOUS
  <1>3. \A x, y \in S : <<x, y>> \notin R => y <= x
    OBVIOUS
  <1>. HIDE DEF R
  <1>4. \E x \in S : \A y \in S : <<x, y>> \notin R
    BY <1>1, <1>2, Greatest
  <1>. QED
    BY <1>3, <1>4

(* Of the finite set A, R has arrived; L is a part of it that is not counted. *)
LEMMA Excess ==
  ASSUME NEW A, IsFiniteSet(A), NEW R \in SUBSET A, NEW L \in SUBSET R,
         Cardinality(A \ L) <= Cardinality(R)
  PROVE  Cardinality(A \ R) <= Cardinality(L)
  <1>1. IsFiniteSet(R) /\ IsFiniteSet(L)
    BY FS_Subset
  <1>2. /\ Cardinality(A) \in Nat /\ Cardinality(R) \in Nat /\ Cardinality(L) \in Nat
    BY <1>1, FS_CardinalityType
  <1>3. A \cap R = R /\ A \cap L = L
    OBVIOUS
  <1>4. /\ Cardinality(A \ R) = Cardinality(A) - Cardinality(R)
        /\ Cardinality(A \ L) = Cardinality(A) - Cardinality(L)
    BY <1>3, FS_Difference
  <1>. QED
    BY <1>2, <1>4

-----------------------------------------------------------------------------
(* The tables. *)

LEMMA Rows ==
  ASSUME Table
  PROVE  /\ Cardinality(scores) \in Nat
         /\ \A s \in scores :
              /\ s.id \in Nat /\ s.call \in Nat /\ s.system \in FismaSystems /\ s.option \in Options
              /\ s.origin \in Nat /\ s.status \in {"not_started", "done"}
         /\ \A rows \in SUBSET scores : IsFiniteSet(rows) /\ Cardinality(rows) \in Nat
  <1>1. Cardinality(scores) \in Nat
    BY FS_CardinalityType DEF Table
  <1>2. \A rows \in SUBSET scores : IsFiniteSet(rows) /\ Cardinality(rows) \in Nat
    BY FS_Subset, FS_CardinalityType DEF Table
  <1>. QED
    BY <1>1, <1>2 DEF Table, Score

(* Counting rows is counting their identifiers.                              *)
LEMMA IdsCount ==
  ASSUME Table, NEW rows \in SUBSET scores
  PROVE  Cardinality(Ids(rows)) = Cardinality(rows)
  <1>. DEFINE f == [s \in rows |-> s.id]
  <1>1. f \in [rows -> Ids(rows)]
    BY DEF Ids
  <1>2. \A i \in Ids(rows) : \E s \in rows : f[s] = i
    BY DEF Ids
  <1>3. \A s, u \in rows : f[s] = f[u] => s = u
    BY DEF Table
  <1>. HIDE DEF f
  <1>. QED
    BY <1>1, <1>2, <1>3, Rows, Paired

(* The places of the rows copied together differ, and follow the last row's. *)
LEMMA Places ==
  ASSUME Table, NEW rows \in SUBSET scores, NEW s \in rows, NEW t \in rows
  PROVE  /\ Place(s, rows) \in Cardinality(scores) + 1 .. Cardinality(scores) + Cardinality(rows)
         /\ Place(s, rows) = Place(t, rows) => s = t
  <1>. DEFINE Upto(x) == {y \in rows : y.id <= x.id}
  <1>1. \A x \in rows : x.id \in Nat /\ x \in scores
    BY Rows
  <1>2. \A x \in rows : /\ Upto(x) \in SUBSET rows /\ x \in Upto(x) /\ IsFiniteSet(Upto(x))
                        /\ Cardinality(Upto(x)) \in Nat /\ Cardinality(Upto(x)) <= Cardinality(rows)
                        /\ Cardinality(Upto(x)) # 0
    <2>1. \A x \in rows : Upto(x) \in SUBSET rows /\ x \in Upto(x)
      BY <1>1
    <2>2. \A x \in rows : Upto(x) \in SUBSET scores
      OBVIOUS
    <2>. HIDE DEF Upto
    <2>. QED
      BY <2>1, <2>2, Rows, FS_Subset, FS_EmptySet
  <1>3. ASSUME NEW x \in rows, NEW y \in rows, x.id < y.id
        PROVE  Cardinality(Upto(x)) # Cardinality(Upto(y))
    <2>1. Upto(x) \in SUBSET Upto(y) /\ y \in Upto(y) /\ y \notin Upto(x)
      BY <1>1, <1>3
    <2>. HIDE DEF Upto
    <2>. QED
      BY <1>2, <2>1, FS_Subset
  <1>4. s.id # t.id => Cardinality(Upto(s)) # Cardinality(Upto(t))
    <2>. HIDE DEF Upto
    <2>. QED
      BY <1>1, <1>3
  <1>5. s.id = t.id => s = t
    BY <1>1 DEF Table
  <1>6. Place(s, rows) = Cardinality(scores) + Cardinality(Upto(s))
        /\ Place(t, rows) = Cardinality(scores) + Cardinality(Upto(t))
    BY DEF Place
  <1>7. Cardinality(scores) \in Nat /\ Cardinality(rows) \in Nat
    BY Rows
  <1>. HIDE DEF Upto
  <1>. QED
    BY <1>2, <1>4, <1>5, <1>6, <1>7

(* What INSERT ... SELECT adds.                                              *)
Inserts(new, rows, d) ==
  /\ new \subseteq Score /\ IsFiniteSet(new)
  /\ \A n \in new :
       /\ n.id \in Cardinality(scores) + 1 .. Cardinality(scores) + Cardinality(new)
       /\ n.call = d /\ n.status = "not_started" /\ n.origin < n.id /\ n.origin # 0
       /\ \E s \in rows : n.origin = s.id /\ n.system = s.system /\ n.option = s.option
  /\ \A s \in rows : \E n \in new :
       n.origin = s.id /\ n.system = s.system /\ n.option = s.option
  /\ \A m, n \in new : m.id = n.id \/ m.origin = n.origin => m = n

LEMMA CarriedRows ==
  ASSUME Table, NEW rows \in SUBSET scores, NEW d \in Nat
  PROVE  Inserts(Carried(rows, d), rows, d)
  <1>. DEFINE Copied(s) == [id |-> Place(s, rows), call |-> d, system |-> s.system,
                            option |-> s.option, status |-> "not_started", origin |-> s.id]
              f == [s \in rows |-> Copied(s)]
              new == Carried(rows, d)
  <1>1. new = {Copied(s) : s \in rows}
    BY DEF Carried
  <1>2. Cardinality(scores) \in Nat /\ Cardinality(rows) \in Nat /\ IsFiniteSet(rows)
    BY Rows
  <1>3. ASSUME NEW s \in rows
        PROVE  /\ s.id \in 1 .. Cardinality(scores) /\ Copied(s) \in Score
               /\ Place(s, rows) \in Cardinality(scores) + 1 .. Cardinality(scores) + Cardinality(rows)
    <2>1. Place(s, rows) \in Cardinality(scores) + 1 .. Cardinality(scores) + Cardinality(rows)
      BY Places
    <2>2. s.id \in 1 .. Cardinality(scores) /\ s.system \in FismaSystems /\ s.option \in Options
      BY Rows DEF Table
    <2>3. Place(s, rows) \in Nat /\ s.id \in Nat
      BY <1>2, <2>1, <2>2
    <2>. QED
      BY <2>1, <2>2, <2>3 DEF Score
  <1>4. \A s \in rows :
          /\ Copied(s).id = Place(s, rows) /\ Copied(s).call = d /\ Copied(s).system = s.system
          /\ Copied(s).option = s.option /\ Copied(s).status = "not_started"
          /\ Copied(s).origin = s.id
    OBVIOUS
  <1>5. \A s, t \in rows : Place(s, rows) = Place(t, rows) \/ s.id = t.id => s = t
    BY Places DEF Table
  <1>. HIDE DEF Copied, new
  <1>6. IsFiniteSet(new) /\ Cardinality(new) = Cardinality(rows)
    <2>1. f \in [rows -> new] /\ \A n \in new : \E s \in rows : f[s] = n
      BY <1>1
    <2>2. \A s, u \in rows : f[s] = f[u] => s = u
      <3>1. \A s, u \in rows : Copied(s) = Copied(u) => s = u
        BY <1>4, <1>5
      <3>. QED
        BY <3>1
    <2>. HIDE DEF f
    <2>. QED
      BY <1>2, <2>1, <2>2, Paired
  <1>7. new \subseteq Score
    BY <1>1, <1>3
  <1>8. ASSUME NEW n \in new
        PROVE  /\ n.id \in Cardinality(scores) + 1 .. Cardinality(scores) + Cardinality(new)
               /\ n.call = d /\ n.status = "not_started" /\ n.origin < n.id /\ n.origin # 0
               /\ \E s \in rows : n.origin = s.id /\ n.system = s.system /\ n.option = s.option
    <2>1. PICK s \in rows : n = Copied(s)
      BY <1>1
    <2>. QED
      BY <1>2, <1>3, <1>4, <1>6, <2>1
  <1>9. \A s \in rows : \E n \in new : n.origin = s.id /\ n.system = s.system /\ n.option = s.option
    BY <1>1, <1>4
  <1>10. \A m, n \in new : m.id = n.id \/ m.origin = n.origin => m = n
    BY <1>1, <1>4, <1>5
  <1>11. Inserts(new, rows, d)
    BY <1>6, <1>7, <1>8, <1>9, <1>10 DEF Inserts
  <1>. QED
    BY <1>11 DEF new

(* What a step does to the table: rows stay what they are, but for their     *)
(* status, and new ones come after them.                                     *)
Grown(new) ==
  /\ Cardinality(scores) \in Nat /\ Cardinality(scores') \in Nat
  /\ Cardinality(scores) <= Cardinality(scores')
  /\ \A s \in scores : \E t \in scores' : Same(s, t)
  /\ \A t \in scores' : t \in new \/ \E s \in scores : Same(s, t)
  /\ \A t \in new : t \in scores' /\ t.id > Cardinality(scores)

LEMMA AddRows ==
  ASSUME Table, DOMAIN calls \subseteq DOMAIN calls', NEW new \in SUBSET Score, IsFiniteSet(new),
         \A n \in new :
           /\ n.id \in Cardinality(scores) + 1 .. Cardinality(scores) + Cardinality(new)
           /\ n.origin < n.id /\ n.call \in DOMAIN calls',
         \A m, n \in new : m.id = n.id => m = n,
         scores' = scores \cup new
  PROVE  Table' /\ Grown(new)
  <1>1. /\ Cardinality(scores) \in Nat /\ Cardinality(new) \in Nat
        /\ \A s \in scores : s.id \in 1 .. Cardinality(scores)
    BY Rows, FS_CardinalityType DEF Table
  <1>2. \A s \in scores, n \in new : s.id # n.id
    BY <1>1
  <1>3. scores \cap new = {}
    BY <1>2
  <1>4. IsFiniteSet(scores') /\ Cardinality(scores') = Cardinality(scores) + Cardinality(new)
    <2>1. Cardinality(scores \cap new) = 0
      BY <1>3, FS_EmptySet
    <2>2. IsFiniteSet(scores)
      BY DEF Table
    <2>3. /\ IsFiniteSet(scores \cup new)
          /\ Cardinality(scores \cup new) =
               Cardinality(scores) + Cardinality(new) - Cardinality(scores \cap new)
      BY <2>2, FS_Union
    <2>. QED
      BY <1>1, <2>1, <2>3
  <1>5. \A s \in scores' : s.id \in 1 .. Cardinality(scores') /\ s.origin < s.id
    BY <1>1, <1>4 DEF Table
  <1>6. \A s, t \in scores' : s.id = t.id => s = t
    BY <1>2 DEF Table
  <1>7. Table'
    BY <1>4, <1>5, <1>6 DEF Table
  <1>8. \A s \in scores : Same(s, s)
    BY DEF Same
  <1>9. Grown(new)
    BY <1>1, <1>4, <1>8 DEF Grown
  <1>. QED
    BY <1>7, <1>9

LEMMA SameRows ==
  ASSUME Table, DOMAIN calls \subseteq DOMAIN calls', scores' = scores PROVE Table' /\ Grown({})
  <1>1. \A s \in scores : Same(s, s)
    BY DEF Same
  <1>. QED
    BY <1>1, Rows DEF Table, Grown

LEMMA ConfirmRows ==
  ASSUME Table, NEW s \in scores, Confirm(s)
  PROVE  /\ Table' /\ Grown({}) /\ scores' \subseteq Score
         /\ \A t \in scores' : t \in scores \/ (t.id = s.id /\ t.status = "done")
  <1>. DEFINE done == [s EXCEPT !.status = "done"]
  <1>1. scores' = (scores \ {s}) \cup {done}
    BY DEF Confirm
  <1>2. /\ done \in Score /\ Same(s, done) /\ done.status = "done"
    BY DEF Table, Score, Same
  <1>. HIDE DEF done
  <1>3. IsFiniteSet(scores') /\ Cardinality(scores') = Cardinality(scores)
    <2>1. done \notin scores \ {s}
      BY <1>2 DEF Table, Same
    <2>2. Cardinality(scores) \in Nat /\ Cardinality(scores) # 0
      BY Rows, FS_EmptySet DEF Table
    <2>3. /\ IsFiniteSet(scores \ {s}) /\ Cardinality(scores \ {s}) = Cardinality(scores) - 1
      BY FS_RemoveElement DEF Table
    <2>. QED
      BY <1>1, <2>1, <2>2, <2>3, FS_AddElement
  <1>4. \A t \in scores' : \E u \in scores : Same(u, t) /\ (t = u \/ (u = s /\ t = done))
    BY <1>1, <1>2 DEF Same
  <1>5. \A u \in scores : \E t \in scores' : Same(u, t)
    BY <1>1, <1>2 DEF Same
  <1>6. calls' = calls
    BY DEF Confirm
  <1>7. Table'
    <2>1. scores' \subseteq Score
      BY <1>1, <1>2 DEF Table
    <2>2. \A t \in scores' : t.id \in 1 .. Cardinality(scores') /\ t.origin < t.id /\ t.call \in DOMAIN calls'
      BY <1>3, <1>4, <1>6 DEF Table, Same
    <2>3. ASSUME NEW t \in scores', NEW u \in scores', t.id = u.id PROVE t = u
      <3>1. PICK v \in scores : Same(v, t) /\ (t = v \/ (v = s /\ t = done))
        BY <1>4
      <3>2. PICK w \in scores : Same(w, u) /\ (u = w \/ (w = s /\ u = done))
        BY <1>4
      <3>3. v = w
        BY <2>3, <3>1, <3>2 DEF Same, Table
      <3>4. ~(s \in scores' /\ s # done)
        BY <1>1
      <3>. QED
        BY <3>1, <3>2, <3>3, <3>4
    <2>. QED
      BY <1>3, <2>1, <2>2, <2>3 DEF Table
  <1>8. Grown({})
    BY <1>3, <1>4, <1>5, Rows DEF Grown
  <1>. QED
    BY <1>1, <1>2, <1>7, <1>8 DEF Table, Same

-----------------------------------------------------------------------------
(* The data calls. *)

LEMMA Calls ==
  ASSUME RolloverTypeOK
  PROVE  /\ DOMAIN calls = 1 .. Len(calls) /\ Len(calls) \in Nat
         /\ \A d \in DOMAIN calls : d \in Nat /\ calls[d].deadline \in Nat /\ calls[d].name \in Names
  <1>1. /\ DOMAIN calls = 1 .. Len(calls) /\ Len(calls) \in Nat
        /\ \A d \in DOMAIN calls : calls[d] \in Call
    BY DEF RolloverTypeOK
  <1>. QED
    BY <1>1 DEF Call

LEMMA NamedIsThere ==
  ASSUME NEW name, NameTaken(name) PROVE Named(name) \in DOMAIN calls
  BY DEF NameTaken, Named

(* There is a latest data call among the earlier ones.                       *)
LEMMA PreviousIsEarlier ==
  ASSUME RolloverTypeOK, NEW e \in DOMAIN calls, Candidates(e) # {}
  PROVE  Previous(e) \in DOMAIN calls /\ Earlier(Previous(e), e)
  <1>. DEFINE R == {p \in Candidates(e) \X Candidates(e) : Before(p[1], p[2], calls[p[2]].deadline)}
  <1>1. \A d \in Candidates(e) : d \in DOMAIN calls /\ d \in Nat /\ calls[d].deadline \in Nat
    BY Calls DEF Candidates
  <1>2. IsFiniteSet(Candidates(e))
    <2>1. IsFiniteSet(DOMAIN calls)
      BY Calls, FS_Interval
    <2>. QED
      BY <2>1, FS_Subset DEF Candidates
  <1>3. \A x \in Candidates(e) : <<x, x>> \notin R
    BY <1>1 DEF Before
  <1>4. \A x, y, z \in Candidates(e) : <<x, y>> \in R /\ <<y, z>> \in R => <<x, z>> \in R
    BY <1>1 DEF Before
  <1>5. \A d, x \in Candidates(e) : <<d, x>> \notin R => x = d \/ Before(x, d, calls[d].deadline)
    BY <1>1 DEF Before
  <1>. HIDE DEF R
  <1>6. \E d \in Candidates(e) : \A x \in Candidates(e) : <<d, x>> \notin R
    BY <1>2, <1>3, <1>4, Greatest
  <1>7. \E d \in Candidates(e) : \A x \in Candidates(e) : x = d \/ Before(x, d, calls[d].deadline)
    BY <1>5, <1>6
  <1>8. Previous(e) \in Candidates(e)
    BY <1>7 DEF Previous
  <1>. QED
    BY <1>8 DEF Candidates

(* The requests' own steps, and those of the others.                         *)
Acts(c) ==
  \/ \E w \in Wanted : Post(c, w)
  \/ Sources(c) \/ Gate3(c) \/ Override(c) \/ Diagnose(c)
  \/ FindPrevious(c) \/ Count(c) \/ Copy(c) \/ Crash(c)

(* Data calls are only added.                                                *)
LEMMA CallsStay ==
  ASSUME RolloverTypeOK, [RolloverNext]_rolloverVars
  PROVE  /\ calls' \in Seq(Call) /\ Len(calls) <= Len(calls') /\ DOMAIN calls \subseteq DOMAIN calls'
         /\ Len(calls') \in Nat /\ DOMAIN calls' = 1 .. Len(calls')
  <1>1. CASE UNCHANGED calls
    BY <1>1, Calls DEF RolloverTypeOK
  <1>2. CASE \E c \in Creators : \E w \in Wanted : Post(c, w)
    <2>1. PICK c \in Creators, w \in Wanted : Post(c, w)
      BY <1>2
    <2>2. CASE calls' = Append(calls, w)
      <3>1. w \in Call
        BY BoundsAssumption
      <3>. QED
        BY <2>2, <3>1, Calls DEF RolloverTypeOK
    <2>. QED
      BY <1>1, <2>1, <2>2 DEF Post
  <1>3. CASE \E e \in Edits : Put(e)
    <2>1. PICK e \in Edits : Put(e)
      BY <1>3
    <2>2. [name |-> e.name, deadline |-> e.deadline] \in Call
      BY BoundsAssumption DEF Call
    <2>3. calls' \in Seq(Call) /\ Len(calls') = Len(calls)
      <3>1. calls \in Seq(Call) /\ e.id \in 1 .. Len(calls)
        BY <2>1, Calls DEF RolloverTypeOK, Put
      <3>. QED
        BY <2>1, <2>2, <3>1 DEF Put
    <2>. QED
      BY <2>3, Calls
  <1>4. ASSUME NEW c \in Creators, Acts(c), ~\E w \in Wanted : Post(c, w) PROVE UNCHANGED calls
    BY <1>4 DEF Acts, Sources, Gate3, Override, Diagnose, FindPrevious, Count, Copy, Crash
  <1>5. ASSUME NEW a \in Answers, Answer(a) PROVE UNCHANGED calls
    BY <1>5 DEF Answer
  <1>6. ASSUME NEW s \in scores, Confirm(s) PROVE UNCHANGED calls
    BY <1>6 DEF Confirm
  <1>. QED
    BY <1>1, <1>2, <1>3, <1>4, <1>5, <1>6 DEF RolloverNext, Acts, rolloverVars

-----------------------------------------------------------------------------
(* One request acts at a time. *)

Still(b) ==
  /\ at'[b] = at[b] /\ target'[b] = target[b] /\ source'[b] = source[b]
  /\ tally'[b] = tally[b] /\ due'[b] = due[b] /\ path'[b] = path[b]

LEMMA OthersStill ==
  ASSUME RolloverTypeOK, NEW c \in Creators, Acts(c), NEW b \in Creators \ {c}
  PROVE  Still(b) /\ late'[b] = late[b]
  <1>1. \/ UNCHANGED at
        \/ \E label : at' = [at EXCEPT ![c] = label]
    BY DEF Acts, Post, Sources, Gate3, Override, Diagnose, FindPrevious, Count, Copy, Crash, MoveTo
  <1>2. at'[b] = at[b]
    BY <1>1 DEF RolloverTypeOK
  <1>3. \/ UNCHANGED target
        \/ \E d : target' = [target EXCEPT ![c] = d]
    BY DEF Acts, Post, Sources, Gate3, Override, Diagnose, FindPrevious, Count, Copy, Crash
  <1>4. target'[b] = target[b]
    BY <1>3 DEF RolloverTypeOK
  <1>5. \/ UNCHANGED source
        \/ \E src : source' = [source EXCEPT ![c] = src]
    BY DEF Acts, Post, Sources, Gate3, Override, Diagnose, FindPrevious, Count, Copy, Crash
  <1>6. source'[b] = source[b]
    BY <1>5 DEF RolloverTypeOK
  <1>7. \/ UNCHANGED tally
        \/ \E n : tally' = [tally EXCEPT ![c] = n]
    BY DEF Acts, Post, Sources, Gate3, Override, Diagnose, FindPrevious, Count, Copy, Crash
  <1>8. tally'[b] = tally[b]
    BY <1>7 DEF RolloverTypeOK
  <1>9. \/ UNCHANGED due
        \/ \E ids : due' = [due EXCEPT ![c] = ids]
    BY DEF Acts, Post, Sources, Gate3, Override, Diagnose, FindPrevious, Count, Copy, Crash
  <1>10. due'[b] = due[b]
    BY <1>9 DEF RolloverTypeOK
  <1>11. \/ UNCHANGED path
         \/ \E p : path' = [path EXCEPT ![c] = p]
    BY DEF Acts, Post, Sources, Gate3, Override, Diagnose, FindPrevious, Count, Copy, Crash
  <1>12. path'[b] = path[b]
    BY <1>11 DEF RolloverTypeOK
  <1>13. late' = late
    BY DEF Acts, Post, Sources, Gate3, Override, Diagnose, FindPrevious, Count, Copy, Crash
  <1>. QED
    BY <1>2, <1>4, <1>6, <1>8, <1>10, <1>12, <1>13 DEF Still

-----------------------------------------------------------------------------
(* Types. *)
TypeInv == RolloverTypeOK /\ Table /\ Requests

LEMMA TypeInvInit == RolloverInit => TypeInv
  <1>. SUFFICES ASSUME RolloverInit PROVE TypeInv
    OBVIOUS
  <1>1. RolloverTypeOK
    <2>1. DOMAIN calls = 1 .. Len(calls) /\ calls \in Seq(Call)
      BY TablesAssumption DEF RolloverInit
    <2>2. at \in [Creators -> Label] /\ path \in [Creators -> Paths]
      BY DEF RolloverInit, Label, Paths
    <2>3. source \in [Creators -> Source]
      BY DEF RolloverInit, Source
    <2>. QED
      BY <2>1, <2>2, <2>3, TablesAssumption DEF RolloverInit, RolloverTypeOK
  <1>2. Table
    <2>1. \A s \in SeedScores : s.id \in 1 .. Cardinality(SeedScores) /\ s.origin = 0
      BY TablesAssumption
    <2>2. \A s \in SeedScores : s.origin < s.id
      BY <2>1, FS_CardinalityType, TablesAssumption
    <2>. QED
      BY <2>1, <2>2, TablesAssumption DEF RolloverInit, Table
  <1>3. Requests
    <2>1. 0 \notin DOMAIN SeedCalls /\ Len(SeedCalls) \in Nat
      BY TablesAssumption
    <2>. QED
      BY <2>1 DEF RolloverInit, Requests, Inserted
  <1>. QED
    BY <1>1, <1>2, <1>3 DEF TypeInv

(* A request at work has its data call.                                      *)
LEMMA TargetIsThere ==
  ASSUME TypeInv, NEW c \in Creators, at[c] \notin {"idle", "refused"}
  PROVE  target[c] \in DOMAIN calls /\ target[c] \in Nat /\ target[c] # 0
  BY Calls DEF TypeInv, RolloverTypeOK, Requests, Inserted

(* The rows that a request's step adds.                                      *)
Adds(c, new) ==
  /\ \A n \in new : IsCarried(n) /\ n.call = target[c] /\ n.status = "not_started" /\ Resolves(n)
  /\ new # {} => at[c] \in {"override", "copy"} /\ path'[c] # "none"

LEMMA CarryingIsAdding ==
  ASSUME TypeInv, NEW c \in Creators, at[c] \in {"override", "copy"}, calls' = calls,
         NEW rows \in SUBSET scores, \A s \in rows : Resolves(s), path'[c] # "none",
         NEW new, new = Carried(rows, target[c]), scores' = scores \cup new
  PROVE  Table' /\ Grown(new) /\ Adds(c, new)
  <1>1. target[c] \in DOMAIN calls /\ target[c] \in Nat
    BY TargetIsThere
  <1>2. Inserts(new, rows, target[c])
    BY <1>1, CarriedRows DEF TypeInv
  <1>3. Table' /\ Grown(new)
    BY <1>1, <1>2, AddRows DEF TypeInv, Inserts
  <1>4. Adds(c, new)
    BY <1>2 DEF Adds, Inserts, IsCarried, Resolves
  <1>. QED
    BY <1>3, <1>4

LEMMA RequestTable ==
  ASSUME TypeInv, NEW c \in Creators, Acts(c)
  PROVE  \E new : Table' /\ Grown(new) /\ Adds(c, new)
  <1>1. CASE scores' = scores
    <2>1. [RolloverNext]_rolloverVars
      BY DEF Acts, RolloverNext
    <2>2. DOMAIN calls \subseteq DOMAIN calls'
      BY <2>1, CallsStay DEF TypeInv
    <2>. QED
      BY <1>1, <2>2, SameRows DEF TypeInv, Adds
  <1>2. CASE Override(c) /\ scores' # scores
    <2>1. /\ at[c] = "override" /\ calls' = calls /\ path' = [path EXCEPT ![c] = "override"]
          /\ scores' = scores \cup Carried(NewestPerFunction(Resolving(Assigned(source[c]))), target[c])
      BY <1>2 DEF Override
    <2>2. /\ NewestPerFunction(Resolving(Assigned(source[c]))) \in SUBSET scores
          /\ \A s \in NewestPerFunction(Resolving(Assigned(source[c]))) : Resolves(s)
      BY DEF NewestPerFunction, Resolving, Assigned
    <2>3. path'[c] # "none"
      BY <2>1 DEF TypeInv, RolloverTypeOK
    <2>. QED
      BY <2>1, <2>2, <2>3, CarryingIsAdding
  <1>3. CASE Copy(c) /\ scores' # scores
    <2>1. /\ at[c] = "copy" /\ calls' = calls /\ path' = [path EXCEPT ![c] = "global"]
          /\ scores' = scores \cup Carried(Resolving(Of(source[c].cms)), target[c])
      BY <1>3 DEF Copy
    <2>2. /\ Resolving(Of(source[c].cms)) \in SUBSET scores
          /\ \A s \in Resolving(Of(source[c].cms)) : Resolves(s)
      BY DEF Resolving, Of
    <2>3. path'[c] # "none"
      BY <2>1 DEF TypeInv, RolloverTypeOK
    <2>. QED
      BY <2>1, <2>2, <2>3, CarryingIsAdding
  <1>. QED
    BY <1>1, <1>2, <1>3
    DEF Acts, Post, Sources, Gate3, Diagnose, FindPrevious, Count, Crash

LEMMA TouchedStay ==
  ASSUME RolloverTypeOK, Table, NEW new, Grown(new) PROVE touched \subseteq {s.id : s \in scores'}
  <1>1. touched \subseteq {s.id : s \in scores}
    BY DEF RolloverTypeOK
  <1>. QED
    BY <1>1 DEF Grown, Same

(* The statements' own types.                                                *)
LEMMA SourcesAreTyped ==
  ASSUME TypeInv, NEW c \in Creators, Sources(c) \/ FindPrevious(c)
  PROVE  source' \in [Creators -> Source]
  <1>1. target[c] \in DOMAIN calls
    BY TargetIsThere DEF Sources, FindPrevious
  <1>2. CASE Sources(c) /\ IsOverrideTarget(target[c])
    <2>1. Named(CmsSource) \in Nat /\ Named(OtherSource) \in Nat /\ calls[target[c]].deadline \in Nat
      BY <1>1, <1>2, NamedIsThere, Calls DEF TypeInv, IsOverrideTarget
    <2>2. [cms |-> Named(CmsSource), other |-> Named(OtherSource),
           deadline |-> calls[target[c]].deadline] \in Source
      BY <2>1 DEF Source
    <2>. QED
      BY <1>2, <2>2 DEF Sources, TypeInv, RolloverTypeOK
  <1>3. CASE FindPrevious(c) /\ Candidates(target[c]) # {}
    <2>1. Previous(target[c]) \in Nat
      BY <1>1, <1>3, PreviousIsEarlier, Calls DEF TypeInv
    <2>2. [cms |-> Previous(target[c]), other |-> Previous(target[c]), deadline |-> 0] \in Source
      BY <2>1 DEF Source
    <2>. QED
      BY <1>3, <2>2 DEF FindPrevious, TypeInv, RolloverTypeOK
  <1>4. CASE UNCHANGED source
    BY <1>4 DEF TypeInv, RolloverTypeOK
  <1>. QED
    BY <1>2, <1>3, <1>4 DEF Sources, FindPrevious

LEMMA DueIsTyped ==
  ASSUME TypeInv, NEW c \in Creators, NEW rows \in SUBSET scores,
         due' = [due EXCEPT ![c] = {s.id : s \in rows}]
  PROVE  due' \in [Creators -> SUBSET Nat]
  <1>1. {s.id : s \in rows} \in SUBSET Nat
    BY Rows DEF TypeInv
  <1>. QED
    BY <1>1 DEF TypeInv, RolloverTypeOK

LEMMA ActsTypes ==
  ASSUME TypeInv, NEW c \in Creators, Acts(c) PROVE RolloverTypeOK'
  <1>1. [RolloverNext]_rolloverVars
    BY DEF Acts, RolloverNext
  <1>2. calls' \in Seq(Call) /\ DOMAIN calls \subseteq DOMAIN calls'
    BY <1>1, CallsStay DEF TypeInv
  <1>3. scores' \subseteq Score /\ touched' \subseteq {s.id : s \in scores'}
    <2>1. touched' = touched
      BY DEF Acts, Post, Sources, Gate3, Override, Diagnose, FindPrevious, Count, Copy, Crash
    <2>. QED
      BY <2>1, RequestTable, TouchedStay DEF TypeInv, Table
  <1>4. alarms' \subseteq DOMAIN calls' /\ remarks' \subseteq DOMAIN calls'
    <2>1. /\ alarms' = alarms \/ (alarms' = alarms \cup {target[c]} /\ at[c] \notin {"idle", "refused"})
          /\ remarks' = remarks \/ (remarks' = remarks \cup {target[c]} /\ at[c] \notin {"idle", "refused"})
      BY DEF Acts, Post, Sources, Gate3, Override, Diagnose, FindPrevious, Count, Copy, Crash, Alarm
    <2>. QED
      BY <1>2, <2>1, TargetIsThere DEF TypeInv, RolloverTypeOK
  <1>5. at' \in [Creators -> Label]
    <2>1. \E label \in Label : at' = [at EXCEPT ![c] = label]
      BY DEF Acts, Post, Sources, Gate3, Override, Diagnose, FindPrevious, Count, Copy, Crash, MoveTo,
         Label, Statements
    <2>. QED
      BY <2>1 DEF TypeInv, RolloverTypeOK
  <1>6. target' \in [Creators -> {0} \cup DOMAIN calls']
    <2>1. CASE UNCHANGED target
      BY <1>2, <2>1 DEF TypeInv, RolloverTypeOK
    <2>2. CASE \E w \in Wanted : Post(c, w) /\ calls' = Append(calls, w)
                 /\ target' = [target EXCEPT ![c] = Len(calls) + 1]
      <3>1. Len(calls) + 1 \in DOMAIN calls'
        <4>1. PICK w \in Wanted : calls' = Append(calls, w)
          BY <2>2
        <4>2. w \in Call /\ calls \in Seq(Call)
          BY BoundsAssumption DEF TypeInv, RolloverTypeOK
        <4>. QED
          BY <4>1, <4>2
      <3>. QED
        BY <1>2, <2>2, <3>1 DEF TypeInv, RolloverTypeOK
    <2>. QED
      BY <2>1, <2>2
      DEF Acts, Post, Sources, Gate3, Override, Diagnose, FindPrevious, Count, Copy, Crash
  <1>7. source' \in [Creators -> Source]
    <2>1. UNCHANGED source \/ Sources(c) \/ FindPrevious(c)
      BY DEF Acts, Post, Gate3, Override, Diagnose, Count, Copy, Crash
    <2>. QED
      BY <2>1, SourcesAreTyped DEF TypeInv, RolloverTypeOK
  <1>8. tally' \in [Creators -> Nat]
    <2>1. \/ UNCHANGED tally
          \/ \E rows \in SUBSET scores : tally' = [tally EXCEPT ![c] = Cardinality(rows)]
      <3>1. /\ NewestPerFunction(Resolving(Assigned(source[c]))) \in SUBSET scores
            /\ Of(source[c].cms) \in SUBSET scores
        BY DEF NewestPerFunction, Resolving, Assigned, Of
      <3>2. CASE Override(c) \/ Count(c)
        BY <3>1, <3>2 DEF Override, Count
      <3>. QED
        BY <3>2 DEF Acts, Post, Sources, Gate3, Diagnose, FindPrevious, Copy, Crash
    <2>. QED
      BY <2>1, Rows DEF TypeInv, RolloverTypeOK
  <1>9. due' \in [Creators -> SUBSET Nat]
    <2>1. \/ UNCHANGED due
          \/ \E rows \in SUBSET scores : due' = [due EXCEPT ![c] = {s.id : s \in rows}]
      <3>1. Assigned(source[c]) \in SUBSET scores /\ Of(Previous(target[c])) \in SUBSET scores
        BY DEF Assigned, Of
      <3>2. CASE Gate3(c) \/ FindPrevious(c)
        BY <3>1, <3>2 DEF Gate3, FindPrevious
      <3>. QED
        BY <3>2 DEF Acts, Post, Sources, Override, Diagnose, Count, Copy, Crash
    <2>. QED
      BY <2>1, DueIsTyped DEF TypeInv, RolloverTypeOK
  <1>10. path' \in [Creators -> Paths]
    BY DEF Acts, Post, Sources, Gate3, Override, Diagnose, FindPrevious, Count, Copy, Crash,
       TypeInv, RolloverTypeOK, Paths
  <1>11. late' \in [Creators -> SUBSET {s.id : s \in scores'}]
    <2>1. late' = late
      BY DEF Acts, Post, Sources, Gate3, Override, Diagnose, FindPrevious, Count, Copy, Crash
    <2>2. {s.id : s \in scores} \subseteq {s.id : s \in scores'}
      BY RequestTable DEF Grown, Same
    <2>. QED
      BY <2>1, <2>2 DEF TypeInv, RolloverTypeOK
  <1>. QED
    BY <1>2, <1>3, <1>4, <1>5, <1>6, <1>7, <1>8, <1>9, <1>10, <1>11 DEF RolloverTypeOK

LEMMA ActsRequests ==
  ASSUME TypeInv, NEW c \in Creators, Acts(c) PROVE Requests'
  <1>1. Len(calls) \in Nat /\ Len(SeedCalls) \in Nat /\ Len(SeedCalls) <= Len(calls)
        /\ DOMAIN SeedCalls = 1 .. Len(SeedCalls)
    BY Calls, TablesAssumption DEF TypeInv, Requests
  <1>2. Len(calls) <= Len(calls') /\ Len(calls') \in Nat
    BY CallsStay DEF TypeInv, Acts, RolloverNext
  <1>3. \A b \in Creators \ {c} : Still(b) /\ late'[b] = late[b]
    BY OthersStill DEF TypeInv
  <1>4. \A b \in Creators \ {c} : Inserted(b)'
    BY <1>3 DEF Still, TypeInv, Requests, Inserted
  <1>5. \A b \in Creators : target[b] \in 0 .. Len(calls)
    <2>1. \A b \in Creators : target[b] \in {0} \cup DOMAIN calls
      BY DEF TypeInv, RolloverTypeOK
    <2>. QED
      BY <2>1, Calls DEF TypeInv
  <1>6. \/ target'[c] = target[c]
        \/ target[c] = 0 /\ target'[c] = Len(calls) + 1
    BY DEF Acts, Post, Sources, Gate3, Override, Diagnose, FindPrevious, Count, Copy, Crash,
       TypeInv, RolloverTypeOK, Requests, Inserted
  <1>7. \A b, d \in Creators : target'[b] = target'[d] /\ target'[b] # 0 => b = d
    BY <1>1, <1>3, <1>5, <1>6 DEF Still, TypeInv, Requests
  <1>8. Inserted(c)
    BY DEF TypeInv, Requests
  <1>10. late'[c] # {} => at'[c] \in {"copy", "ended", "crashed"}
    <2>1. late' = late
      BY DEF Acts, Post, Sources, Gate3, Override, Diagnose, FindPrevious, Count, Copy, Crash
    <2>2. at[c] \in {"copy", "ended", "crashed"} => at'[c] \in {"ended", "crashed"}
      BY DEF Acts, Post, Sources, Gate3, Override, Diagnose, FindPrevious, Count, Copy, Crash,
         MoveTo, TypeInv, RolloverTypeOK, Statements
    <2>. QED
      BY <1>8, <2>1, <2>2 DEF Inserted
  <1>9. Inserted(c)'
    <2>1. CASE \E w \in Wanted : Post(c, w)
      <3>1. \/ at'[c] = "refused" /\ target'[c] = target[c]
            \/ at'[c] = "sources" /\ target'[c] = Len(calls) + 1
        BY <2>1 DEF Post, MoveTo, TypeInv, RolloverTypeOK
      <3>2. at[c] = "idle" /\ path'[c] = path[c]
        BY <2>1 DEF Post
      <3>. QED
        BY <1>1, <1>8, <1>10, <3>1, <3>2 DEF Inserted
    <2>2. CASE ~\E w \in Wanted : Post(c, w)
      <3>1. /\ target'[c] = target[c]
            /\ at[c] \notin {"idle", "refused"} /\ at'[c] \notin {"idle", "refused"}
            /\ at[c] \in Statements
        BY <2>2 DEF Acts, Sources, Gate3, Override, Diagnose, FindPrevious, Count, Copy,
           Crash, MoveTo, TypeInv, RolloverTypeOK, Statements
      <3>2. CASE path'[c] = path[c]
        <4>1. path[c] # "none" => at[c] = "diagnose"
          BY <1>8, <3>1 DEF Inserted, Statements
        <4>2. at[c] = "diagnose" => at'[c] \in {"ended", "crashed"}
          BY <2>2 DEF Acts, Sources, Gate3, Override, Diagnose, FindPrevious, Count, Copy,
             Crash, MoveTo, TypeInv, RolloverTypeOK
        <4>3. at'[c] # "diagnose"
          BY <2>2, <3>2 DEF Acts, Sources, Gate3, Override, Diagnose, FindPrevious, Count, Copy,
             Crash, MoveTo, TypeInv, RolloverTypeOK, Requests, Inserted
        <4>. QED
          BY <1>8, <1>10, <3>1, <3>2, <4>1, <4>2, <4>3 DEF Inserted
      <3>3. CASE path'[c] # path[c]
        <4>1. \/ at'[c] = "diagnose" /\ path'[c] = "override"
              \/ at'[c] = "ended"
          BY <2>2, <3>3 DEF Acts, Sources, Gate3, Override, Diagnose, FindPrevious, Count, Copy,
             Crash, MoveTo, TypeInv, RolloverTypeOK
        <4>. QED
          BY <1>8, <1>10, <3>1, <4>1 DEF Inserted
      <3>. QED
        BY <3>2, <3>3
    <2>. QED
      BY <2>1, <2>2
  <1>. QED
    BY <1>1, <1>2, <1>4, <1>7, <1>9 DEF Requests

(* The others: an edit adds no row, an answer one that is not carried, and a *)
(* confirm none.                                                             *)
Row(a) == [id |-> Cardinality(scores) + 1, call |-> a.call, system |-> a.system,
           option |-> a.option, status |-> "done", origin |-> 0]

LEMMA AnswerTable ==
  ASSUME TypeInv, NEW a \in Answers, Answer(a)
  PROVE  /\ Table' /\ Grown({Row(a)}) /\ Row(a).origin = 0 /\ Row(a).call = a.call
         /\ Resolves(Row(a)) /\ Row(a).id = Cardinality(scores) + 1
  <1>1. /\ a.call \in Nat /\ a.system \in FismaSystems /\ a.option \in Options \ Dead
        /\ a.call \in DOMAIN calls /\ calls' = calls /\ scores' = scores \cup {Row(a)}
    BY BoundsAssumption DEF Answer, Row
  <1>2. Cardinality(scores) \in Nat
    BY Rows DEF TypeInv
  <1>3. /\ Row(a) \in Score /\ Row(a).origin = 0 /\ Row(a).call = a.call /\ Row(a).option = a.option
        /\ Row(a).id = Cardinality(scores) + 1
    BY <1>1, <1>2 DEF Row, Score
  <1>4. IsFiniteSet({Row(a)}) /\ Cardinality({Row(a)}) = 1
    BY FS_Singleton
  <1>5. Table' /\ Grown({Row(a)})
    BY <1>1, <1>2, <1>3, <1>4, AddRows DEF TypeInv
  <1>. QED
    BY <1>1, <1>3, <1>5 DEF Resolves

LEMMA OthersTypes ==
  ASSUME TypeInv,
         \/ \E e \in Edits : Put(e)
         \/ \E a \in Answers : Answer(a)
         \/ \E s \in scores : Confirm(s)
  PROVE  TypeInv'
  <1>1. /\ calls' \in Seq(Call) /\ DOMAIN calls \subseteq DOMAIN calls' /\ Len(calls) <= Len(calls')
        /\ Len(calls) \in Nat /\ Len(calls') \in Nat /\ Len(SeedCalls) \in Nat
    BY CallsStay, Calls, TablesAssumption DEF TypeInv, RolloverNext
  <1>2. UNCHANGED <<alarms, remarks, at, target, source, tally, due, path>>
    BY DEF Put, Answer, Confirm, creation
  <1>3. Table' /\ touched' \subseteq {s.id : s \in scores'}
    <2>1. CASE \E e \in Edits : Put(e)
      BY <1>1, <2>1, SameRows DEF Put, TypeInv, RolloverTypeOK
    <2>2. CASE \E a \in Answers : Answer(a)
      <3>1. PICK a \in Answers : Answer(a)
        BY <2>2
      <3>2. Row(a) \in scores' /\ Row(a).id = Cardinality(scores) + 1 /\ Table' /\ Grown({Row(a)})
        BY <3>1, AnswerTable DEF Grown
      <3>3. touched \subseteq {s.id : s \in scores'}
        BY <3>2, TouchedStay DEF TypeInv
      <3>. QED
        BY <3>1, <3>2, <3>3 DEF Answer
    <2>3. CASE \E s \in scores : Confirm(s)
      <3>1. PICK s \in scores : Confirm(s)
        BY <2>3
      <3>2. Table' /\ Grown({})
        BY <3>1, ConfirmRows DEF TypeInv
      <3>3. touched \subseteq {t.id : t \in scores'} /\ s.id \in {t.id : t \in scores'}
        <4>1. touched \subseteq {t.id : t \in scores'}
          BY <3>2, TouchedStay DEF TypeInv
        <4>2. PICK t \in scores' : Same(s, t)
          BY <3>2 DEF Grown
        <4>. QED
          BY <4>1, <4>2 DEF Same
      <3>. QED
        BY <3>1, <3>2, <3>3 DEF Confirm
    <2>. QED
      BY <2>1, <2>2, <2>3
  <1>4. late' \in [Creators -> SUBSET {s.id : s \in scores'}]
    <2>1. CASE UNCHANGED late
      <3>1. PICK new : Grown(new)
        BY <1>1, SameRows, AnswerTable, ConfirmRows DEF Put, TypeInv
      <3>2. {s.id : s \in scores} \subseteq {s.id : s \in scores'}
        BY <3>1 DEF Grown, Same
      <3>. QED
        BY <2>1, <3>2 DEF TypeInv, RolloverTypeOK
    <2>2. CASE \E a \in Answers : Answer(a)
      <3>1. PICK a \in Answers : Answer(a)
        BY <2>2
      <3>2. Row(a) \in scores' /\ Row(a).id = Cardinality(scores) + 1 /\ Grown({Row(a)})
        BY <3>1, AnswerTable DEF Grown
      <3>3. {s.id : s \in scores} \cup {Cardinality(scores) + 1} \subseteq {s.id : s \in scores'}
        BY <3>2 DEF Grown, Same
      <3>. QED
        BY <3>1, <3>3 DEF Answer, TypeInv, RolloverTypeOK
    <2>. QED
      BY <2>1, <2>2 DEF Put, Confirm, creation
  <1>5. RolloverTypeOK'
    BY <1>1, <1>2, <1>3, <1>4 DEF TypeInv, RolloverTypeOK, Table
  <1>6. \A c \in Creators : late'[c] # {} => late[c] # {} \/ at[c] = "copy"
    BY DEF Put, Answer, Confirm, creation
  <1>7. Requests'
    BY <1>1, <1>2, <1>6 DEF TypeInv, Requests, Inserted
  <1>. QED
    BY <1>3, <1>5, <1>7 DEF TypeInv

LEMMA TypeInvStep == TypeInv /\ [RolloverNext]_rolloverVars => TypeInv'
  <1>. SUFFICES ASSUME TypeInv, [RolloverNext]_rolloverVars PROVE TypeInv'
    OBVIOUS
  <1>1. ASSUME NEW c \in Creators, Acts(c) PROVE TypeInv'
    BY <1>1, ActsTypes, ActsRequests, RequestTable DEF TypeInv
  <1>2. CASE UNCHANGED rolloverVars
    BY <1>2 DEF rolloverVars, creation, TypeInv, RolloverTypeOK, Table, Requests, Inserted
  <1>. QED
    BY <1>1, <1>2, OthersTypes DEF RolloverNext, Acts

LEMMA TypeInvHolds == RolloverSpec => []TypeInv
  BY TypeInvInit, TypeInvStep, PTL DEF RolloverSpec

-----------------------------------------------------------------------------
(* What lasts while the table grows.                                         *)

LEMMA OldRows ==
  ASSUME Table, Table', NEW new, Grown(new), NEW t \in scores', t.id <= Cardinality(scores)
  PROVE  \E s \in scores : Same(s, t)
  <1>1. t \in new => t.id > Cardinality(scores) /\ t.id \in Nat
    BY DEF Grown, Table
  <1>2. Cardinality(scores) \in Nat
    BY DEF Grown
  <1>3. t \notin new
    BY <1>1, <1>2
  <1>. QED
    BY <1>3 DEF Grown

LEMMA ArrivedStays ==
  ASSUME NEW new, Grown(new), NEW s \in scores, NEW t \in scores', Same(s, t), NEW d, Arrived(s, d)
  PROVE  Arrived(t, d)'
  <1>1. PICK u \in scores : u.call = d /\ IsCarried(u) /\ u.system = s.system
                            /\ FunctionOf[u.option] = FunctionOf[s.option]
    BY DEF Arrived, Of
  <1>2. PICK v \in scores' : Same(u, v)
    BY DEF Grown
  <1>. QED
    BY <1>1, <1>2 DEF Arrived, Of, Same, IsCarried, Resolves

LEMMA CarriedStay ==
  ASSUME CarriedByItsRequest, NEW new, Grown(new),
         \A b \in Creators : path[b] # "none" => target'[b] = target[b] /\ path'[b] # "none",
         \A n \in new : IsCarried(n) => \E c \in Creators : target'[c] = n.call /\ path'[c] # "none"
  PROVE  CarriedByItsRequest'
  <1>1. ASSUME NEW t \in scores', t.origin # 0
        PROVE  \E c \in Creators : target'[c] = t.call /\ path'[c] # "none"
    <2>1. CASE t \in new
      BY <1>1, <2>1 DEF IsCarried
    <2>2. CASE \E s \in scores : Same(s, t)
      BY <1>1, <2>2 DEF Same, CarriedByItsRequest, IsCarried
    <2>. QED
      BY <2>1, <2>2 DEF Grown
  <1>. QED
    BY <1>1 DEF CarriedByItsRequest, IsCarried

LEMMA DeadStay ==
  ASSUME DeadWereLoaded, NEW new, Grown(new), \A n \in new : Resolves(n) PROVE DeadWereLoaded'
  BY DEF DeadWereLoaded, Grown, Same, Resolves

LEMMA StillDue ==
  ASSUME Table, Table', NEW b \in Creators, NEW new, Grown(new), Still(b), DueOK(b)
  PROVE  DueOK(b)'
  <1>1. Cardinality(scores) \in Nat /\ Cardinality(scores') \in Nat
        /\ Cardinality(scores) <= Cardinality(scores')
    BY DEF Grown
  <1>2. ASSUME NEW t \in scores', t.id \in due'[b]
        PROVE  \E s \in scores : Same(s, t) /\ s.id \in due[b]
    <2>1. t.id <= Cardinality(scores)
      BY <1>2 DEF Still, DueOK
    <2>. QED
      BY <1>2, <2>1, OldRows DEF Same, Still
  <1>3. ASSUME NEW t \in scores', t.id \in due'[b]
        PROVE  /\ at'[b] \in {"override", "diagnose"} => t \in Assigned(source[b])'
               /\ at'[b] \in {"count", "copy"} => t \in Of(source[b].cms)'
               /\ at'[b] = "diagnose" /\ Resolves(t) => Arrived(t, target[b])'
    <2>1. PICK s \in scores : Same(s, t) /\ s.id \in due[b]
      BY <1>2, <1>3
    <2>2. /\ at[b] \in {"override", "diagnose"} => s \in Assigned(source[b])
          /\ at[b] \in {"count", "copy"} => s \in Of(source[b].cms)
          /\ at[b] = "diagnose" /\ Resolves(s) => Arrived(s, target[b])
      BY <2>1 DEF DueOK
    <2>3. at'[b] \in {"override", "diagnose"} => t \in Assigned(source[b])'
      BY <2>1, <2>2 DEF Assigned, SourceOf, Same, Still
    <2>4. at'[b] \in {"count", "copy"} => t \in Of(source[b].cms)'
      BY <2>1, <2>2 DEF Of, Same, Still
    <2>5. ASSUME at'[b] = "diagnose", Resolves(t) PROVE Arrived(t, target[b])'
      <3>1. Arrived(s, target[b])
        BY <2>1, <2>2, <2>5 DEF Still, Resolves, Same
      <3>2. PICK d : d = target[b] /\ d = target'[b]
        BY DEF Still
      <3>3. Arrived(t, d)'
        BY <2>1, <3>1, <3>2, ArrivedStays
      <3>. QED
        BY <3>2, <3>3 DEF Arrived, Of
    <2>. QED
      BY <2>3, <2>4, <2>5
  <1>4. \A i \in due'[b] : i \in 1 .. Cardinality(scores')
    <2>1. Still(b)
      OBVIOUS
    <2>2. \A i \in due[b] : i \in 1 .. Cardinality(scores)
      BY DEF DueOK
    <2>. QED
      BY <1>1, <2>1, <2>2 DEF Still
  <1>5. at'[b] \in {"idle", "refused", "sources", "gate3", "previous"} => due'[b] = {}
    BY DEF DueOK, Still
  <1>. QED
    BY <1>3, <1>4, <1>5 DEF DueOK

(* Rows that a request adds are not in the source of a count that matters,   *)
(* and those that users add are late.                                        *)
LEMMA StillCount ==
  ASSUME Table, Table', NEW b \in Creators, NEW new, Grown(new), CountOK(b),
         at'[b] = at[b], source'[b] = source[b], tally'[b] = tally[b],
         \A n \in new : Resolves(n),
         at[b] = "copy" /\ source[b].cms \in DOMAIN SeedCalls =>
           late'[b] = late[b] \cup Ids({n \in new : n.call = source[b].cms})
  PROVE  CountOK(b)'
  <1>. DEFINE d == source[b].cms
              added == Ids({n \in new : n.call = d})
  <1>1. SUFFICES ASSUME at'[b] = "copy", d \in DOMAIN SeedCalls
                 PROVE  /\ late'[b] \subseteq Ids(Resolving(Of(source[b].cms)))'
                        /\ tally'[b] = Cardinality(Ids(Of(source[b].cms)) \ late[b])'
    BY DEF CountOK
  <1>2. /\ late[b] \subseteq Ids(Resolving(Of(d))) /\ tally[b] = Cardinality(Ids(Of(d)) \ late[b])
        /\ late'[b] = late[b] \cup added /\ source'[b].cms = d
    BY <1>1 DEF CountOK
  <1>3. Ids(Of(source[b].cms))' = Ids(Of(d)) \cup added
    <2>1. Ids(Of(source[b].cms))' = {t.id : t \in {t \in scores' : t.call = d}}
      BY <1>2 DEF Ids, Of
    <2>2. \A t \in scores' : t.call = d => t \in new \/ \E s \in scores : s.call = d /\ s.id = t.id
      BY DEF Grown, Same
    <2>3. \A s \in scores : s.call = d => \E t \in scores' : t.call = d /\ t.id = s.id
      BY DEF Grown, Same
    <2>4. \A n \in new : n \in scores'
      BY DEF Grown
    <2>5. Ids(Of(d)) = {s.id : s \in {s \in scores : s.call = d}}
      BY DEF Ids, Of
    <2>6. added = {n.id : n \in {n \in new : n.call = d}}
      BY DEF Ids
    <2>7. ASSUME NEW i, i \in Ids(Of(source[b].cms))' PROVE i \in Ids(Of(d)) \cup added
      <3>1. PICK t \in scores' : t.call = d /\ t.id = i
        BY <2>1, <2>7
      <3>. QED
        BY <2>2, <2>5, <2>6, <3>1
    <2>8. ASSUME NEW i, i \in Ids(Of(d)) \cup added PROVE i \in Ids(Of(source[b].cms))'
      BY <2>1, <2>3, <2>4, <2>5, <2>6, <2>8
    <2>. QED
      BY <2>7, <2>8
  <1>4. added \cap Ids(Of(d)) = {}
    <2>1. \A s \in scores : s.id \in 1 .. Cardinality(scores)
      BY DEF Table
    <2>2. \A n \in new : n.id > Cardinality(scores) /\ Cardinality(scores) \in Nat
      BY DEF Grown
    <2>3. \A n \in new, s \in scores : n.id # s.id
      BY <2>1, <2>2
    <2>. QED
      BY <2>3 DEF Ids, Of
  <1>5. late'[b] \subseteq Ids(Resolving(Of(source[b].cms)))'
    <2>1. Ids(Resolving(Of(source[b].cms)))' = {t.id : t \in {t \in scores' : t.call = d /\ Resolves(t)}}
      BY <1>2 DEF Ids, Of, Resolving, Resolves
    <2>2. \A s \in scores : s.call = d /\ Resolves(s) =>
            \E t \in scores' : t.call = d /\ t.id = s.id /\ Resolves(t)
      BY DEF Grown, Same, Resolves
    <2>3. \A n \in new : n \in scores' /\ Resolves(n)
      BY DEF Grown
    <2>. HIDE DEF d
    <2>. QED
      BY <1>2, <2>1, <2>2, <2>3 DEF Ids, Of, Resolving
  <1>. HIDE DEF d, added
  <1>6. Ids(Of(source[b].cms))' \ late'[b] = Ids(Of(d)) \ late[b]
    BY <1>2, <1>3, <1>4
  <1>. QED
    BY <1>2, <1>5, <1>6

(* Nothing missing is within every bound.                                    *)
LEMMA IdsAreFinite ==
  ASSUME NEW rows, IsFiniteSet(rows), NEW ids \in SUBSET {s.id : s \in rows}
  PROVE  IsFiniteSet(ids) /\ Cardinality(ids) \in Nat
  <1>1. IsFiniteSet({s.id : s \in rows})
    <2>. DEFINE f == [s \in rows |-> s.id]
    <2>1. f \in Surjection(rows, {s.id : s \in rows})
      BY DEF Surjection
    <2>. QED
      BY <2>1, FS_Surjection
  <1>. QED
    BY <1>1, FS_Subset, FS_CardinalityType

LEMMA LateIsFinite ==
  ASSUME TypeInv, NEW b \in Creators PROVE Cardinality(late[b]) \in Nat
  <1>1. late[b] \in SUBSET {s.id : s \in scores} /\ IsFiniteSet(scores)
    BY DEF TypeInv, RolloverTypeOK, Table
  <1>. QED
    BY <1>1, IdsAreFinite

LEMMA NothingMissing ==
  ASSUME TypeInv', NEW b \in Creators, Missing(b)' = {} PROVE LossBounded(b)'
  <1>1. late'[b] \in SUBSET {s.id : s \in scores'} /\ IsFiniteSet(scores')
    BY DEF TypeInv, RolloverTypeOK, Table
  <1>2. Cardinality(late'[b]) \in Nat
    BY <1>1, IdsAreFinite
  <1>3. Cardinality(Missing(b)') = 0
    BY FS_EmptySet
  <1>. QED
    BY <1>2, <1>3 DEF LossBounded

LEMMA StillLineages ==
  ASSUME Table, Table', NEW b \in Creators, NEW new, Grown(new), KeepsLineages(b),
         target'[b] = target[b], source'[b] = source[b], path'[b] = path[b],
         \A n \in new : IsCarried(n) => n.call # target[b]
  PROVE  KeepsLineages(b)'
  <1>1. SUFFICES ASSUME path'[b] = "override", NEW t \in scores', t.call = target[b], t.origin # 0
                 PROVE  /\ \E u \in Assigned(source[b])' : u.id = t.origin
                        /\ \A y \in scores' :
                             /\ y.call = target[b] /\ y.origin # 0 /\ y.system = t.system
                             /\ FunctionOf[y.option] = FunctionOf[t.option]
                             => y = t
    BY DEF KeepsLineages, Of, IsCarried
  <1>2. ASSUME NEW y \in scores', y.call = target[b], y.origin # 0
        PROVE  \E x \in Of(target[b]) : Same(x, y) /\ IsCarried(x)
    BY <1>2 DEF Grown, IsCarried, Same, Of
  <1>3. PICK s \in Of(target[b]) : Same(s, t) /\ IsCarried(s)
    BY <1>1, <1>2
  <1>4. path[b] = "override" /\ source'[b] = source[b]
    BY <1>1
  <1>5. \E u \in Assigned(source[b])' : u.id = t.origin
    <2>1. PICK v \in Assigned(source[b]) : v.id = s.origin
      BY <1>3, <1>4 DEF KeepsLineages
    <2>2. PICK u \in scores' : Same(v, u)
      BY <2>1 DEF Assigned, Grown
    <2>. QED
      BY <1>3, <1>4, <2>1, <2>2 DEF Assigned, SourceOf, Same
  <1>6. ASSUME NEW y \in scores', y.call = target[b], y.origin # 0, y.system = t.system,
               FunctionOf[y.option] = FunctionOf[t.option]
        PROVE  y = t
    <2>1. PICK x \in Of(target[b]) : Same(x, y) /\ IsCarried(x)
      BY <1>2, <1>6
    <2>2. x = s
      BY <1>3, <1>4, <1>6, <2>1 DEF KeepsLineages, Same
    <2>. QED
      BY <1>3, <2>1, <2>2 DEF Same, Table
  <1>. QED
    BY <1>5, <1>6

LEMMA StillBounded ==
  ASSUME TypeInv, TypeInv', NEW b \in Creators, NEW new, Grown(new), DueOK(b), LossBounded(b),
         at'[b] = at[b], target'[b] = target[b], due'[b] = due[b],
         at[b] # "copy" => late'[b] = late[b],
         alarms \subseteq alarms', remarks \subseteq remarks'
  PROVE  LossBounded(b)'
  <1>1. SUFFICES ASSUME Ended(b)', target[b] \notin alarms' \cup remarks'
                 PROVE  Cardinality(Missing(b))' <= Cardinality(late'[b])
    BY DEF LossBounded
  <1>2. late'[b] = late[b] /\ Cardinality(Missing(b)) <= Cardinality(late[b])
    BY <1>1 DEF Ended, LossBounded
  <1>3. Missing(b)' \subseteq Missing(b)
    <2>1. SUFFICES ASSUME NEW t \in scores', t.id \in due[b], ~Arrived(t, target[b])'
                   PROVE  \E s \in scores : s.id = t.id /\ ~Arrived(s, target[b])
      BY DEF Missing
    <2>2. t.id <= Cardinality(scores)
      BY <2>1 DEF DueOK
    <2>3. PICK s \in scores : Same(s, t)
      BY <2>2, OldRows DEF TypeInv
    <2>4. PICK d : d = target[b]
      OBVIOUS
    <2>5. Arrived(s, d) => Arrived(t, d)'
      BY <2>3, ArrivedStays
    <2>. QED
      BY <2>1, <2>3, <2>4, <2>5 DEF Same, Arrived, Of
  <1>4. IsFiniteSet(Missing(b))
    <2>1. Missing(b) \subseteq 1 .. Cardinality(scores) /\ Cardinality(scores) \in Nat
      BY Rows DEF Missing, DueOK, TypeInv
    <2>2. IsFiniteSet(1 .. Cardinality(scores))
      BY <2>1, FS_Interval
    <2>. QED
      BY <2>1, <2>2, FS_Subset
  <1>5. /\ Cardinality(Missing(b))' <= Cardinality(Missing(b))
        /\ Cardinality(Missing(b))' \in Nat /\ Cardinality(Missing(b)) \in Nat
    <2>. DEFINE M == Missing(b)
    <2>1. IsFiniteSet(M') /\ Cardinality(M') <= Cardinality(M)
      BY <1>3, <1>4, FS_Subset
    <2>. QED
      BY <1>4, <2>1, FS_CardinalityType
  <1>. QED
    BY <1>2, <1>5, LateIsFinite

-----------------------------------------------------------------------------
(* The invariant, request by request.                                        *)

Kept(b) == DueOK(b) /\ CountOK(b) /\ KeepsLineages(b) /\ LossBounded(b)

LEMMA CopyInvIsTyped == CopyInv => TypeInv /\ \A b \in Creators : Kept(b)
  BY DEF CopyInv, TypeInv, Kept

LEMMA CopyInvInit == RolloverInit => CopyInv
  <1>. SUFFICES ASSUME RolloverInit PROVE CopyInv
    OBVIOUS
  <1>1. TypeInv
    BY TypeInvInit
  <1>2. \A s \in scores : s.origin = 0 /\ s.call \in DOMAIN SeedCalls
    BY TablesAssumption DEF RolloverInit
  <1>3. CarriedByItsRequest /\ DeadWereLoaded
    BY <1>2 DEF CarriedByItsRequest, DeadWereLoaded, IsCarried
  <1>4. ASSUME NEW c \in Creators PROVE Kept(c)
    <2>1. at[c] = "idle" /\ due[c] = {} /\ path[c] = "none"
      BY DEF RolloverInit
    <2>. QED
      BY <2>1 DEF Kept, DueOK, CountOK, KeepsLineages, LossBounded, Ended
  <1>. QED
    BY <1>1, <1>3, <1>4 DEF CopyInv, TypeInv, Kept

(* A request's step takes nothing from the others.                           *)
LEMMA OthersKept ==
  ASSUME CopyInv, TypeInv', NEW c \in Creators, Acts(c), NEW new, Grown(new), Adds(c, new),
         NEW b \in Creators \ {c}
  PROVE  Kept(b)'
  <1>1. Still(b) /\ Table /\ Table' /\ Kept(b) /\ late'[b] = late[b]
    BY OthersStill, CopyInvIsTyped DEF TypeInv
  <1>2. \A n \in new : n.call = target[c] /\ target[c] # 0
    BY DEF Adds, CopyInv, Requests, Inserted
  <1>3. target[c] \notin DOMAIN SeedCalls /\ (target[c] # 0 => target[b] # target[c])
    BY DEF CopyInv, Requests, Inserted
  <1>4. alarms \subseteq alarms' /\ remarks \subseteq remarks'
    BY DEF Acts, Post, Sources, Gate3, Override, Diagnose, FindPrevious, Count, Copy, Crash, Alarm
  <1>5. DueOK(b)'
    BY <1>1, StillDue DEF Kept
  <1>8. CountOK(b)'
    <2>1. \A n \in new : Resolves(n)
      BY DEF Adds
    <2>2. source[b].cms \in DOMAIN SeedCalls => Ids({n \in new : n.call = source[b].cms}) = {}
      BY <1>2, <1>3 DEF Ids
    <2>. QED
      BY <1>1, <2>1, <2>2, StillCount DEF Kept, Still
  <1>6. KeepsLineages(b)'
    BY <1>1, <1>2, <1>3, StillLineages DEF Kept, Still
  <1>7. LossBounded(b)'
    BY <1>1, <1>4, CopyInvIsTyped, StillBounded DEF Kept, Still
  <1>. QED
    BY <1>5, <1>6, <1>7, <1>8 DEF Kept

LEMMA TableKept ==
  ASSUME CopyInv, NEW c \in Creators, Acts(c), NEW new, Grown(new), Adds(c, new)
  PROVE  CarriedByItsRequest' /\ DeadWereLoaded'
  <1>1. ASSUME NEW b \in Creators, path[b] # "none" PROVE target'[b] = target[b] /\ path'[b] # "none"
    <2>1. CASE b # c
      BY <1>1, <2>1, OthersStill DEF CopyInv, Still
    <2>2. CASE b = c
      <3>1. at[c] \in {"diagnose", "ended", "crashed"}
        BY <1>1, <2>2 DEF CopyInv, Requests, Inserted
      <3>. QED
        BY <1>1, <2>2, <3>1
        DEF Acts, Post, Sources, Gate3, Override, Diagnose, FindPrevious, Count, Copy, Crash
    <2>. QED
      BY <2>1, <2>2
  <1>2. \A n \in new : IsCarried(n) => target'[c] = n.call /\ path'[c] # "none"
    <2>1. new # {} => target' = target
      BY DEF Adds, Acts, Post, Sources, Gate3, Override, Diagnose, FindPrevious, Count, Copy, Crash
    <2>. QED
      BY <2>1 DEF Adds
  <1>3. \A n \in new : Resolves(n)
    BY DEF Adds
  <1>. QED
    BY <1>1, <1>2, <1>3, CarriedStay, DeadStay DEF CopyInv

-----------------------------------------------------------------------------
(* A request's own steps.                                                    *)

LEMMA PostKeeps ==
  ASSUME CopyInv, TypeInv', NEW c \in Creators, NEW w \in Wanted, Post(c, w) PROVE Kept(c)'
  <1>1. at[c] = "idle" /\ at'[c] \in {"refused", "sources"} /\ due'[c] = due[c] /\ path'[c] = path[c]
    BY DEF Post, MoveTo, CopyInv, RolloverTypeOK
  <1>2. due'[c] = {} /\ path'[c] = "none"
    BY <1>1, CopyInvIsTyped DEF Kept, DueOK, CopyInv, Requests, Inserted
  <1>. QED
    BY <1>1, <1>2 DEF Kept, DueOK, CountOK, KeepsLineages, LossBounded, Ended

LEMMA SourcesKeeps ==
  ASSUME CopyInv, TypeInv', NEW c \in Creators, Sources(c) PROVE Kept(c)'
  <1>1. at[c] = "sources" /\ at'[c] \in {"gate3", "previous"} /\ due'[c] = due[c] /\ path'[c] = path[c]
    BY DEF Sources, MoveTo, CopyInv, RolloverTypeOK
  <1>2. due'[c] = {} /\ path'[c] = "none"
    BY <1>1, CopyInvIsTyped DEF Kept, DueOK, CopyInv, Requests, Inserted
  <1>. QED
    BY <1>1, <1>2 DEF Kept, DueOK, CountOK, KeepsLineages, LossBounded, Ended

(* What is due is what the source holds.                                     *)
LEMMA DueIsWhatIsThere ==
  ASSUME Table, NEW rows \in SUBSET scores
  PROVE  /\ \A i \in {s.id : s \in rows} : i \in 1 .. Cardinality(scores)
         /\ \A s \in scores : s.id \in {t.id : t \in rows} => s \in rows
  BY DEF Table

LEMMA Gate3Keeps ==
  ASSUME CopyInv, TypeInv', NEW c \in Creators, Gate3(c) PROVE Kept(c)'
  <1>1. at[c] = "gate3" /\ path'[c] = path[c] /\ scores' = scores /\ source' = source /\ path[c] = "none"
    BY DEF Gate3, CopyInv, Requests, Inserted
  <1>2. CASE due' = due /\ at'[c] = "previous"
    <2>1. due'[c] = {}
      BY <1>1, <1>2, CopyInvIsTyped DEF Kept, DueOK
    <2>. QED
      BY <1>1, <1>2, <2>1 DEF Kept, DueOK, CountOK, KeepsLineages, LossBounded, Ended
  <1>3. CASE due'[c] = {s.id : s \in Assigned(source[c])} /\ at'[c] = "override"
    <2>1. Assigned(source[c]) \in SUBSET scores /\ Assigned(source[c])' = Assigned(source[c])
      BY <1>1 DEF Assigned
    <2>2. Table
      BY DEF CopyInv
    <2>3. DueOK(c)'
      BY <1>1, <1>3, <2>1, <2>2, DueIsWhatIsThere DEF DueOK
    <2>. QED
      BY <1>1, <1>3, <2>3 DEF Kept, CountOK, KeepsLineages, LossBounded, Ended
  <1>. QED
    BY <1>2, <1>3 DEF Gate3, MoveTo, CopyInv, RolloverTypeOK

LEMMA FindPreviousKeeps ==
  ASSUME CopyInv, TypeInv', NEW c \in Creators, FindPrevious(c) PROVE Kept(c)'
  <1>1. at[c] = "previous" /\ path'[c] = path[c] /\ scores' = scores /\ target' = target
        /\ path[c] = "none" /\ due[c] = {}
    BY CopyInvIsTyped DEF FindPrevious, CopyInv, Requests, Inserted, Kept, DueOK
  <1>2. CASE due'[c] = {} /\ at'[c] = "ended"
    <2>1. LossBounded(c)'
      BY <1>2, NothingMissing DEF Missing
    <2>. QED
      BY <1>1, <1>2, <2>1 DEF Kept, DueOK, CountOK, KeepsLineages
  <1>3. CASE \E d : source'[c].cms = d /\ due'[c] = {s.id : s \in Of(d)} /\ at'[c] = "count"
    <2>1. PICK d : source'[c].cms = d /\ due'[c] = {s.id : s \in Of(d)}
      BY <1>3
    <2>2. Of(d) \in SUBSET scores /\ Of(source[c].cms)' = Of(d)
      BY <1>1, <2>1 DEF Of
    <2>3. Table
      BY DEF CopyInv
    <2>4. DueOK(c)'
      BY <1>1, <1>3, <2>1, <2>2, <2>3, DueIsWhatIsThere DEF DueOK
    <2>. QED
      BY <1>1, <1>3, <2>4 DEF Kept, CountOK, KeepsLineages, LossBounded, Ended
  <1>4. CASE Candidates(target[c]) # {} /\ at'[c] = "count"
             /\ LET d == Previous(target[c]) IN
                /\ source' = [source EXCEPT ![c] = [cms |-> d, other |-> d, deadline |-> 0]]
                /\ due' = [due EXCEPT ![c] = {s.id : s \in Of(d)}]
    BY <1>3, <1>4 DEF CopyInv, RolloverTypeOK
  <1>5. CASE due' = due /\ at'[c] = "ended"
    BY <1>1, <1>2, <1>5
  <1>6. at' = [at EXCEPT ![c] = "count"] => at'[c] = "count"
    BY DEF CopyInv, RolloverTypeOK
  <1>7. at' = [at EXCEPT ![c] = "ended"] => at'[c] = "ended"
    BY DEF CopyInv, RolloverTypeOK
  <1>. QED
    BY <1>4, <1>5, <1>6, <1>7 DEF FindPrevious, MoveTo

LEMMA CountKeeps ==
  ASSUME CopyInv, TypeInv', NEW c \in Creators, Count(c) PROVE Kept(c)'
  <1>1. at[c] = "count" /\ path'[c] = path[c] /\ scores' = scores /\ target' = target
        /\ source' = source /\ due' = due /\ path[c] = "none" /\ DueOK(c) /\ late'[c] = {}
    BY CopyInvIsTyped DEF Count, CopyInv, Requests, Inserted, Kept
  <1>2. Of(source[c].cms)' = Of(source[c].cms) /\ Of(source[c].cms) \in SUBSET scores
    BY <1>1 DEF Of
  <1>3. CASE at'[c] = "copy" /\ tally'[c] = Cardinality(Of(source[c].cms))
    <2>1. tally'[c] = Cardinality(Ids(Of(source[c].cms)))
      BY <1>2, <1>3, IdsCount DEF CopyInv
    <2>2. CountOK(c)'
      BY <1>1, <1>2, <2>1 DEF CountOK, Ids
    <2>3. DueOK(c)'
      BY <1>1, <1>2, <1>3 DEF DueOK
    <2>. QED
      BY <1>1, <1>3, <2>2, <2>3 DEF Kept, KeepsLineages, LossBounded, Ended
  <1>4. CASE at'[c] = "ended" /\ alarms' = alarms \cup {target[c]}
    BY <1>1, <1>4 DEF Kept, DueOK, CountOK, KeepsLineages, LossBounded, Ended
  <1>. QED
    BY <1>3, <1>4 DEF Count, MoveTo, Alarm, CopyInv, RolloverTypeOK

LEMMA CrashKeeps ==
  ASSUME CopyInv, TypeInv', NEW c \in Creators, Crash(c) PROVE Kept(c)'
  <1>1. at'[c] = "crashed" /\ UNCHANGED <<calls, scores, target, source, due, path>>
    BY DEF Crash, MoveTo, CopyInv, RolloverTypeOK
  <1>2. DueOK(c)'
    BY <1>1, CopyInvIsTyped DEF Kept, DueOK
  <1>3. KeepsLineages(c)'
    BY <1>1 DEF CopyInv, KeepsLineages, Of, Assigned
  <1>. QED
    BY <1>1, <1>2, <1>3 DEF Kept, CountOK, LossBounded, Ended

(* The diagnostics that find nothing: what was due resolves, and has arrived. *)
LEMMA DiagnoseKeeps ==
  ASSUME CopyInv, TypeInv', NEW c \in Creators, Diagnose(c) PROVE Kept(c)'
  <1>1. /\ at[c] = "diagnose" /\ at'[c] = "ended"
        /\ UNCHANGED <<calls, scores, target, source, due, path>>
        /\ DueOK(c) /\ KeepsLineages(c)
    BY CopyInvIsTyped DEF Diagnose, MoveTo, CopyInv, RolloverTypeOK, Kept
  <1>2. DueOK(c)'
    BY <1>1 DEF DueOK
  <1>3. KeepsLineages(c)'
    BY <1>1 DEF KeepsLineages, Of, Assigned
  <1>4. LossBounded(c)'
    <2>1. SUFFICES ASSUME target[c] \notin alarms' \cup remarks', NEW s \in scores, s.id \in due[c]
                   PROVE  Arrived(s, target[c])
      <3>1. CASE target'[c] \in alarms' \cup remarks'
        BY <3>1 DEF LossBounded
      <3>2. CASE \A s \in scores : s.id \in due[c] => Arrived(s, target[c])
        <4>1. Missing(c)' = {}
          BY <1>1, <3>2 DEF Missing, Arrived, Of
        <4>. QED
          BY <4>1, NothingMissing
      <3>. QED
        BY <1>1, <2>1, <3>1, <3>2
    <2>2. ~Anomalous(c)
      BY <2>1 DEF Diagnose, Alarm, CopyInv, RolloverTypeOK
    <2>3. s \in Assigned(source[c]) /\ (Resolves(s) => Arrived(s, target[c]))
      BY <1>1, <2>1 DEF DueOK
    <2>4. Resolves(s)
      BY <2>2, <2>3 DEF Anomalous, Resolving
    <2>. QED
      BY <2>3, <2>4
  <1>. QED
    BY <1>1, <1>2, <1>3, <1>4 DEF Kept, CountOK

(* A copy that falls short of nothing.                                       *)
LEMMA CopyKeeps ==
  ASSUME CopyInv, TypeInv', NEW c \in Creators, Copy(c) PROVE Kept(c)'
  <1>. DEFINE rows == Resolving(Of(source[c].cms))
  <1>1. /\ at[c] = "copy" /\ at'[c] = "ended"
        /\ UNCHANGED <<calls, target, source, tally, due, late, remarks>>
        /\ DueOK(c) /\ CountOK(c) /\ path[c] = "none"
    BY CopyInvIsTyped DEF Copy, MoveTo, CopyInv, RolloverTypeOK, Kept, Requests, Inserted
  <1>2. Table /\ rows \in SUBSET scores /\ Of(source[c].cms) \in SUBSET scores
    BY DEF CopyInv, Resolving, Of
  <1>3. target[c] \in Nat
    BY <1>1, TargetIsThere, CopyInvIsTyped
  <1>4. CASE alarms' = alarms \cup {target[c]} /\ UNCHANGED <<scores, path>>
    BY <1>1, <1>4 DEF Kept, DueOK, CountOK, KeepsLineages, LossBounded, Ended
  <1>5. CASE /\ scores' = scores \cup Carried(rows, target[c])
             /\ path' = [path EXCEPT ![c] = "global"]
             /\ IF FallsShort(Cardinality(rows), tally[c]) THEN Alarm(c) ELSE UNCHANGED alarms
    <2>. DEFINE new == Carried(rows, target[c])
    <2>1. Inserts(new, rows, target[c])
      BY <1>2, <1>3, CarriedRows
    <2>2. path'[c] = "global"
      BY <1>5 DEF CopyInv, RolloverTypeOK
    <2>3. DOMAIN calls \subseteq DOMAIN calls' /\ target[c] \in DOMAIN calls
      BY <1>1, TargetIsThere, CopyInvIsTyped
    <2>. HIDE DEF new
    <2>4. Grown(new)
      <3>1. scores' = scores \cup new
        BY <1>5 DEF new
      <3>. QED
        BY <1>1, <1>2, <2>1, <2>3, <3>1, AddRows DEF Inserts
    <2>. DEFINE all == Ids(Of(source[c].cms))
                here == Ids(rows)
    <2>5. ASSUME NEW i \in Missing(c)' PROVE i \in all \ here
      <3>1. PICK t \in scores' : t.id = i /\ i \in due[c] /\ ~Arrived(t, target[c])'
        BY <1>1 DEF Missing, Arrived, Of
      <3>2. PICK s \in scores : Same(s, t)
        <4>1. t.id <= Cardinality(scores)
          BY <1>1, <3>1 DEF DueOK
        <4>2. Table'
          BY DEF TypeInv
        <4>. QED
          BY <1>2, <2>4, <4>1, <4>2, OldRows
      <3>3. s \in Of(source[c].cms) /\ s.id = i
        BY <1>1, <3>1, <3>2 DEF DueOK, Same
      <3>4. ASSUME Resolves(s) PROVE FALSE
        <4>1. PICK n \in new : n.system = s.system /\ n.option = s.option
          BY <2>1, <3>3, <3>4 DEF Inserts, Resolving
        <4>2. n \in scores' /\ n.call = target[c] /\ n.origin # 0
          BY <2>1, <2>4, <4>1 DEF Grown, Inserts
        <4>. QED
          BY <1>1, <3>1, <3>2, <3>4, <4>1, <4>2 DEF Arrived, Of, Same, IsCarried, Resolves
      <3>5. i \notin here
        BY <1>2, <3>3, <3>4 DEF Ids, Resolving, Table, Of
      <3>. QED
        BY <3>3, <3>5 DEF Ids
    <2>6. LossBounded(c)'
      <3>1. CASE target[c] \in alarms'
        BY <1>1, <3>1 DEF LossBounded
      <3>2. CASE target[c] \notin alarms' /\ source[c].cms \notin DOMAIN SeedCalls
        <4>1. rows = Of(source[c].cms)
          BY <3>2 DEF CopyInv, DeadWereLoaded, Of, Resolving
        <4>. QED
          BY <2>5, <4>1, NothingMissing
      <3>3. CASE target[c] \notin alarms' /\ source[c].cms \in DOMAIN SeedCalls
        <4>1. ~FallsShort(Cardinality(rows), tally[c])
          BY <1>5, <3>3 DEF Alarm
        <4>2. late[c] \subseteq here /\ tally[c] = Cardinality(all \ late[c])
          BY <1>1, <3>3 DEF CountOK
        <4>3. here \in SUBSET all /\ IsFiniteSet(all)
          <5>1. IsFiniteSet(all)
            BY <1>2, Rows, IdsAreFinite DEF Ids
          <5>2. here \in SUBSET all
            BY DEF Ids, Resolving
          <5>. QED
            BY <5>1, <5>2
        <4>4. Cardinality(rows) = Cardinality(here) /\ Cardinality(here) \in Nat
          BY <1>2, IdsCount, Rows
        <4>. HIDE DEF all, here, rows
        <4>5. Cardinality(all \ late[c]) <= Cardinality(here)
          <5>1. Cardinality(all \ late[c]) \in Nat
            BY <4>3, FS_Subset, FS_CardinalityType
          <5>. QED
            BY <4>1, <4>2, <4>4, <5>1 DEF FallsShort
        <4>6. Cardinality(all \ here) <= Cardinality(late[c])
          BY <4>2, <4>3, <4>5, Excess
        <4>7. IsFiniteSet(all \ here)
          BY <4>3, FS_Subset
        <4>8. PICK missing : missing = Missing(c)'
          OBVIOUS
        <4>9. IsFiniteSet(missing) /\ Cardinality(missing) <= Cardinality(all \ here)
          BY <2>5, <4>7, <4>8, FS_Subset
        <4>10. Cardinality(missing) <= Cardinality(late[c])
          BY <4>6, <4>7, <4>9, FS_CardinalityType, LateIsFinite, CopyInvIsTyped
        <4>. QED
          BY <1>1, <4>8, <4>10 DEF LossBounded
      <3>. QED
        BY <3>1, <3>2, <3>3
    <2>7. DueOK(c)'
      <3>1. \A i \in due[c] : i \in 1 .. Cardinality(scores')
        BY <1>1, <2>4 DEF DueOK, Grown
      <3>. QED
        BY <1>1, <3>1 DEF DueOK
    <2>. QED
      BY <1>1, <2>2, <2>6, <2>7 DEF Kept, CountOK, KeepsLineages
  <1>. QED
    BY <1>4, <1>5 DEF Copy, Alarm

(* DISTINCT ON keeps one row of each system and question that has any.       *)
LEMMA NewestIsThere ==
  ASSUME Table, NEW rows \in SUBSET scores, NEW s \in rows
  PROVE  \E x \in NewestPerFunction(rows) :
           x.system = s.system /\ FunctionOf[x.option] = FunctionOf[s.option]
  <1>. DEFINE Group == {y \in rows : y.system = s.system /\ FunctionOf[y.option] = FunctionOf[s.option]}
              R == {p \in Group \X Group : p[1].id < p[2].id}
  <1>1. Group # {} /\ Group \in SUBSET scores /\ IsFiniteSet(Group) /\ \A y \in Group : y.id \in Nat
    BY Rows
  <1>2. \A x \in Group : <<x, x>> \notin R
    BY <1>1
  <1>3. \A x, y, z \in Group : <<x, y>> \in R /\ <<y, z>> \in R => <<x, z>> \in R
    BY <1>1
  <1>4. \A x, y \in Group : <<x, y>> \notin R => y.id <= x.id
    BY <1>1
  <1>5. PICK x \in Group : \A y \in Group : <<x, y>> \notin R
    <2>. HIDE DEF R, Group
    <2>. QED
      BY <1>1, <1>2, <1>3, Greatest
  <1>6. x \in NewestPerFunction(rows)
    BY <1>4, <1>5 DEF NewestPerFunction
  <1>. QED
    BY <1>6

LEMMA NewestIsOne ==
  ASSUME Table, NEW rows \in SUBSET scores,
         NEW x \in NewestPerFunction(rows), NEW y \in NewestPerFunction(rows),
         x.system = y.system, FunctionOf[x.option] = FunctionOf[y.option]
  PROVE  x = y
  <1>1. x.id <= y.id /\ y.id <= x.id
    BY DEF NewestPerFunction
  <1>2. x \in scores /\ y \in scores /\ x.id \in Nat /\ y.id \in Nat
    BY Rows DEF NewestPerFunction
  <1>. QED
    BY <1>1, <1>2 DEF Table

(* The override's copy.                                                      *)
LEMMA OverrideKeeps ==
  ASSUME CopyInv, TypeInv', NEW c \in Creators, Override(c) PROVE Kept(c)'
  <1>. DEFINE all == Resolving(Assigned(source[c]))
              rows == NewestPerFunction(all)
              new == Carried(rows, target[c])
  <1>1. /\ at[c] = "override" /\ UNCHANGED <<calls, target, source, due>>
        /\ DueOK(c) /\ path[c] = "none" /\ target[c] # 0
    BY CopyInvIsTyped DEF Override, CopyInv, RolloverTypeOK, Kept, Requests, Inserted
  <1>2. Table /\ Table' /\ all \in SUBSET scores /\ rows \in SUBSET all
    BY DEF CopyInv, TypeInv, Resolving, Assigned, NewestPerFunction
  <1>3. target[c] \in Nat /\ target[c] \in DOMAIN calls
    BY <1>1, TargetIsThere, CopyInvIsTyped
  <1>4. CASE alarms' = alarms \cup {target[c]} /\ at'[c] = "ended" /\ UNCHANGED <<scores, path>>
    BY <1>1, <1>4 DEF Kept, DueOK, CountOK, KeepsLineages, LossBounded, Ended
  <1>5. CASE scores' = scores \cup new /\ path'[c] = "override" /\ at'[c] = "diagnose"
    <2>1. Inserts(new, rows, target[c])
      BY <1>2, <1>3, CarriedRows
    <2>. HIDE DEF new
    <2>2. Grown(new)
      BY <1>1, <1>2, <1>3, <1>5, <2>1, AddRows DEF Inserts
    <2>. HIDE DEF rows
    <2>3. DueOK(c)'
      <3>1. \A i \in due[c] : i \in 1 .. Cardinality(scores')
        BY <1>1, <2>2 DEF DueOK, Grown
      <3>2. ASSUME NEW t \in scores', t.id \in due[c]
            PROVE  t \in Assigned(source[c])' /\ (Resolves(t) => Arrived(t, target[c])')
        <4>1. t.id <= Cardinality(scores)
          BY <1>1, <3>2 DEF DueOK
        <4>2. PICK s \in scores : Same(s, t)
          BY <1>2, <2>2, <4>1, OldRows
        <4>3. s \in Assigned(source[c])
          BY <1>1, <3>2, <4>2 DEF DueOK, Same
        <4>4. ASSUME Resolves(t) PROVE Arrived(t, target[c])'
          <5>1. s \in all
            BY <4>2, <4>3, <4>4 DEF Resolving, Resolves, Same
          <5>2. PICK x \in rows : x.system = s.system /\ FunctionOf[x.option] = FunctionOf[s.option]
            <6>. HIDE DEF all
            <6>. QED
              BY <1>2, <5>1, NewestIsThere DEF rows
          <5>3. PICK n \in new : n.system = x.system /\ n.option = x.option
            BY <2>1 DEF Inserts
          <5>4. n \in scores' /\ n.call = target[c] /\ n.origin # 0
            BY <1>5, <2>1 DEF Inserts
          <5>. QED
            BY <1>1, <4>2, <4>4, <5>2, <5>3, <5>4 DEF Arrived, Of, Same, IsCarried, Resolves
        <4>5. t \in Assigned(source[c])'
          BY <1>1, <4>2, <4>3 DEF Assigned, SourceOf, Same
        <4>. QED
          BY <4>4, <4>5
      <3>. QED
        BY <1>1, <1>5, <3>1, <3>2 DEF DueOK
    <2>4. KeepsLineages(c)'
      <3>1. ASSUME NEW t \in scores', t.call = target[c], t.origin # 0 PROVE t \in new
        <4>1. ASSUME t \in scores PROVE FALSE
          <5>1. PICK b \in Creators : target[b] = t.call /\ path[b] # "none"
            BY <3>1, <4>1 DEF CopyInv, CarriedByItsRequest, IsCarried
          <5>. QED
            BY <1>1, <3>1, <5>1 DEF CopyInv, Requests
        <4>. QED
          BY <1>5, <4>1
      <3>2. SUFFICES ASSUME NEW t \in scores', t.call = target[c], t.origin # 0
                     PROVE  /\ \E u \in Assigned(source[c])' : u.id = t.origin
                            /\ \A y \in scores' :
                                 /\ y.call = target[c] /\ y.origin # 0 /\ y.system = t.system
                                 /\ FunctionOf[y.option] = FunctionOf[t.option]
                                 => y = t
        BY <1>1 DEF KeepsLineages, Of, IsCarried
      <3>3. PICK s \in rows : t.origin = s.id /\ t.system = s.system /\ t.option = s.option
        BY <2>1, <3>1, <3>2 DEF Inserts
      <3>4. s \in Assigned(source[c])'
        BY <1>1, <1>2, <1>5, <3>3 DEF Resolving, Assigned
      <3>5. ASSUME NEW y \in scores', y.call = target[c], y.origin # 0, y.system = t.system,
                   FunctionOf[y.option] = FunctionOf[t.option]
            PROVE  y = t
        <4>1. PICK u \in rows : y.origin = u.id /\ y.system = u.system /\ y.option = u.option
          BY <2>1, <3>1, <3>5 DEF Inserts
        <4>2. u = s
          <5>. HIDE DEF all
          <5>. QED
            BY <1>2, <3>3, <3>5, <4>1, NewestIsOne DEF rows
        <4>3. y \in new /\ t \in new
          BY <3>1, <3>2, <3>5
        <4>. QED
          BY <2>1, <3>3, <4>1, <4>2, <4>3 DEF Inserts
      <3>. QED
        BY <3>3, <3>4, <3>5
    <2>. QED
      BY <1>5, <2>3, <2>4 DEF Kept, CountOK, LossBounded, Ended
  <1>. QED
    BY <1>4, <1>5 DEF Override, MoveTo, Alarm, CopyInv, RolloverTypeOK

-----------------------------------------------------------------------------
(* The others' steps. *)

LEMMA OthersKeep ==
  ASSUME CopyInv, TypeInv', NEW new, Grown(new), \A n \in new : ~IsCarried(n) /\ Resolves(n),
         UNCHANGED <<alarms, remarks, at, target, source, tally, due, path>>,
         \A b \in Creators :
           /\ at[b] # "copy" => late'[b] = late[b]
           /\ at[b] = "copy" =>
                late'[b] = late[b] \cup Ids({n \in new : n.call = source[b].cms})
  PROVE  CopyInv'
  <1>1. CarriedByItsRequest' /\ DeadWereLoaded'
    BY CarriedStay, DeadStay DEF CopyInv
  <1>2. Table /\ Table'
    BY DEF CopyInv, TypeInv
  <1>3. ASSUME NEW b \in Creators PROVE Kept(b)'
    <2>1. Still(b) /\ Kept(b)
      BY CopyInvIsTyped DEF Still
    <2>2. DueOK(b)' /\ CountOK(b)'
      <3>1. DueOK(b)'
        BY <1>2, <2>1, StillDue DEF Kept
      <3>2. CountOK(b)'
        BY <1>2, <2>1, StillCount DEF Kept, Still
      <3>. QED
        BY <3>1, <3>2
    <2>3. KeepsLineages(b)'
      BY <1>2, <2>1, StillLineages DEF Kept, Still
    <2>4. LossBounded(b)'
      BY <2>1, CopyInvIsTyped, StillBounded DEF Kept, Still
    <2>. QED
      BY <2>2, <2>3, <2>4 DEF Kept
  <1>. QED
    BY <1>1, <1>3 DEF CopyInv, TypeInv, Kept

LEMMA CopyInvStep == CopyInv /\ [RolloverNext]_rolloverVars => CopyInv'
  <1>. SUFFICES ASSUME CopyInv, [RolloverNext]_rolloverVars PROVE CopyInv'
    OBVIOUS
  <1>1. TypeInv /\ TypeInv'
    BY TypeInvStep, CopyInvIsTyped
  <1>2. ASSUME NEW c \in Creators, Acts(c) PROVE CopyInv'
    <2>1. PICK new : Grown(new) /\ Adds(c, new)
      BY <1>1, <1>2, RequestTable
    <2>2. \A b \in Creators \ {c} : Kept(b)'
      BY <1>1, <1>2, <2>1, OthersKept
    <2>3. Kept(c)'
      BY <1>1, <1>2, PostKeeps, SourcesKeeps, Gate3Keeps, OverrideKeeps, DiagnoseKeeps,
         FindPreviousKeeps, CountKeeps, CopyKeeps, CrashKeeps DEF Acts
    <2>4. CarriedByItsRequest' /\ DeadWereLoaded'
      BY <1>2, <2>1, TableKept
    <2>. QED
      BY <1>1, <2>2, <2>3, <2>4 DEF CopyInv, TypeInv, Kept
  <1>3. ASSUME NEW a \in Answers, Answer(a) PROVE CopyInv'
    <2>1. /\ Grown({Row(a)}) /\ Row(a).origin = 0 /\ Row(a).call = a.call /\ Resolves(Row(a))
      BY <1>1, <1>3, AnswerTable
    <2>2. UNCHANGED <<alarms, remarks, at, target, source, tally, due, path>>
      BY <1>3 DEF Answer
    <2>3. \A n \in {Row(a)} : ~IsCarried(n) /\ Resolves(n)
      BY <2>1 DEF IsCarried
    <2>4. ASSUME NEW b \in Creators
          PROVE  /\ at[b] # "copy" => late'[b] = late[b]
                 /\ at[b] = "copy" =>
                      late'[b] = late[b] \cup Ids({n \in {Row(a)} : n.call = source[b].cms})
      <3>1. Row(a).id = Cardinality(scores) + 1
        BY DEF Row
      <3>2. late'[b] = IF at[b] = "copy" /\ source[b].cms = a.call
                         THEN late[b] \cup {Cardinality(scores) + 1} ELSE late[b]
        BY <1>3 DEF Answer
      <3>3. CASE source[b].cms = a.call
        <4>1. Ids({n \in {Row(a)} : n.call = source[b].cms}) = {Cardinality(scores) + 1}
          BY <2>1, <3>1, <3>3 DEF Ids
        <4>. QED
          BY <3>2, <3>3, <4>1
      <3>4. CASE source[b].cms # a.call
        <4>1. Ids({n \in {Row(a)} : n.call = source[b].cms}) = {}
          BY <2>1, <3>4 DEF Ids
        <4>. QED
          BY <3>2, <3>4, <4>1
      <3>. QED
        BY <3>3, <3>4
    <2>. QED
      BY <1>1, <2>1, <2>2, <2>3, <2>4, OthersKeep
  <1>4. CASE (\E s \in scores : Confirm(s)) \/ (\E e \in Edits : Put(e)) \/ UNCHANGED rolloverVars
    <2>1. Grown({})
      <3>1. CASE \E s \in scores : Confirm(s)
        BY <1>1, <3>1, ConfirmRows DEF TypeInv
      <3>2. CASE UNCHANGED scores
        BY <1>1, <3>2, CallsStay, SameRows DEF TypeInv
      <3>. QED
        BY <1>4, <3>1, <3>2 DEF Put, rolloverVars
    <2>2. UNCHANGED <<alarms, remarks, at, target, source, tally, due, path, late>>
      BY <1>4 DEF Confirm, Put, rolloverVars, creation
    <2>3. \A d : Ids({n \in {} : n.call = d}) = {}
      BY DEF Ids
    <2>. QED
      BY <1>1, <2>1, <2>2, <2>3, OthersKeep
  <1>. QED
    BY <1>2, <1>3, <1>4 DEF RolloverNext, Acts

LEMMA CopyInvHolds == RolloverSpec => []CopyInv
  BY CopyInvInit, CopyInvStep, PTL DEF RolloverSpec

-----------------------------------------------------------------------------
(* Answers are not reviewed by being copied.                                 *)
LEMMA ReviewedStep == TypeInv /\ ReviewedMeansTouched /\ [RolloverNext]_rolloverVars => ReviewedMeansTouched'
  <1>. SUFFICES ASSUME TypeInv, ReviewedMeansTouched, [RolloverNext]_rolloverVars PROVE ReviewedMeansTouched'
    OBVIOUS
  <1>1. ASSUME NEW c \in Creators, Acts(c) PROVE ReviewedMeansTouched'
    <2>1. \A rows, d : \A t \in Carried(rows, d) : t.status = "not_started"
      BY DEF Carried
    <2>2. touched' = touched /\ \A t \in scores' : t \in scores \/ t.status = "not_started"
      BY <1>1, <2>1
      DEF Acts, Post, Sources, Gate3, Override, Diagnose, FindPrevious, Count, Copy, Crash
    <2>. QED
      BY <2>2 DEF ReviewedMeansTouched
  <1>2. ASSUME NEW a \in Answers, Answer(a) PROVE ReviewedMeansTouched'
    BY <1>2 DEF Answer, ReviewedMeansTouched
  <1>3. ASSUME NEW s \in scores, Confirm(s) PROVE ReviewedMeansTouched'
    <2>1. \A t \in scores' : t \in scores \/ t.id = s.id
      BY <1>3, ConfirmRows DEF TypeInv
    <2>. QED
      BY <1>3, <2>1 DEF Confirm, ReviewedMeansTouched
  <1>4. CASE UNCHANGED <<scores, touched>>
    BY <1>4 DEF ReviewedMeansTouched
  <1>. QED
    BY <1>1, <1>2, <1>3, <1>4 DEF RolloverNext, Acts, Put, rolloverVars

-----------------------------------------------------------------------------
(* Answers flow forward.                                                     *)

(* What links two data calls linked them before, or they are in order now.   *)
LEMMA CarriedLink ==
  ASSUME CopyInv, CopyInv', [RolloverNext]_rolloverVars, NEW s \in scores', NEW t \in scores',
         s.origin # 0, t.id = s.origin
  PROVE  Linked(t.call, s.call)
  <1>1. Table /\ Table' /\ TypeInv
    BY CopyInvIsTyped DEF CopyInv
  <1>2. ASSUME NEW new, Grown(new), s \notin new PROVE Linked(t.call, s.call)
    <2>1. PICK u \in scores : Same(u, s)
      BY <1>2 DEF Grown
    <2>2. u.id \in 1 .. Cardinality(scores) /\ u.origin < u.id /\ u.origin \in Nat
      BY <1>1, Rows DEF Table
    <2>3. t.id <= Cardinality(scores)
      BY <1>1, <2>1, <2>2, Rows DEF Same
    <2>4. PICK v \in scores : Same(v, t)
      BY <1>1, <1>2, <2>3, OldRows
    <2>. QED
      BY <2>1, <2>4 DEF Linked, Same, IsCarried
  <1>3. ASSUME NEW c \in Creators, at[c] \in {"override", "copy"}, NEW rows \in SUBSET scores,
               s \in Carried(rows, target[c]),
               \A r \in rows : \/ at[c] = "override" /\ r.call \in {source[c].cms, source[c].other}
                               \/ at[c] = "copy" /\ r.call = source[c].cms,
               NEW new, Grown(new)
        PROVE  Linked(t.call, s.call)
    <2>1. target[c] \in Nat
      BY <1>1, <1>3, TargetIsThere
    <2>2. Inserts(Carried(rows, target[c]), rows, target[c])
      BY <1>1, <2>1, CarriedRows
    <2>3. PICK r \in rows : s.call = target[c] /\ s.origin = r.id
      BY <1>3, <2>2 DEF Inserts
    <2>4. r.id \in 1 .. Cardinality(scores) /\ Cardinality(scores) \in Nat
      BY <1>1, Rows DEF Table
    <2>5. PICK v \in scores : Same(v, t)
      BY <1>1, <1>3, <2>3, <2>4, OldRows
    <2>6. t.call = r.call
      BY <1>1, <2>3, <2>5 DEF Same, Table
    <2>. QED
      BY <1>3, <2>3, <2>6 DEF Linked
  <1>4. CASE \E c \in Creators : Acts(c)
    <2>1. PICK c \in Creators : Acts(c)
      BY <1>4
    <2>2. PICK new : Grown(new)
      BY <1>1, <2>1, RequestTable
    <2>3. CASE s \notin scores /\ Override(c)
      <3>. DEFINE rows == NewestPerFunction(Resolving(Assigned(source[c])))
      <3>1. rows \in SUBSET Assigned(source[c]) /\ rows \in SUBSET scores
        BY DEF NewestPerFunction, Resolving, Assigned
      <3>2. \A r \in rows : r.call \in {source[c].cms, source[c].other}
        BY <3>1 DEF Assigned, SourceOf
      <3>3. at[c] = "override" /\ s \in Carried(rows, target[c])
        BY <2>3 DEF Override
      <3>. HIDE DEF rows
      <3>. QED
        BY <1>3, <2>2, <3>1, <3>2, <3>3
    <2>4. CASE s \notin scores /\ Copy(c)
      <3>. DEFINE rows == Resolving(Of(source[c].cms))
      <3>1. rows \in SUBSET scores /\ \A r \in rows : r.call = source[c].cms
        BY DEF Resolving, Of
      <3>2. at[c] = "copy" /\ s \in Carried(rows, target[c])
        BY <2>4 DEF Copy
      <3>. HIDE DEF rows
      <3>. QED
        BY <1>3, <2>2, <3>1, <3>2
    <2>5. CASE s \in scores
      <3>1. s.id <= Cardinality(scores) /\ s.id \in Nat /\ Cardinality(scores) \in Nat
        BY <1>1, <2>5, Rows DEF Table
      <3>2. s \notin new
        BY <2>2, <3>1 DEF Grown
      <3>. QED
        BY <1>2, <2>2, <3>2
    <2>. QED
      BY <2>1, <2>3, <2>4, <2>5 DEF Acts, Post, Sources, Gate3, Diagnose, FindPrevious, Count, Crash
  <1>5. CASE \E a \in Answers : Answer(a)
    <2>1. PICK a \in Answers : Answer(a)
      BY <1>5
    <2>2. Grown({Row(a)}) /\ Row(a).origin = 0
      BY <1>1, <2>1, AnswerTable
    <2>. QED
      BY <1>2, <2>2
  <1>6. CASE (\E x \in scores : Confirm(x)) \/ (\E e \in Edits : Put(e)) \/ UNCHANGED rolloverVars
    <2>1. CASE \E x \in scores : Confirm(x)
      BY <1>1, <1>2, <2>1, ConfirmRows
    <2>2. CASE UNCHANGED scores
      BY <1>1, <1>2, <2>2, CallsStay, SameRows DEF TypeInv
    <2>. QED
      BY <1>6, <2>1, <2>2 DEF Put, rolloverVars
  <1>. QED
    BY <1>4, <1>5, <1>6 DEF RolloverNext, Acts

LEMMA ChosenLink ==
  ASSUME CopyInv, [RolloverNext]_rolloverVars, NEW c \in Creators, NEW d,
         \/ at'[c] \in {"gate3", "override"} /\ d \in {source'[c].cms, source'[c].other}
         \/ at'[c] \in {"count", "copy"} /\ d = source'[c].cms
  PROVE  \/ Linked(d, target'[c])
         \/ calls' = calls /\ d \in DOMAIN calls /\ target'[c] \in DOMAIN calls /\ Earlier(d, target'[c])
  <1>1. TypeInv /\ RolloverTypeOK
    BY CopyInvIsTyped DEF TypeInv
  <1>2. CASE at'[c] = at[c] /\ source'[c] = source[c] /\ target'[c] = target[c]
    BY <1>2 DEF Linked
  <1>3. CASE Acts(c)
    <2>1. CASE Sources(c)
      <3>1. /\ at'[c] \in {"gate3", "previous"} /\ calls' = calls /\ target' = target
            /\ at[c] = "sources"
        BY <1>1, <2>1 DEF Sources, MoveTo, RolloverTypeOK
      <3>2. IsOverrideTarget(target[c]) /\ source'[c].cms = Named(CmsSource)
            /\ source'[c].other = Named(OtherSource)
        BY <1>1, <2>1, <3>1 DEF Sources, MoveTo, RolloverTypeOK
      <3>. QED
        BY <1>1, <3>1, <3>2, NamedIsThere, TargetIsThere DEF IsOverrideTarget
    <2>2. CASE FindPrevious(c)
      <3>1. /\ at'[c] \in {"count", "ended"} /\ calls' = calls /\ target' = target
            /\ at[c] = "previous"
        BY <1>1, <2>2 DEF FindPrevious, MoveTo, RolloverTypeOK
      <3>2. Candidates(target[c]) # {} /\ source'[c].cms = Previous(target[c])
        BY <1>1, <2>2, <3>1 DEF FindPrevious, MoveTo, RolloverTypeOK
      <3>. QED
        BY <1>1, <3>1, <3>2, PreviousIsEarlier, TargetIsThere
    <2>3. CASE Gate3(c)
      <3>1. at[c] = "gate3" /\ at'[c] \in {"override", "previous"} /\ source' = source /\ target' = target
        BY <1>1, <2>3 DEF Gate3, MoveTo, RolloverTypeOK
      <3>. QED
        BY <3>1 DEF Linked
    <2>4. CASE Count(c)
      <3>1. at[c] = "count" /\ at'[c] \in {"copy", "ended"} /\ source' = source /\ target' = target
        BY <1>1, <2>4 DEF Count, MoveTo, RolloverTypeOK
      <3>. QED
        BY <3>1 DEF Linked
    <2>5. ASSUME (\E w \in Wanted : Post(c, w)) \/ Override(c) \/ Diagnose(c) \/ Copy(c) \/ Crash(c)
          PROVE  FALSE
      <3>1. at'[c] \in {"refused", "sources", "diagnose", "ended", "crashed"}
        BY <1>1, <2>5 DEF Post, Override, Diagnose, Copy, Crash, MoveTo, RolloverTypeOK
      <3>. QED
        BY <3>1
    <2>. QED
      BY <1>3, <2>1, <2>2, <2>3, <2>4, <2>5 DEF Acts
  <1>4. CASE \E b \in Creators \ {c} : Acts(b)
    BY <1>1, <1>2, <1>4, OthersStill DEF Still
  <1>5. CASE UNCHANGED <<at, source, target>>
    BY <1>2, <1>5
  <1>. QED
    BY <1>3, <1>4, <1>5 DEF RolloverNext, Acts, Put, Answer, Confirm, creation, rolloverVars

LEMMA InOrderStep ==
  CopyInv /\ CopyInv' /\ LinkedInOrder /\ [RolloverNext]_rolloverVars /\ [OrderStands]_rolloverVars
    => LinkedInOrder'
  <1>. SUFFICES ASSUME CopyInv, CopyInv', LinkedInOrder, [RolloverNext]_rolloverVars,
                       [OrderStands]_rolloverVars,
                       NEW d \in Nat, NEW e \in Nat, Linked(d, e)'
                PROVE  d \in DOMAIN calls' /\ e \in DOMAIN calls' /\ Earlier(d, e)'
    BY DEF LinkedInOrder
  <1>1. \/ Linked(d, e)
        \/ calls' = calls /\ d \in DOMAIN calls /\ e \in DOMAIN calls /\ Earlier(d, e)
    <2>1. CASE \E s, t \in scores' : s.origin # 0 /\ t.id = s.origin /\ t.call = d /\ s.call = e
      BY <2>1, CarriedLink
    <2>2. CASE \E c \in Creators :
                 /\ target'[c] = e
                 /\ \/ at'[c] \in {"gate3", "override"} /\ d \in {source'[c].cms, source'[c].other}
                    \/ at'[c] \in {"count", "copy"} /\ d = source'[c].cms
      BY <2>2, ChosenLink
    <2>. QED
      BY <2>1, <2>2 DEF Linked, IsCarried
  <1>2. DOMAIN calls \subseteq DOMAIN calls'
    BY CallsStay DEF CopyInv
  <1>3. CASE Linked(d, e)
    <2>1. d \in DOMAIN calls /\ e \in DOMAIN calls /\ Earlier(d, e)
      BY <1>3 DEF LinkedInOrder
    <2>2. CASE OrderStands
      BY <1>2, <1>3, <2>1, <2>2 DEF OrderStands
    <2>3. CASE UNCHANGED rolloverVars
      BY <2>1, <2>3 DEF rolloverVars, Earlier
    <2>. QED
      BY <1>2, <2>1, <2>2, <2>3
  <1>4. CASE calls' = calls /\ d \in DOMAIN calls /\ e \in DOMAIN calls /\ Earlier(d, e)
    BY <1>4 DEF Earlier
  <1>. QED
    BY <1>1, <1>3, <1>4

-----------------------------------------------------------------------------
(* Whatever the requests do, in whatever order and wherever they fail or     *)
(* stop, every row of datacalls and scores keeps its columns' types, a       *)
(* request copies only into a data call that exists, and every alarm is      *)
(* about one.                                                                *)
THEOREM RolloverTypesHold == RolloverSpec => []RolloverTypeOK
  <1>1. TypeInv => RolloverTypeOK
    BY DEF TypeInv
  <1>. QED
    BY <1>1, TypeInvHolds, PTL

(* The override gives every system at most one answer per question, the      *)
(* newest that resolves in the cycle of its own OpDiv, and keeps it so: no   *)
(* other request's copy, no confirm and no edit puts a second one beside it. *)
THEOREM LineagesAreKept == RolloverSpec => []OverrideKeepsLineages
  <1>1. CopyInv => OverrideKeepsLineages
    BY DEF CopyInv, KeepsLineages, OverrideKeepsLineages
  <1>. QED
    BY <1>1, CopyInvHolds, PTL

(* A rollover about which nothing was logged lost none of the answers its    *)
(* source held when it was chosen, but for one at most for each answer that  *)
(* users added to the source between the count and the copy.  The count that *)
(* the copy is compared with is of rows of which each dead one is short in   *)
(* the copy and only a late one can stand in for it; the diagnostics query   *)
(* of the override cannot miss one.                                          *)
THEOREM SilentLossesAreBounded == RolloverSpec => []SilentLossIsBounded
  <1>1. CopyInv => SilentLossIsBounded
    BY DEF CopyInv, LossBounded, SilentLossIsBounded
  <1>. QED
    BY <1>1, CopyInvHolds, PTL

(* As long as no edit of a data call moves it before one whose answers it    *)
(* has or is getting, answers flow forward in time on both paths, and count  *)
(* as reviewed in a cycle only when a user touched them there.               *)
THEOREM AnswersFlowForwardOnly == RolloverSpec /\ [][OrderStands]_rolloverVars => []AnswersFlowForward
  <1>. DEFINE Inv == CopyInv /\ LinkedInOrder /\ ReviewedMeansTouched
  <1>1. RolloverInit => Inv
    <2>. SUFFICES ASSUME RolloverInit PROVE Inv
      OBVIOUS
    <2>1. CopyInv
      BY CopyInvInit
    <2>2. LinkedInOrder
      <3>1. \A s \in scores : s.origin = 0
        BY TablesAssumption DEF RolloverInit
      <3>2. \A c \in Creators : at[c] = "idle"
        BY DEF RolloverInit
      <3>. QED
        BY <3>1, <3>2 DEF LinkedInOrder, Linked, IsCarried
    <2>3. ReviewedMeansTouched
      BY DEF RolloverInit, ReviewedMeansTouched
    <2>. QED
      BY <2>1, <2>2, <2>3
  <1>2. Inv /\ [RolloverNext]_rolloverVars /\ [OrderStands]_rolloverVars => Inv'
    BY CopyInvStep, InOrderStep, ReviewedStep, CopyInvIsTyped
  <1>3. Inv => AnswersFlowForward
    <2>. SUFFICES ASSUME Inv, NEW s \in scores, NEW t \in scores, IsCarried(s), t.id = s.origin
                  PROVE  Earlier(t.call, s.call)
      BY DEF AnswersFlowForward, FlowsForward, Earlier
    <2>1. t.call \in Nat /\ s.call \in Nat
      BY Rows DEF CopyInv
    <2>. QED
      BY <2>1 DEF LinkedInOrder, Linked
  <1>. HIDE DEF Inv
  <1>. QED
    BY <1>1, <1>2, <1>3, PTL DEF RolloverSpec

=============================================================================
