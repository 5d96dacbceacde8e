------------------------------ MODULE Rollover ------------------------------
(***************************************************************************)
(* Creating a data call (POST /datacalls) and rolling the previous cycle's *)
(* answers into it.                                                        *)
(*                                                                         *)
(* The INSERT of the data call commits on its own; the copy follows on     *)
(* other connections, statement by statement, while other requests create  *)
(* and edit data calls and write scores.  The copy is best effort: what    *)
(* goes wrong is logged, with the token ROLLOVER_ANOMALY that an alarm     *)
(* watches (`alarms`) or without (`remarks`), and no error of the request. *)
(* Two paths choose what is copied: the FY26 override, keyed by OpDiv, and *)
(* the global previous data call.                                          *)
(*                                                                         *)
(* `origin`, `due`, `path`, `late` and `touched` are history.              *)
(***************************************************************************)
EXTENDS Naturals, FiniteSets, Sequences

CONSTANTS
  Creators,               \* POST /datacalls requests; each is used once
  Names,                  \* data call names
  FY26Names,              \* those the override's prefixes match
  CmsSource, OtherSource, \* the two names the override copies from
  FismaSystems, CmsSystems,    \* the systems, and those of OpDiv CMS
  Options, Dead,          \* answers, and those whose option resolves to nothing
  FunctionOf,             \* the question each option answers
  SeedCalls, SeedScores,  \* the tables when the behaviour starts
  Wanted,   \* bound: the [name, deadline] that requests ask for
  Edits,    \* bound: the [id, name, deadline] of PUT /datacalls/{id}
  Answers,  \* bound: the [call, system, option] users add meanwhile
  MaxScores,\* bound: users add no score past this identifier
  Faults    \* bound: the statements that may fail

(* The statements of a request, in the order of the two paths. *)
Statements == {"sources", "gate3", "override", "diagnose", "previous", "count", "copy"}
Label == Statements \cup {"idle", "ended", "refused", "crashed"}
Paths == {"none", "override", "global"}
Call == [name : Names, deadline : Nat]
Score == [id : Nat, call : Nat, system : FismaSystems, option : Options,
          status : {"not_started", "done"}, origin : Nat]

Source == [cms : Nat, other : Nat, deadline : Nat]

(* The rows are numbered from 1 as they are inserted, and refer to data calls
   that exist.  Only rows of the spreadsheets' bulk loads have an option that
   no longer resolves: a user's answer is one of functionoptions. *)
ASSUME TablesAssumption ==
  /\ CmsSource # OtherSource /\ {CmsSource, OtherSource} \cap FY26Names = {}
  /\ SeedCalls \in Seq(Call)
  /\ SeedScores \subseteq Score /\ IsFiniteSet(SeedScores)
  /\ \A s \in SeedScores :
       s.id \in 1 .. Cardinality(SeedScores) /\ s.call \in DOMAIN SeedCalls /\ s.origin = 0
  /\ \A s, t \in SeedScores : s.id = t.id => s = t
ASSUME BoundsAssumption ==
  /\ Wanted \subseteq Call /\ Faults \subseteq Statements \cup {"crash"} /\ MaxScores \in Nat
  /\ Edits \subseteq [id : Nat, name : Names, deadline : Nat]
  /\ Answers \subseteq [call : Nat, system : FismaSystems, option : Options \ Dead]

VARIABLES
  calls,   \* the datacalls table, by datacallid
  scores,  \* the scores table; `origin` is the row a carried row was copied from
  alarms,  \* the data calls for which ROLLOVER_ANOMALY was logged
  remarks, \* those for which `diagnostics_err` was, without that token
  at,      \* the statement a request is at
  target,  \* the data call the request has inserted (0: none)
  source,  \* what it copies from (the two sources, or the previous call
           \* twice), and the target's deadline when that was read
  tally,   \* the count it keeps: `expected`, or the override's `copied`
  due,     \* history: the rows of its source when it chose the source
  path,    \* history: the path that copied
  late,    \* history: the rows users added to its source between its count
           \* and its copy
  touched  \* history: the rows a user has answered

creation == <<at, target, source, tally, due, path, late>>
rolloverVars == <<calls, scores, alarms, remarks, creation, touched>>

(* Every row has the columns' types and refers to rows that exist; a history
   names only rows and calls that are stored. *)
RolloverTypeOK ==
  /\ calls \in Seq(Call)
  /\ scores \subseteq Score
  /\ alarms \subseteq DOMAIN calls /\ remarks \subseteq DOMAIN calls
  /\ at \in [Creators -> Label]
  /\ target \in [Creators -> {0} \cup DOMAIN calls]
  /\ source \in [Creators -> Source]
  /\ tally \in [Creators -> Nat]
  /\ due \in [Creators -> SUBSET Nat]
  /\ path \in [Creators -> Paths]
  /\ late \in [Creators -> SUBSET {s.id : s \in scores}]
  /\ touched \subseteq {s.id : s \in scores}

RolloverInit ==
  /\ calls = SeedCalls
  /\ scores = SeedScores
  /\ alarms = {} /\ remarks = {}
  /\ at = [c \in Creators |-> "idle"]
  /\ target = [c \in Creators |-> 0]
  /\ source = [c \in Creators |-> [cms |-> 0, other |-> 0, deadline |-> 0]]
  /\ tally = [c \in Creators |-> 0]
  /\ due = [c \in Creators |-> {}]
  /\ path = [c \in Creators |-> "none"]
  /\ late = [c \in Creators |-> {}]
  /\ touched = {s.id : s \in SeedScores}

-----------------------------------------------------------------------------
(* Reading the tables. *)

MoveTo(c, label) == at' = [at EXCEPT ![c] = label]
Fails(statement) == statement \in Faults
Alarm(c) == alarms' = alarms \cup {target[c]}

Of(d) == {s \in scores : s.call = d}
Resolves(s) == s.option \notin Dead
NameTaken(name) == \E d \in DOMAIN calls : calls[d].name = name
Named(name) == CHOOSE d \in DOMAIN calls : calls[d].name = name

(* Data call d precedes one with identifier e and the given deadline. *)
Before(d, e, deadline) ==
  \/ calls[d].deadline < deadline
  \/ calls[d].deadline = deadline /\ d < e

(* Variant: the latest other data call, wherever its deadline lies (#448). *)
EarlierThanAnyOther(d, e) == d # e

(* findPreviousDataCall's WHERE clause. *)
Earlier(d, e) == calls[d].deadline < calls[e].deadline

Candidates(e) == {d \in DOMAIN calls : Earlier(d, e)}
Previous(e) ==
  CHOOSE d \in Candidates(e) : \A x \in Candidates(e) : x = d \/ Before(x, d, calls[d].deadline)

(* The rows assigned to the override: each system's OpDiv selects one source. *)
SourceOf(src, system) == IF system \in CmsSystems THEN src.cms ELSE src.other

Assigned(src) == {s \in scores : s.call = SourceOf(src, s.system)}

Resolving(rows) == {s \in rows : Resolves(s)}

(* Variant: without DISTINCT ON. *)
NewestPerFunctionDuplicated(rows) == rows

(* DISTINCT ON (fismasystemid, functionid) ... ORDER BY scoreid DESC *)
NewestPerFunction(rows) ==
  {s \in rows : \A x \in rows :
     x.system = s.system /\ FunctionOf[x.option] = FunctionOf[s.option] => x.id <= s.id}

(* The identifier that row s gets among the rows inserted with it. *)
Place(s, rows) == Cardinality(scores) + Cardinality({x \in rows : x.id <= s.id})

(* Variant: the status literal is not one the column's CHECK allows. *)
CarriedMisspelled(rows, d) ==
  {[id |-> Place(s, rows), call |-> d, system |-> s.system, option |-> s.option,
    status |-> "notstarted", origin |-> s.id] : s \in rows}

(* INSERT ... SELECT of rows into data call d, in the order of their ids. *)
Carried(rows, d) ==
  {[id |-> Place(s, rows), call |-> d, system |-> s.system, option |-> s.option,
    status |-> "not_started", origin |-> s.id] : s \in rows}

-----------------------------------------------------------------------------
(* DataCall.Save and copyPreviousScores. *)

(* The name is UNIQUE: a second INSERT of it fails. *)
Post(c, w) ==
  /\ at[c] = "idle"
  /\ IF NameTaken(w.name)
     THEN MoveTo(c, "refused") /\ UNCHANGED <<calls, target>>
     ELSE /\ calls' = Append(calls, w)
          /\ target' = [target EXCEPT ![c] = Len(calls) + 1]
          /\ MoveTo(c, "sources")
  /\ UNCHANGED <<scores, alarms, remarks, source, tally, due, path, late, touched>>

(* Gates 1 and 2: both sources exist, neither is the target, the target is
   named FY26 and its deadline is later than both. *)
IsOverrideTarget(d) ==
  /\ NameTaken(CmsSource) /\ NameTaken(OtherSource)
  /\ calls[d].name \in FY26Names
  /\ Earlier(Named(CmsSource), d) /\ Earlier(Named(OtherSource), d)

(* A failed lookup declines the override like an unmet gate does. *)
Sources(c) ==
  /\ at[c] = "sources"
  /\ \/ /\ IsOverrideTarget(target[c])
        /\ source' = [source EXCEPT ![c] =
                        [cms |-> Named(CmsSource), other |-> Named(OtherSource),
                         deadline |-> calls[target[c]].deadline]]
        /\ MoveTo(c, "gate3")
     \/ /\ ~IsOverrideTarget(target[c]) \/ Fails("sources")
        /\ MoveTo(c, "previous")
        /\ UNCHANGED source
  /\ UNCHANGED <<calls, scores, alarms, remarks, target, tally, due, path, late, touched>>

(* Gate 3: no FY26 data call precedes the target. *)
Gate3(c) ==
  /\ at[c] = "gate3"
  /\ LET first == \A d \in DOMAIN calls \ {target[c]} :
                    calls[d].name \in FY26Names =>
                      ~Before(d, target[c], source[c].deadline)
     IN \/ /\ first
           /\ due' = [due EXCEPT ![c] = {s.id : s \in Assigned(source[c])}]
           /\ MoveTo(c, "override")
        \/ /\ ~first \/ Fails("gate3")
           /\ MoveTo(c, "previous")
           /\ UNCHANGED due
  /\ UNCHANGED <<calls, scores, alarms, remarks, target, source, tally, path, late, touched>>

Override(c) ==
  /\ at[c] = "override"
  /\ \/ /\ LET rows == NewestPerFunction(Resolving(Assigned(source[c]))) IN
           /\ scores' = scores \cup Carried(rows, target[c])
           /\ tally' = [tally EXCEPT ![c] = Cardinality(rows)]
        /\ path' = [path EXCEPT ![c] = "override"]
        /\ MoveTo(c, "diagnose")
        /\ UNCHANGED alarms
     \/ /\ Fails("override")
        /\ Alarm(c)
        /\ MoveTo(c, "ended")
        /\ UNCHANGED <<scores, path, tally>>
  /\ UNCHANGED <<calls, remarks, target, source, due, late, touched>>

(* Systems with an answer in either source and none in the target. *)
Stranded(c) ==
  {s.system : s \in Of(source[c].cms) \cup Of(source[c].other)} \
    {s.system : s \in Of(target[c])}

(* The diagnostics query reads the tables again, after the copy. *)
Anomalous(c) ==
  \/ Assigned(source[c]) # Resolving(Assigned(source[c]))
  \/ tally[c] = 0 /\ Resolving(Assigned(source[c])) # {}
  \/ CmsSystems = {}
  \/ Stranded(c) # {}

(* A failed diagnostics query is logged without the token. *)
Diagnose(c) ==
  /\ at[c] = "diagnose"
  /\ \/ /\ Anomalous(c)
        /\ Alarm(c)
        /\ UNCHANGED remarks
     \/ /\ ~Anomalous(c)
        /\ UNCHANGED <<alarms, remarks>>
     \/ /\ Fails("diagnose")
        /\ remarks' = remarks \cup {target[c]}
        /\ UNCHANGED alarms
  /\ MoveTo(c, "ended")
  /\ UNCHANGED <<calls, scores, target, source, tally, due, path, late, touched>>

FindPrevious(c) ==
  /\ at[c] = "previous"
  /\ \/ /\ Candidates(target[c]) # {}
        /\ LET d == Previous(target[c]) IN
           /\ source' = [source EXCEPT ![c] = [cms |-> d, other |-> d, deadline |-> 0]]
           /\ due' = [due EXCEPT ![c] = {s.id : s \in Of(d)}]
        /\ MoveTo(c, "count")
        /\ UNCHANGED alarms
     \/ /\ Candidates(target[c]) = {}
        /\ MoveTo(c, "ended")
        /\ UNCHANGED <<source, due, alarms>>
     \/ /\ Fails("previous")
        /\ Alarm(c)
        /\ MoveTo(c, "ended")
        /\ UNCHANGED <<source, due>>
  /\ UNCHANGED <<calls, scores, remarks, target, tally, path, late, touched>>

Count(c) ==
  /\ at[c] = "count"
  /\ \/ /\ tally' = [tally EXCEPT ![c] = Cardinality(Of(source[c].cms))]
        /\ MoveTo(c, "copy")
        /\ UNCHANGED alarms
     \/ /\ Fails("count")
        /\ Alarm(c)
        /\ MoveTo(c, "ended")
        /\ UNCHANGED tally
  /\ UNCHANGED <<calls, scores, remarks, target, source, due, path, late, touched>>

(* Variant: only an empty copy is an anomaly. *)
FallsShortOnlyIfEmpty(copied, wanted) == copied = 0 /\ wanted > 0

FallsShort(copied, wanted) == copied < wanted

Copy(c) ==
  /\ at[c] = "copy"
  /\ LET rows == Resolving(Of(source[c].cms)) IN
     \/ /\ scores' = scores \cup Carried(rows, target[c])
        /\ path' = [path EXCEPT ![c] = "global"]
        /\ IF FallsShort(Cardinality(rows), tally[c])
           THEN Alarm(c) ELSE UNCHANGED alarms
     \/ /\ Fails("copy")
        /\ Alarm(c)
        /\ UNCHANGED <<scores, path>>
  /\ MoveTo(c, "ended")
  /\ UNCHANGED <<calls, remarks, target, source, tally, due, late, touched>>

(* The task stops: nothing resumes the copy, and nothing is logged. *)
Crash(c) ==
  /\ at[c] \in Statements
  /\ "crash" \in Faults
  /\ MoveTo(c, "crashed")
  /\ UNCHANGED <<calls, scores, alarms, remarks, target, source, tally, due, path, late, touched>>

-----------------------------------------------------------------------------
(* What others do meanwhile. *)

(* PUT /datacalls/{id}: no copy. *)
Put(e) ==
  /\ e.id \in DOMAIN calls
  /\ \A d \in DOMAIN calls \ {e.id} : calls[d].name # e.name
  /\ calls' = [calls EXCEPT ![e.id] = [name |-> e.name, deadline |-> e.deadline]]
  /\ UNCHANGED <<scores, alarms, remarks, creation, touched>>

(* POST /scores *)
Answer(a) ==
  LET i == Cardinality(scores) + 1 IN
  /\ a.call \in DOMAIN calls
  /\ i <= MaxScores
  /\ scores' = scores \cup {[id |-> i, call |-> a.call, system |-> a.system,
                             option |-> a.option, status |-> "done", origin |-> 0]}
  /\ touched' = touched \cup {i}
  /\ late' = [c \in Creators |->
                IF at[c] = "copy" /\ source[c].cms = a.call THEN late[c] \cup {i} ELSE late[c]]
  /\ UNCHANGED <<calls, alarms, remarks, at, target, source, tally, due, path>>

(* PUT /scores/{id}/confirm of a carried row that a user may answer. *)
Confirm(s) ==
  /\ s.status = "not_started"
  /\ [call |-> s.call, system |-> s.system, option |-> s.option] \in Answers
  /\ scores' = (scores \ {s}) \cup {[s EXCEPT !.status = "done"]}
  /\ touched' = touched \cup {s.id}
  /\ UNCHANGED <<calls, alarms, remarks, creation>>

RolloverNext ==
  \/ \E c \in Creators :
       \/ \E w \in Wanted : Post(c, w)
       \/ Sources(c) \/ Gate3(c) \/ Override(c) \/ Diagnose(c)
       \/ FindPrevious(c) \/ Count(c) \/ Copy(c) \/ Crash(c)
  \/ \E e \in Edits : Put(e)
  \/ \E a \in Answers : Answer(a)
  \/ \E s \in scores : Confirm(s)

RolloverSpec == RolloverInit /\ [][RolloverNext]_rolloverVars

-----------------------------------------------------------------------------
(* Properties. *)

IsCarried(s) == s.origin # 0

(* A carried answer comes from a cycle whose deadline is earlier. *)
FlowsForward ==
  \A s, t \in scores : IsCarried(s) /\ t.id = s.origin =>
    calls[t.call].deadline < calls[s.call].deadline

(* An answer counts as reviewed in a cycle only when a user touched it there. *)
ReviewedMeansTouched ==
  \A s \in scores : s.status = "done" => s.id \in touched

(* Answers only flow forward in time, on either path and also when a cycle is
   created for the past, and start unreviewed whatever they were where they
   come from (findPreviousDataCall, the override's second gate, #448, and the
   copies' status, #299, #435). *)
AnswersFlowForward == FlowsForward /\ ReviewedMeansTouched

(* The override gives every system at most one answer per question, and only
   answers of the cycle of its own OpDiv, although the sources hold
   duplicates and systems answered in both. *)
OverrideKeepsLineages ==
  \A c \in Creators : path[c] = "override" =>
    \A s \in Of(target[c]) : IsCarried(s) =>
      /\ \E t \in Assigned(source[c]) : t.id = s.origin
      /\ \A x \in Of(target[c]) :
           /\ IsCarried(x) /\ x.system = s.system
           /\ FunctionOf[x.option] = FunctionOf[s.option]
           => x = s

(* Answer s has reached data call d: one of its lineage was carried there. *)
Arrived(s, d) ==
  /\ Resolves(s)
  /\ \E t \in Of(d) : /\ IsCarried(t) /\ t.system = s.system
                      /\ FunctionOf[t.option] = FunctionOf[s.option]

Ended(c) == at[c] = "ended"

(* The answers that were due to a request and have not arrived. *)
Missing(c) ==
  {i \in due[c] : \E s \in scores : s.id = i /\ ~Arrived(s, target[c])}

(* A rollover about which nothing was logged, with the token or without, has
   lost none of the answers its source held when it was chosen, whichever
   statement failed and whoever answered or created data calls meanwhile; only
   the answers that users added to the source between the count and the copy
   may each hide one that was dropped (copyPreviousScores compares two numbers
   taken at two times; the override compares rows and has no such window). *)
SilentLossIsBounded ==
  \A c \in Creators : Ended(c) /\ target[c] \notin alarms \cup remarks =>
    Cardinality(Missing(c)) <= Cardinality(late[c])

(* What copyPreviousScores says of itself ("a zero, partial, or errored copy is
   surfaced loudly via the ROLLOVER_ANOMALY log token"): no rollover has ended
   without an alarm and lost an answer.  Not so. *)
PartialCopyIsSurfaced ==
  \A c \in Creators : Ended(c) /\ target[c] \notin alarms => Missing(c) = {}

(* What it goes on to say ("so an empty cycle is detected rather than shipped
   silently"): no cycle is left empty in silence once every request has ended,
   while the cycle before it has answers.  Not so. *)
EmptyCycleIsDetected ==
  (\A c \in Creators : at[c] \in {"idle", "ended", "refused"}) =>
    \A c \in Creators :
      LET d == target[c] IN
      /\ Ended(c) /\ d \notin alarms
      /\ Candidates(d) # {} /\ Of(Previous(d)) # {}
      => Of(d) # {}
=============================================================================
