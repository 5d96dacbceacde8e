---------------------------- MODULE ScoreReview -----------------------------
(***************************************************************************)
(* The questionnaire's write path: POST /scores, PUT /scores/{id} and      *)
(* PUT /scores/{id}/confirm, run by concurrent requests against the scores *)
(* and events tables.                                                      *)
(*                                                                         *)
(* Each SQL statement is a step of its own: nothing in the code wraps them *)
(* in a transaction.  A request is authenticated (the middleware takes a   *)
(* snapshot of the user and of the user's grants), loads the stored row,   *)
(* is authorised against it, reads the data call's deadline, writes the    *)
(* row, records an audit event and reads the newest event back.  A request *)
(* may end after any statement: a lost client cancels the context, and a   *)
(* stopped task takes its requests with it.                                *)
(*                                                                         *)
(* `ledger` (the row writes, in order) and `openSeen` are history: the     *)
(* code keeps no such thing and no guard reads them.                       *)
(***************************************************************************)
EXTENDS Naturals, Sequences

CONSTANTS
  Requests,   \* HTTP requests; each identifier is used once
  Users, ReadOnly, Admins, Unscoped, \* role tiers, by what scores may do
  Nobody,     \* "no editor": the audit pair is absent
  Systems, Cycles, ScoreIds,
  Texts,      \* what a user answers: an option and its notes
  LongTexts,  \* answers whose notes exceed 2000 runes
  Seed,       \* the scores table when the behaviour starts
  Grants,     \* the grants when the behaviour starts
  Inputs,     \* bound: the requests that clients send
  Movable,    \* bound: the <<user, system>> grants that change meanwhile
  Closing     \* bound: the cycles whose deadline passes or moves meanwhile

AiFlags == {"yes", "no"}
AiInputs == AiFlags \cup {"unset"}
Ops == {"create", "save", "confirm"}

Row == [system : Systems, cycle : Cycles, text : Texts, ai : AiFlags,
        status : {"absent", "not_started", "done"}]

(* A request's path, query and body.  The system and the cycle a PUT names
   are client assertions. *)
Body == [user : Users, op : Ops, id : ScoreIds, text : Texts,
         ai : AiInputs, system : Systems, cycle : Cycles]

ASSUME TiersAssumption ==
  /\ Admins \subseteq Users /\ ReadOnly \subseteq Users
  /\ Unscoped \subseteq Admins /\ Admins \cap ReadOnly = {}
ASSUME NobodyAssumption == Nobody \notin Users
ASSUME SeedAssumption ==
  /\ Row # {} /\ Body # {}
  /\ Seed \in [ScoreIds -> Row]
  /\ Grants \in [Users -> SUBSET Systems]
ASSUME InputsAssumption == Inputs \subseteq Body
ASSUME WorldAssumption == Movable \subseteq Users \X Systems /\ Closing \subseteq Cycles
ASSUME LongAssumption == LongTexts \subseteq Texts

VARIABLES
  rows,      \* the scores table
  ledger,    \* history: every row write, in the order of the writes
  recorded,  \* the ledger positions that have a row in the events table
  newest,    \* per score, the position its newest event describes (0: none)
  pc, body, snap, loaded, mine, ack, \* per request
  closed,    \* the cycles whose deadline has passed
  grant,     \* the systems each user is assigned to, or manages
  openSeen   \* history: the cycles open at some moment of the request's life

table == <<rows, ledger>>
audit == <<recorded, newest>>
request == <<pc, body, snap, loaded, mine, ack>>
world == <<closed, grant>>
vars == <<rows, ledger, recorded, newest, pc, body, snap, loaded, mine, ack,
          closed, grant, openSeen>>

Codes == {"none", "ok", "forbidden", "not_found", "past_deadline",
          "too_long", "aborted"}
Labels == {"idle", "load", "check", "write", "event", "reload", "stamp", "done"}

Entry == [req : Requests, op : Ops, id : ScoreIds, text : Texts, ai : AiFlags]
Acks == [code : Codes, editor : Users \cup {Nobody}]

(* Every row satisfies the columns' types and CHECKs; every event and every
   request refers to a write that happened. *)
TypeOK ==
  /\ rows \in [ScoreIds -> Row]
  /\ ledger \in Seq(Entry)
  /\ recorded \subseteq DOMAIN ledger
  /\ newest \in [ScoreIds -> {0} \cup DOMAIN ledger]
  /\ pc \in [Requests -> Labels]
  /\ body \in [Requests -> Body]
  /\ snap \in [Requests -> SUBSET Systems]
  /\ loaded \in [Requests -> Row]
  /\ mine \in [Requests -> {0} \cup DOMAIN ledger]
  /\ ack \in [Requests -> Acks]
  /\ closed \in SUBSET Cycles
  /\ grant \in [Users -> SUBSET Systems]
  /\ openSeen \in [Requests -> SUBSET Cycles]

Init ==
  /\ rows = Seed
  /\ ledger = <<>>
  /\ recorded = {}
  /\ newest = [i \in ScoreIds |-> 0]
  /\ pc = [r \in Requests |-> "idle"]
  /\ body = [r \in Requests |-> CHOOSE b \in Body : TRUE]
  /\ snap = [r \in Requests |-> {}]
  /\ loaded = [r \in Requests |-> CHOOSE w \in Row : TRUE]
  /\ mine = [r \in Requests |-> 0]
  /\ ack = [r \in Requests |-> [code |-> "none", editor |-> Nobody]]
  /\ closed = {}
  /\ grant = Grants
  /\ openSeen = [r \in Requests |-> {}]

-----------------------------------------------------------------------------
(* The pieces the handlers share. *)

Goto(r, label) == pc' = [pc EXCEPT ![r] = label]

Answered(r, code, editor) ==
  /\ Goto(r, "done")
  /\ ack' = [ack EXCEPT ![r] = [code |-> code, editor |-> editor]]

(* guardScoreWrite: a non-admin needs the per-system assignment, an admin the
   system's OpDiv; read-only tiers never write. *)
MayWrite(u, systems, s) ==
  u \notin ReadOnly /\ (u \in Unscoped \/ s \in systems)

(* scoresEqualForUpdate: an unset AI flag is not compared. *)
SameAnswer(row, b) ==
  row.text = b.text /\ (b.ai = "unset" \/ row.ai = b.ai)

(* Variant: the status literal is misspelled. *)
ReviewedMisspelled(row, b) == [row EXCEPT !.text = b.text, !.status = "reviewed"]

(* Variant: an absent AI flag is written as its zero value. *)
ReviewedAiReset(row, b) ==
  [row EXCEPT !.text = b.text,
              !.ai = IF b.ai = "unset" THEN "no" ELSE b.ai,
              !.status = "done"]

(* The row after UPDATE ... SET notes, functionoptionid, status [, ai]. *)
Reviewed(row, b) ==
  [row EXCEPT !.text = b.text,
              !.ai = IF b.ai = "unset" THEN row.ai ELSE b.ai,
              !.status = "done"]

Inserted(b) ==
  [system |-> b.system, cycle |-> b.cycle, text |-> b.text,
   ai |-> IF b.ai = "unset" THEN "no" ELSE b.ai, status |-> "done"]

(* One INSERT or UPDATE on scores: row i becomes w, and the request moves on
   to its audit event. *)
Write(r, i, w) ==
  /\ rows' = [rows EXCEPT ![i] = w]
  /\ ledger' = Append(ledger, [req |-> r, op |-> body[r].op, id |-> i,
                               text |-> w.text, ai |-> w.ai])
  /\ mine' = [mine EXCEPT ![r] = Len(ledger) + 1]
  /\ Goto(r, "event")

-----------------------------------------------------------------------------
(* The request's steps. *)

(* The middleware resolves the user; the handler rejects read-only tiers
   before any score is read. *)
Begin(r, b) ==
  /\ pc[r] = "idle"
  /\ body' = [body EXCEPT ![r] = b]
  /\ snap' = [snap EXCEPT ![r] = grant[b.user]]
  /\ openSeen' = [openSeen EXCEPT ![r] = Cycles \ closed]
  /\ \/ /\ b.user \in ReadOnly
        /\ Answered(r, "forbidden", Nobody)
     \/ /\ b.user \notin ReadOnly
        /\ Goto(r, "load")
        /\ UNCHANGED ack
  /\ UNCHANGED <<table, audit, loaded, mine, world>>

(* The row the guard and the deadline are judged on: the stored one for an
   update, the one the body describes for a create. *)
Judged(r) == IF body[r].op = "create" THEN Inserted(body[r]) ELSE rows[body[r].id]

Load(r) ==
  /\ pc[r] = "load"
  /\ LET b == body[r]
         w == Judged(r)
         found == b.op = "create" \/ w.status # "absent"
         may == MayWrite(b.user, snap[r], w.system)
     IN
     /\ loaded' = [loaded EXCEPT ![r] = w]
     /\ \/ ~found /\ Answered(r, "not_found", Nobody)
        \/ found /\ ~may /\ Answered(r, "forbidden", Nobody)
        \/ found /\ may /\ Goto(r, "check") /\ UNCHANGED ack
  /\ UNCHANGED <<table, audit, body, snap, mine, world, openSeen>>

(* Variant: the deadline of the cycle the body names. *)
PastDeadlineOfBody(r) ==
  body[r].cycle \in closed /\ body[r].user \notin Admins

PastDeadline(r) ==
  loaded[r].cycle \in closed /\ body[r].user \notin Admins

(* validate, or for a confirm validateDeadline alone. *)
Check(r) ==
  /\ pc[r] = "check"
  /\ LET overlong == body[r].op # "confirm" /\ body[r].text \in LongTexts IN
     \/ /\ overlong
        /\ Answered(r, "too_long", Nobody)
     \/ /\ ~overlong /\ PastDeadline(r)
        /\ Answered(r, "past_deadline", Nobody)
     \/ /\ ~overlong /\ ~PastDeadline(r)
        /\ Goto(r, "write")
        /\ UNCHANGED ack
  /\ UNCHANGED <<table, audit, body, snap, loaded, mine, world, openSeen>>

Insert(r, i) ==
  /\ pc[r] = "write" /\ body[r].op = "create"
  /\ rows[i].status = "absent"
  /\ Write(r, i, Inserted(body[r]))
  /\ UNCHANGED <<audit, body, snap, loaded, ack, world, openSeen>>

(* The comparison is with the row the controller loaded, not with a fresh
   read of it. *)
SkipSave(r) ==
  /\ pc[r] = "write" /\ body[r].op = "save"
  /\ SameAnswer(loaded[r], body[r])
  /\ Goto(r, "stamp")
  /\ UNCHANGED <<table, audit, body, snap, loaded, mine, ack, world, openSeen>>

(* UPDATE ... WHERE scoreid=? AND fismasystemid=? AND datacallid=? *)
UpdateSave(r) ==
  /\ pc[r] = "write" /\ body[r].op = "save"
  /\ ~SameAnswer(loaded[r], body[r])
  /\ LET i == body[r].id IN
     IF /\ rows[i].status # "absent"
        /\ rows[i].system = loaded[r].system /\ rows[i].cycle = loaded[r].cycle
     THEN /\ Write(r, i, Reviewed(rows[i], body[r]))
          /\ UNCHANGED ack
     ELSE /\ Answered(r, "not_found", Nobody)
          /\ UNCHANGED <<table, mine>>
  /\ UNCHANGED <<audit, body, snap, loaded, world, openSeen>>

(* Variant: only the scoreid is in the WHERE clause. *)
StillUntouchedById(i) == rows[i].status # "absent"

StillUntouched(i) == rows[i].status = "not_started"

SkipConfirm(r) ==
  /\ pc[r] = "write" /\ body[r].op = "confirm"
  /\ loaded[r].status = "done"
  /\ Goto(r, "stamp")
  /\ UNCHANGED <<table, audit, body, snap, loaded, mine, ack, world, openSeen>>

(* UPDATE ... SET status='done' WHERE scoreid=? AND status <> 'done' *)
UpdateConfirm(r) ==
  /\ pc[r] = "write" /\ body[r].op = "confirm"
  /\ loaded[r].status # "done"
  /\ LET i == body[r].id IN
     \/ /\ StillUntouched(i)
        /\ Write(r, i, [rows[i] EXCEPT !.status = "done"])
     \/ /\ ~StillUntouched(i)
        /\ Goto(r, "reload")
        /\ UNCHANGED <<table, mine>>
  /\ UNCHANGED <<audit, body, snap, loaded, ack, world, openSeen>>

(* The lost race: a second read tells "already reviewed" from "gone". *)
Reload(r) ==
  /\ pc[r] = "reload"
  /\ IF rows[body[r].id].status = "done"
       THEN Goto(r, "stamp") /\ UNCHANGED ack
       ELSE Answered(r, "not_found", Nobody)
  /\ UNCHANGED <<table, audit, body, snap, loaded, mine, world, openSeen>>

(* recordEvent's own INSERT; its failure is swallowed. *)
RecordEvent(r) ==
  /\ pc[r] = "event"
  /\ \/ /\ recorded' = recorded \cup {mine[r]}
        /\ newest' = [newest EXCEPT ![ledger[mine[r]].id] = mine[r]]
     \/ UNCHANGED audit
  /\ Goto(r, "stamp")
  /\ UNCHANGED <<table, body, snap, loaded, mine, ack, world, openSeen>>

(* The score the response is about. *)
Subject(r) == IF mine[r] = 0 THEN body[r].id ELSE ledger[mine[r]].id

(* Variant: the editor is the caller, whatever the events table says. *)
EditorSynthesised(r) == body[r].user

(* lookupScoreAudit: the user of the score's newest event. *)
Editor(r) ==
  LET k == newest[Subject(r)] IN
  IF k = 0 THEN Nobody ELSE body[ledger[k].req].user

(* The response carries the editor, or no audit pair when the lookup fails. *)
Stamp(r) ==
  /\ pc[r] = "stamp"
  /\ \E e \in {Editor(r), Nobody} : Answered(r, "ok", e)
  /\ UNCHANGED <<table, audit, body, snap, loaded, mine, world, openSeen>>

(* The client disconnects, a statement fails, or the task stops. *)
Abort(r) ==
  /\ pc[r] \notin {"idle", "done"}
  /\ Answered(r, "aborted", Nobody)
  /\ UNCHANGED <<table, audit, body, snap, loaded, mine, world, openSeen>>

-----------------------------------------------------------------------------
(* What others do meanwhile. *)

(* The deadline passes, or an administrator brings it forward. *)
Close(c) ==
  /\ closed' = closed \cup {c}
  /\ UNCHANGED <<table, audit, request, grant, openSeen>>

(* An administrator extends the deadline. *)
Reopen(c) ==
  /\ closed' = closed \ {c}
  /\ openSeen' = [r \in Requests |-> openSeen[r] \cup {c}]
  /\ UNCHANGED <<table, audit, request, grant>>

(* An assignment, or an OpDiv grant, is given or taken away. *)
Regrant(u, s) ==
  /\ \/ grant' = [grant EXCEPT ![u] = @ \cup {s}]
     \/ grant' = [grant EXCEPT ![u] = @ \ {s}]
  /\ UNCHANGED <<table, audit, request, closed, openSeen>>

Next ==
  \/ \E r \in Requests :
       \/ \E b \in Inputs : Begin(r, b)
       \/ Load(r) \/ Check(r)
       \/ \E i \in ScoreIds : Insert(r, i)
       \/ SkipSave(r) \/ UpdateSave(r)
       \/ SkipConfirm(r) \/ UpdateConfirm(r) \/ Reload(r)
       \/ RecordEvent(r) \/ Stamp(r) \/ Abort(r)
  \/ \E c \in Closing : Close(c) \/ Reopen(c)
  \/ \E m \in Movable : Regrant(m[1], m[2])

Spec == Init /\ [][Next]_vars

-----------------------------------------------------------------------------
(* Properties. *)

(* A confirm is the first thing that happens to a row in its cycle: it never
   re-attributes a row somebody already saved or confirmed, however the
   requests interleave.  In particular at most one of several racing confirms
   updates the row and records an event (Score.Confirm). *)
ConfirmIsFirstTouch ==
  \A j, k \in DOMAIN ledger :
    j < k /\ ledger[k].op = "confirm" => ledger[j].id # ledger[k].id

(* The answer a confirm affirms is the answer its author was shown: no save
   can slip in between the load and the conditional UPDATE and be affirmed
   unseen (Score.Confirm, ConfirmScore). *)
ConfirmAffirmsWhatWasSeen ==
  \A k \in DOMAIN ledger : ledger[k].op = "confirm" =>
    LET seen == loaded[ledger[k].req] IN
    ledger[k].text = seen.text /\ ledger[k].ai = seen.ai

(* Who may write is decided by the row as stored, not by what the request
   says of it: every write was made by a user who, when the request was
   authenticated, held the stored row's system, and in a cycle that was open
   at some moment of the request's life unless the user is an administrator
   (SaveScore, ConfirmScore, guardScoreWrite, validateDeadline). *)
AuthorisedOnTheStoredRow ==
  \A k \in DOMAIN ledger :
    LET q == ledger[k].req  u == body[q].user  row == rows[ledger[k].id] IN
    /\ u \notin ReadOnly
    /\ u \in Unscoped \/ row.system \in snap[q]
    /\ u \in Admins \/ row.cycle \in openSeen[q]

(* A confirm of a row that is found is never answered 404. *)
StoredRowIsConfirmed ==
  \A r \in Requests :
    ack[r].code = "not_found" => loaded[r].status = "absent"

(* The editor that a response names has a recorded event on that very score. *)
NoPhantomEditor ==
  \A r \in Requests :
    ack[r].editor # Nobody =>
      \E k \in recorded : /\ ledger[k].id = Subject(r)
                         /\ body[ledger[k].req].user = ack[r].editor

(* The replies are true whoever overtook the request and whichever event was
   lost: losing the race to another writer is a success and never a missing
   score (Score.Confirm's reload), and no reply advertises an editor the next
   GET could not confirm (lookupScoreAudit, which Save and Confirm read back
   instead of trusting recordEvent). *)
RepliesAreTrue == StoredRowIsConfirmed /\ NoPhantomEditor

(* The mapping: the contract's variables are the table, the history of its
   writes and what the clients ask for; everything else is invisible to it. *)
Promise == INSTANCE ReviewContract
             WITH Requests <- Requests, ScoreIds <- ScoreIds,
                  rows <- rows, ledger <- ledger, body <- body

(* The endpoints implement the contract: every request has at most one atomic
   effect, the one its body asks for (Score.Save, Score.Confirm). *)
Contract == Promise!Contract
=============================================================================
