------------------------- MODULE ScoreReviewProofs --------------------------
(* Theorems of ScoreReview, for every set of requests, users, rows, inputs,
   grants and deadlines. *)
EXTENDS ScoreReview, TLAPS

(* A request that is about to record its event has written a row. *)
WritersAreKnown == \A r \in Requests : pc[r] = "event" => mine[r] # 0

(* A row that was written this cycle is reviewed, and stays reviewed. *)
WrittenRowsAreDone ==
  \A k \in DOMAIN ledger : rows[ledger[k].id].status = "done"

(* A request writes once: once it has written it is past every step that
   loads or writes. *)
WritersAreFinishing ==
  \A k \in DOMAIN ledger : pc[ledger[k].req] \in {"event", "stamp", "done"}

(* Between its load and its write, an update's loaded row agrees with the
   stored one in what never changes, and in everything while nobody has
   touched the stored one. *)
Current(r) ==
  pc[r] \in {"check", "write"} =>
    IF body[r].op = "create"
      THEN loaded[r] = Inserted(body[r])
      ELSE LET row == rows[body[r].id] IN
           /\ row.status # "absent"
           /\ row.system = loaded[r].system /\ row.cycle = loaded[r].cycle
           /\ row.status = "not_started" => row = loaded[r]

(* What the guards have established by the time a request gets this far. *)
Cleared(r) ==
  /\ pc[r] \in {"check", "write"} =>
       MayWrite(body[r].user, snap[r], loaded[r].system)
  /\ pc[r] = "write" =>
       body[r].user \in Admins \/ loaded[r].cycle \in openSeen[r]

(* A running request has seen every cycle that is open now. *)
SeesOpen(r) == pc[r] # "idle" => Cycles \ closed \subseteq openSeen[r]

RequestsInv == \A r \in Requests : Current(r) /\ Cleared(r) /\ SeesOpen(r)

IInv ==
  /\ TypeOK
  /\ WritersAreKnown
  /\ WrittenRowsAreDone
  /\ WritersAreFinishing
  /\ RequestsInv
  /\ ConfirmIsFirstTouch
  /\ ConfirmAffirmsWhatWasSeen
  /\ AuthorisedOnTheStoredRow

-----------------------------------------------------------------------------
(* The row a create inserts, and the row an update leaves, are well formed. *)
LEMMA InsertedIsRow == ASSUME NEW b \in Body PROVE Inserted(b) \in Row
  BY DEF Inserted, Body, Row, AiFlags, AiInputs

LEMMA ReviewedIsRow ==
  ASSUME NEW w \in Row, NEW b \in Body PROVE Reviewed(w, b) \in Row
  BY DEF Reviewed, Body, Row, AiFlags, AiInputs

(* What a position of the ledger holds. *)
LEMMA LedgerEntry ==
  ASSUME TypeOK, NEW k \in DOMAIN ledger
  PROVE  /\ ledger[k] \in Entry
         /\ ledger[k].req \in Requests /\ ledger[k].id \in ScoreIds
  <1>1. ledger \in Seq(Entry)
    BY DEF TypeOK
  <1>2. ledger[k] \in Entry
    BY <1>1
  <1>. QED
    BY <1>2 DEF Entry

EntryOf(r, i, w) ==
  [req |-> r, op |-> body[r].op, id |-> i, text |-> w.text, ai |-> w.ai]

(* A row write appends one entry of request r about row i to the ledger and
   keeps the earlier ones. *)
LEMMA WriteAppends ==
  ASSUME TypeOK, NEW r \in Requests, NEW i \in ScoreIds, NEW w \in Row,
         Write(r, i, w)
  PROVE  LET e == EntryOf(r, i, w)  n == Len(ledger) + 1 IN
            /\ e \in Entry
            /\ ledger' \in Seq(Entry)
            /\ n \in Nat /\ n # 0
            /\ DOMAIN ledger' = DOMAIN ledger \cup {n}
            /\ n \notin DOMAIN ledger
            /\ \A k \in DOMAIN ledger : ledger'[k] = ledger[k] /\ k < n
            /\ ledger'[n] = e
            /\ mine' = [mine EXCEPT ![r] = n]
            /\ rows' = [rows EXCEPT ![i] = w]
            /\ rows' \in [ScoreIds -> Row]
            /\ mine' \in [Requests -> {0} \cup DOMAIN ledger']
            /\ recorded \subseteq DOMAIN ledger'
            /\ newest \in [ScoreIds -> {0} \cup DOMAIN ledger']
  <1> DEFINE e == EntryOf(r, i, w)
             n == Len(ledger) + 1
  <1>1. e \in Entry
    BY DEF TypeOK, Body, Row, Entry, EntryOf
  <1>2. ledger \in Seq(Entry) /\ ledger' = Append(ledger, e)
    BY DEF TypeOK, Write, EntryOf
  <1>3. DOMAIN ledger = 1..Len(ledger) /\ Len(ledger) \in Nat
    BY <1>2
  <1>4. /\ ledger' \in Seq(Entry)
        /\ DOMAIN ledger' = DOMAIN ledger \cup {n}
        /\ \A k \in DOMAIN ledger : ledger'[k] = ledger[k] /\ k < n
        /\ ledger'[n] = e
    BY <1>1, <1>2, <1>3
  <1>5. n \in Nat /\ n # 0 /\ n \notin DOMAIN ledger
    BY <1>3
  <1>6. /\ mine' = [mine EXCEPT ![r] = n]
        /\ rows' = [rows EXCEPT ![i] = w]
    BY DEF Write
  <1>7. /\ rows' \in [ScoreIds -> Row]
        /\ recorded \subseteq DOMAIN ledger'
        /\ newest \in [ScoreIds -> {0} \cup DOMAIN ledger']
    BY <1>4, <1>6 DEF TypeOK
  <1>8. mine' \in [Requests -> {0} \cup DOMAIN ledger']
    BY <1>4, <1>6 DEF TypeOK
  <1>. QED
    BY <1>1, <1>4, <1>5, <1>6, <1>7, <1>8

LEMMA TypeInit == Init => TypeOK
  <1>. SUFFICES ASSUME Init PROVE TypeOK
    OBVIOUS
  <1>1. (CHOOSE b \in Body : TRUE) \in Body /\ (CHOOSE w \in Row : TRUE) \in Row
    BY SeedAssumption
  <1>. QED
    BY <1>1, SeedAssumption DEF Init, TypeOK, Labels, Acks, Codes

(* A step by which request r writes row i keeps every variable in its type. *)
LEMMA TypeWrite ==
  ASSUME TypeOK, NEW r \in Requests, NEW i \in ScoreIds, NEW w \in Row,
         Write(r, i, w), UNCHANGED <<audit, body, snap, loaded, ack, world, openSeen>>
  PROVE  TypeOK' /\ (WritersAreKnown => WritersAreKnown')
  <1>1. /\ ledger' \in Seq(Entry)
        /\ rows' \in [ScoreIds -> Row]
        /\ mine' \in [Requests -> {0} \cup DOMAIN ledger']
        /\ recorded \subseteq DOMAIN ledger'
        /\ newest \in [ScoreIds -> {0} \cup DOMAIN ledger']
        /\ \E n \in Nat \ {0} : mine' = [mine EXCEPT ![r] = n]
    BY WriteAppends
  <1>2. pc' = [pc EXCEPT ![r] = "event"]
    BY DEF Write, Goto
  <1>3. pc' \in [Requests -> Labels]
    BY <1>2 DEF TypeOK, Labels
  <1>5. TypeOK'
    BY <1>1, <1>3 DEF TypeOK, audit, world
  <1>4. WritersAreKnown => WritersAreKnown'
    BY <1>1, <1>2 DEF TypeOK, WritersAreKnown
  <1>. QED
    BY <1>4, <1>5

(* Moving on, or answering, keeps the types of what it changes. *)
LEMMA TypeGoto ==
  ASSUME TypeOK, NEW r \in Requests, NEW label \in Labels, Goto(r, label)
  PROVE  /\ pc' \in [Requests -> Labels]
         /\ label # "event" /\ WritersAreKnown /\ mine' = mine => WritersAreKnown'
  BY DEF TypeOK, Goto, WritersAreKnown

LEMMA TypeAnswered ==
  ASSUME TypeOK, NEW r \in Requests, NEW code \in Codes,
         NEW e \in Users \cup {Nobody}, Answered(r, code, e)
  PROVE  /\ pc' \in [Requests -> Labels] /\ ack' \in [Requests -> Acks]
         /\ WritersAreKnown /\ mine' = mine => WritersAreKnown'
  <1>1. Goto(r, "done") /\ "done" \in Labels
    BY DEF Answered, Labels
  <1>2. [code |-> code, editor |-> e] \in Acks
    BY DEF Acks
  <1>3. ack' \in [Requests -> Acks]
    BY <1>2 DEF TypeOK, Answered
  <1>. QED
    BY <1>1, <1>3, TypeGoto

(* A step that changes nothing else keeps the types. *)
LEMMA TypeControl ==
  ASSUME TypeOK, pc' \in [Requests -> Labels], ack' \in [Requests -> Acks],
         loaded' \in [Requests -> Row],
         UNCHANGED <<table, audit, body, snap, mine, world, openSeen>>
  PROVE  TypeOK'
  BY DEF TypeOK, table, audit, world

(* The types, and what RecordEvent needs of them, are kept by every step. *)
LEMMA TypeStep ==
  TypeOK /\ WritersAreKnown /\ [Next]_vars => TypeOK' /\ WritersAreKnown'
  <1>. SUFFICES ASSUME TypeOK, WritersAreKnown, [Next]_vars
                PROVE  TypeOK' /\ WritersAreKnown'
    OBVIOUS
  <1>. DEFINE Goal == TypeOK' /\ WritersAreKnown'
  <1>a. /\ loaded \in [Requests -> Row] /\ ack \in [Requests -> Acks]
        /\ Nobody \in Users \cup {Nobody}
        /\ body \in [Requests -> Body] /\ rows \in [ScoreIds -> Row]
    BY DEF TypeOK
  <1>1. ASSUME NEW r \in Requests, NEW b \in Inputs, Begin(r, b)
        PROVE  Goal
    <2>1. b \in Body /\ b.user \in Users
      BY InputsAssumption DEF Body
    <2>2. body' \in [Requests -> Body]
      BY <1>1, <2>1 DEF TypeOK, Begin
    <2>3. snap' \in [Requests -> SUBSET Systems]
      BY <1>1, <2>1 DEF TypeOK, Begin
    <2>4. openSeen' \in [Requests -> SUBSET Cycles]
      BY <1>1 DEF TypeOK, Begin
    <2>5. /\ pc' \in [Requests -> Labels] /\ ack' \in [Requests -> Acks]
          /\ WritersAreKnown'
      <3>1. mine' = mine
        BY <1>1 DEF Begin
      <3>2. CASE Answered(r, "forbidden", Nobody)
        BY <3>1, <3>2, <1>a, TypeAnswered DEF Codes
      <3>3. CASE Goto(r, "load") /\ UNCHANGED ack
        BY <3>1, <3>3, <1>a, TypeGoto DEF Labels
      <3>. QED
        BY <1>1, <3>2, <3>3 DEF Begin
    <2>. QED
      BY <1>1, <2>2, <2>3, <2>4, <2>5 DEF TypeOK, Begin, table, audit, world
  <1>2. ASSUME NEW r \in Requests, Load(r)
        PROVE  Goal
    <2>1. Judged(r) \in Row
      BY <1>a, InsertedIsRow DEF Judged, Body
    <2>2. loaded' \in [Requests -> Row]
      BY <1>2, <2>1 DEF TypeOK, Load
    <2>3. mine' = mine
      BY <1>2 DEF Load
    <2>4. CASE Answered(r, "not_found", Nobody) \/ Answered(r, "forbidden", Nobody)
      BY <1>2, <2>2, <2>3, <2>4, <1>a, TypeAnswered, TypeControl DEF Codes, Load
    <2>5. CASE Goto(r, "check") /\ UNCHANGED ack
      BY <1>2, <2>2, <2>3, <2>5, <1>a, TypeGoto, TypeControl DEF Labels, Load
    <2>. QED
      BY <1>2, <2>4, <2>5 DEF Load
  <1>3. ASSUME NEW r \in Requests, Check(r)
        PROVE  Goal
    <2>1. CASE Answered(r, "too_long", Nobody) \/ Answered(r, "past_deadline", Nobody)
      BY <1>3, <2>1, <1>a, TypeAnswered, TypeControl DEF Codes, Check
    <2>2. CASE Goto(r, "write") /\ UNCHANGED ack
      BY <1>3, <2>2, <1>a, TypeGoto, TypeControl DEF Labels, Check
    <2>. QED
      BY <1>3, <2>1, <2>2 DEF Check
  <1>4. ASSUME NEW r \in Requests, NEW i \in ScoreIds, Insert(r, i)
        PROVE  Goal
    <2>1. Inserted(body[r]) \in Row
      BY <1>a, InsertedIsRow
    <2>. QED
      BY <1>4, <2>1, TypeWrite DEF Insert
  <1>5. ASSUME NEW r \in Requests, SkipSave(r) \/ SkipConfirm(r)
        PROVE  Goal
    BY <1>5, <1>a, TypeGoto, TypeControl DEF SkipSave, SkipConfirm, Labels
  <1>6. ASSUME NEW r \in Requests, UpdateSave(r)
        PROVE  Goal
    <2>1. body[r].id \in ScoreIds /\ Reviewed(rows[body[r].id], body[r]) \in Row
      BY <1>a, ReviewedIsRow DEF Body
    <2>2. CASE Write(r, body[r].id, Reviewed(rows[body[r].id], body[r])) /\ UNCHANGED ack
      BY <1>6, <2>1, <2>2, TypeWrite DEF UpdateSave
    <2>3. CASE Answered(r, "not_found", Nobody) /\ UNCHANGED <<table, mine>>
      BY <1>6, <2>3, <1>a, TypeAnswered, TypeControl DEF UpdateSave, Codes
    <2>. QED
      BY <1>6, <2>2, <2>3 DEF UpdateSave
  <1>7. ASSUME NEW r \in Requests, UpdateConfirm(r)
        PROVE  Goal
    <2>. DEFINE w == [rows[body[r].id] EXCEPT !.status = "done"]
    <2>1. body[r].id \in ScoreIds /\ w \in Row
      BY <1>a DEF Body, Row
    <2>2. CASE Write(r, body[r].id, w)
      BY <1>7, <2>1, <2>2, TypeWrite DEF UpdateConfirm
    <2>3. CASE Goto(r, "reload") /\ UNCHANGED <<table, mine>>
      BY <1>7, <2>3, <1>a, TypeGoto, TypeControl DEF UpdateConfirm, Labels
    <2>. QED
      BY <1>7, <2>2, <2>3 DEF UpdateConfirm
  <1>8. ASSUME NEW r \in Requests, Reload(r)
        PROVE  Goal
    <2>1. CASE Answered(r, "not_found", Nobody)
      BY <1>8, <2>1, <1>a, TypeAnswered, TypeControl DEF Codes, Reload
    <2>2. CASE Goto(r, "stamp") /\ UNCHANGED ack
      BY <1>8, <2>2, <1>a, TypeGoto, TypeControl DEF Labels, Reload
    <2>. QED
      BY <1>8, <2>1, <2>2 DEF Reload
  <1>9. ASSUME NEW r \in Requests, Abort(r)
        PROVE  Goal
    BY <1>9, <1>a, TypeAnswered, TypeControl DEF Codes, Abort
  <1>10. ASSUME NEW r \in Requests, RecordEvent(r)
         PROVE  Goal
    <2>1. mine[r] \in DOMAIN ledger
      BY <1>10 DEF TypeOK, WritersAreKnown, RecordEvent
    <2>2. ledger[mine[r]].id \in ScoreIds
      BY <2>1, LedgerEntry
    <2>3. recorded' \subseteq DOMAIN ledger
      BY <1>10, <2>1 DEF TypeOK, RecordEvent, audit
    <2>4. newest' \in [ScoreIds -> {0} \cup DOMAIN ledger]
      BY <1>10, <2>1, <2>2 DEF TypeOK, RecordEvent, audit
    <2>5. pc' \in [Requests -> Labels] /\ WritersAreKnown'
      BY <1>10, TypeGoto DEF RecordEvent, Labels
    <2>. QED
      BY <1>10, <2>3, <2>4, <2>5 DEF TypeOK, RecordEvent, table, world
  <1>11. ASSUME NEW r \in Requests, Stamp(r)
         PROVE  Goal
    <2>1. mine[r] # 0 => ledger[mine[r]].id \in ScoreIds
      BY LedgerEntry DEF TypeOK
    <2>2. Subject(r) \in ScoreIds
      BY <2>1, <1>a DEF Subject, Body
    <2>3. newest[Subject(r)] # 0 => ledger[newest[Subject(r)]].req \in Requests
      BY <2>2, LedgerEntry DEF TypeOK
    <2>4. Editor(r) \in Users \cup {Nobody}
      BY <2>3, <1>a DEF Editor, Body
    <2>. QED
      BY <1>11, <2>4, <1>a, TypeAnswered, TypeControl DEF Stamp, Codes
  <1>12. ASSUME NEW c \in Closing, Close(c) \/ Reopen(c)
         PROVE  Goal
    <2>1. closed' \in SUBSET Cycles /\ openSeen' \in [Requests -> SUBSET Cycles]
      BY <1>12, WorldAssumption DEF TypeOK, Close, Reopen
    <2>. QED
      BY <1>12, <2>1 DEF TypeOK, WritersAreKnown, Close, Reopen, table, audit, request
  <1>13. ASSUME NEW m \in Movable, Regrant(m[1], m[2])
         PROVE  Goal
    <2>1. m[1] \in Users /\ m[2] \in Systems
      BY WorldAssumption
    <2>2. /\ grant[m[1]] \cup {m[2]} \in SUBSET Systems
          /\ grant[m[1]] \ {m[2]} \in SUBSET Systems
      BY <2>1 DEF TypeOK
    <2>3. \E g \in SUBSET Systems : grant' = [grant EXCEPT ![m[1]] = g]
      BY <1>13, <2>2 DEF Regrant
    <2>4. grant' \in [Users -> SUBSET Systems]
      BY <2>3 DEF TypeOK
    <2>. QED
      BY <1>13, <2>4 DEF TypeOK, WritersAreKnown, Regrant, table, audit, request
  <1>14. CASE UNCHANGED vars
    BY <1>14 DEF TypeOK, WritersAreKnown, vars
  <1>. QED
    BY <1>1, <1>2, <1>3, <1>4, <1>5, <1>6, <1>7, <1>8, <1>9, <1>10, <1>11, <1>12,
       <1>13, <1>14
    DEF Next

-----------------------------------------------------------------------------
(* What has been written stays true of a step that writes no row, whatever
   becomes of the requests that have not written yet. *)
LEMMA HistoryKept ==
  ASSUME IInv, UNCHANGED table,
         \A q \in Requests : pc[q] \in {"event", "stamp", "done"} =>
           /\ pc'[q] \in {"event", "stamp", "done"}
           /\ loaded'[q] = loaded[q] /\ body'[q] = body[q] /\ snap'[q] = snap[q]
           /\ openSeen[q] \subseteq openSeen'[q]
  PROVE  /\ WrittenRowsAreDone' /\ WritersAreFinishing'
         /\ ConfirmIsFirstTouch' /\ ConfirmAffirmsWhatWasSeen'
         /\ AuthorisedOnTheStoredRow'
  <1>1. rows' = rows /\ ledger' = ledger
    BY DEF table
  <1>2. TypeOK
    BY DEF IInv
  <1>3. \A k \in DOMAIN ledger : ledger[k].req \in Requests /\
          pc[ledger[k].req] \in {"event", "stamp", "done"}
    BY <1>2, LedgerEntry DEF IInv, WritersAreFinishing
  <1>4. WrittenRowsAreDone' /\ ConfirmIsFirstTouch'
    BY <1>1 DEF IInv, WrittenRowsAreDone, ConfirmIsFirstTouch
  <1>5. WritersAreFinishing'
    BY <1>1, <1>3 DEF WritersAreFinishing
  <1>6. ConfirmAffirmsWhatWasSeen'
    BY <1>1, <1>3 DEF IInv, ConfirmAffirmsWhatWasSeen
  <1>7. AuthorisedOnTheStoredRow'
    BY <1>1, <1>3 DEF IInv, AuthorisedOnTheStoredRow
  <1>. QED
    BY <1>4, <1>5, <1>6, <1>7

(* A step of request r that writes no row keeps the invariant when it keeps
   r's own part of it. *)
LEMMA ControlStep ==
  ASSUME IInv, TypeOK', WritersAreKnown', NEW r \in Requests,
         UNCHANGED <<table, world>>,
         pc[r] \notin {"event", "stamp", "done"} \/
           /\ pc'[r] \in {"event", "stamp", "done"}
           /\ UNCHANGED <<body, snap, loaded, openSeen>>,
         \A q \in Requests \ {r} :
           /\ pc'[q] = pc[q] /\ body'[q] = body[q] /\ snap'[q] = snap[q]
           /\ loaded'[q] = loaded[q] /\ openSeen'[q] = openSeen[q],
         Current(r)' /\ Cleared(r)' /\ SeesOpen(r)'
  PROVE  IInv'
  <1>1. \A q \in Requests : pc[q] \in {"event", "stamp", "done"} =>
           /\ pc'[q] \in {"event", "stamp", "done"}
           /\ loaded'[q] = loaded[q] /\ body'[q] = body[q] /\ snap'[q] = snap[q]
           /\ openSeen[q] \subseteq openSeen'[q]
    OBVIOUS
  <1>2. UNCHANGED table /\ rows' = rows /\ closed' = closed
    BY DEF table, world
  <1>3. ASSUME NEW q \in Requests \ {r}
        PROVE  (Current(q) /\ Cleared(q) /\ SeesOpen(q))'
    <2>1. Current(q) /\ Cleared(q) /\ SeesOpen(q)
      BY DEF IInv, RequestsInv
    <2>. QED
      BY <1>2, <2>1 DEF Current, Cleared, SeesOpen
  <1>4. RequestsInv'
    BY <1>3 DEF RequestsInv
  <1>. QED
    BY <1>1, <1>2, <1>4, HistoryKept DEF IInv

(* A step by which request r turns row i into w keeps the invariant when w is
   a reviewed row of the system and cycle r was cleared for, and, for a
   confirm, the untouched row r has loaded. *)
LEMMA WriteStep ==
  ASSUME IInv, TypeOK', WritersAreKnown',
         NEW r \in Requests, NEW i \in ScoreIds, NEW w \in Row,
         pc[r] = "write", Write(r, i, w),
         UNCHANGED <<audit, body, snap, loaded, world, openSeen>>,
         w.status = "done",
         w.system = loaded[r].system, w.cycle = loaded[r].cycle,
         rows[i].status # "absent" =>
           w.system = rows[i].system /\ w.cycle = rows[i].cycle,
         body[r].op = "confirm" =>
           /\ rows[i].status = "not_started"
           /\ w.text = loaded[r].text /\ w.ai = loaded[r].ai
  PROVE  IInv'
  <1> DEFINE n == Len(ledger) + 1
  <1>0. /\ TypeOK /\ WrittenRowsAreDone /\ WritersAreFinishing /\ RequestsInv
        /\ ConfirmIsFirstTouch /\ ConfirmAffirmsWhatWasSeen /\ AuthorisedOnTheStoredRow
    BY DEF IInv
  <1>1. /\ DOMAIN ledger' = DOMAIN ledger \cup {n}
        /\ n \in Nat /\ n \notin DOMAIN ledger
        /\ \A k \in DOMAIN ledger : ledger'[k] = ledger[k] /\ k < n
        /\ ledger'[n] = [req |-> r, op |-> body[r].op, id |-> i, text |-> w.text, ai |-> w.ai]
        /\ rows' = [rows EXCEPT ![i] = w]
    <2>1. TypeOK
      BY <1>0
    <2>2. DOMAIN ledger' = DOMAIN ledger \cup {n}
      BY <2>1, WriteAppends
    <2>3. n \in Nat /\ n \notin DOMAIN ledger
      BY <2>1, WriteAppends
    <2>4. \A k \in DOMAIN ledger : ledger'[k] = ledger[k] /\ k < n
      BY <2>1, WriteAppends
    <2>5. ledger'[n] = EntryOf(r, i, w) /\ rows' = [rows EXCEPT ![i] = w]
      BY <2>1, WriteAppends
    <2>. QED
      BY <2>2, <2>3, <2>4, <2>5 DEF EntryOf
  <1>2. \A k \in DOMAIN ledger :
          ledger[k].req \in Requests /\ ledger[k].id \in ScoreIds /\ k \in Nat
    BY <1>0, LedgerEntry DEF TypeOK
  <1>3. /\ pc' = [pc EXCEPT ![r] = "event"]
        /\ pc \in [Requests -> Labels] /\ rows \in [ScoreIds -> Row]
        /\ body \in [Requests -> Body]
    BY <1>0 DEF Write, Goto, TypeOK
  <1>4. body' = body /\ snap' = snap /\ loaded' = loaded /\ openSeen' = openSeen
        /\ closed' = closed
    BY DEF world
  <1>5. WrittenRowsAreDone'
    <2>1. \A j \in ScoreIds : rows'[j].status = rows[j].status \/ rows'[j].status = "done"
      BY <1>1, <1>3
    <2>2. \A k \in DOMAIN ledger' : rows'[ledger'[k].id].status = "done"
      BY <1>0, <1>1, <1>2, <1>3, <2>1 DEF WrittenRowsAreDone
    <2>. QED
      BY <2>2 DEF WrittenRowsAreDone
  <1>6. WritersAreFinishing'
    BY <1>0, <1>1, <1>2, <1>3 DEF WritersAreFinishing
  <1>7. ConfirmIsFirstTouch'
    <2>1. ASSUME body[r].op = "confirm", NEW j \in DOMAIN ledger
          PROVE  ledger[j].id # i
      BY <1>0, <2>1 DEF WrittenRowsAreDone
    <2>2. ASSUME NEW j \in DOMAIN ledger', NEW k \in DOMAIN ledger',
                 j < k, ledger'[k].op = "confirm"
          PROVE  ledger'[j].id # ledger'[k].id
      <3>1. j \in DOMAIN ledger
        BY <1>1, <1>2, <2>2
      <3>2. CASE k = n
        BY <1>1, <2>1, <2>2, <3>1, <3>2
      <3>3. CASE k \in DOMAIN ledger
        BY <1>0, <1>1, <2>2, <3>1, <3>3 DEF ConfirmIsFirstTouch
      <3>. QED
        BY <1>1, <3>2, <3>3
    <2>. QED
      BY <2>2 DEF ConfirmIsFirstTouch
  <1>8. ConfirmAffirmsWhatWasSeen'
    BY <1>0, <1>1, <1>4 DEF ConfirmAffirmsWhatWasSeen
  <1>9. AuthorisedOnTheStoredRow'
    <2>1. Cleared(r)
      BY <1>0 DEF RequestsInv
    <2>2. ASSUME NEW k \in DOMAIN ledger
          PROVE  /\ rows'[ledger[k].id].system = rows[ledger[k].id].system
                 /\ rows'[ledger[k].id].cycle = rows[ledger[k].id].cycle
      BY <1>0, <1>1, <1>2, <1>3 DEF WrittenRowsAreDone
    <2>3. rows'[i] = w
      BY <1>1, <1>3
    <2>4. ASSUME NEW k \in DOMAIN ledger'
          PROVE  LET q == ledger'[k].req  u == body'[q].user  row == rows'[ledger'[k].id] IN
                 /\ u \notin ReadOnly
                 /\ u \in Unscoped \/ row.system \in snap'[q]
                 /\ u \in Admins \/ row.cycle \in openSeen'[q]
      <3>1. CASE k = n
        BY <1>1, <1>4, <2>1, <2>3, <3>1 DEF Cleared, MayWrite
      <3>2. CASE k \in DOMAIN ledger
        BY <1>0, <1>1, <1>4, <2>2, <3>2 DEF AuthorisedOnTheStoredRow
      <3>. QED
        BY <1>1, <3>1, <3>2
    <2>. QED
      BY <2>4 DEF AuthorisedOnTheStoredRow
  <1>10. RequestsInv'
    <2>1. ASSUME NEW q \in Requests
          PROVE  (Current(q) /\ Cleared(q) /\ SeesOpen(q))'
      <3>1. Current(q) /\ Cleared(q) /\ SeesOpen(q)
        BY <1>0 DEF RequestsInv
      <3>2. body[q].id \in ScoreIds
        BY <1>3 DEF Body
      <3>3. Current(q)'
        BY <1>1, <1>3, <1>4, <3>1, <3>2 DEF Current
      <3>. QED
        BY <1>3, <1>4, <3>1, <3>3 DEF Cleared, SeesOpen
    <2>. QED
      BY <2>1 DEF RequestsInv
  <1>. QED
    BY <1>5, <1>6, <1>7, <1>8, <1>9, <1>10 DEF IInv

LEMMA InvInit == Init => IInv
  <1>. SUFFICES ASSUME Init PROVE IInv
    OBVIOUS
  <1>1. TypeOK
    BY TypeInit
  <1>2. DOMAIN ledger = {} /\ \A r \in Requests : pc[r] = "idle"
    BY DEF Init
  <1>. QED
    BY <1>1, <1>2
    DEF IInv, WritersAreKnown, WrittenRowsAreDone, WritersAreFinishing, RequestsInv,
        Current, Cleared, SeesOpen, ConfirmIsFirstTouch, ConfirmAffirmsWhatWasSeen,
        AuthorisedOnTheStoredRow

(* Every step keeps the invariant. *)
LEMMA InvStep == IInv /\ [Next]_vars => IInv'
  <1>. SUFFICES ASSUME IInv, [Next]_vars PROVE IInv'
    OBVIOUS
  <1>0. TypeOK /\ WritersAreKnown /\ TypeOK' /\ WritersAreKnown'
    BY TypeStep DEF IInv
  <1>a. \A r \in Requests : Current(r) /\ Cleared(r) /\ SeesOpen(r)
    BY DEF IInv, RequestsInv
  <1>b. /\ pc \in [Requests -> Labels] /\ body \in [Requests -> Body]
        /\ rows \in [ScoreIds -> Row] /\ loaded \in [Requests -> Row]
        /\ openSeen \in [Requests -> SUBSET Cycles]
        /\ snap \in [Requests -> SUBSET Systems]
    BY <1>0 DEF TypeOK
  <1>1. ASSUME NEW r \in Requests, NEW b \in Inputs, Begin(r, b)
        PROVE  IInv'
    <2>1. pc[r] = "idle" /\ pc'[r] \in {"load", "done"}
      BY <1>1, <1>b DEF Begin, Goto, Answered
    <2>2. Current(r)' /\ Cleared(r)'
      BY <2>1 DEF Current, Cleared
    <2>3. SeesOpen(r)'
      BY <1>1, <1>b DEF Begin, SeesOpen, world
    <2>4. \A q \in Requests \ {r} :
            /\ pc'[q] = pc[q] /\ body'[q] = body[q] /\ snap'[q] = snap[q]
            /\ loaded'[q] = loaded[q] /\ openSeen'[q] = openSeen[q]
      BY <1>1, <1>b DEF Begin, Goto, Answered
    <2>5. UNCHANGED <<table, world>>
      BY <1>1 DEF Begin
    <2>. QED
      BY <1>0, <2>1, <2>2, <2>3, <2>4, <2>5, ControlStep
  <1>2. ASSUME NEW r \in Requests, Load(r)
        PROVE  IInv'
    <2>1. /\ pc[r] = "load" /\ pc'[r] \in {"check", "done"}
          /\ loaded'[r] = Judged(r)
          /\ body' = body /\ snap' = snap /\ openSeen' = openSeen
          /\ UNCHANGED <<table, world>> /\ rows' = rows /\ closed' = closed
      BY <1>2, <1>b DEF Load, Goto, Answered, table, world
    <2>2. pc'[r] = "check" =>
            /\ body[r].op = "create" \/ Judged(r).status # "absent"
            /\ MayWrite(body[r].user, snap[r], Judged(r).system)
      BY <1>2, <1>b DEF Load, Goto, Answered
    <2>3. Current(r)'
      BY <2>1, <2>2 DEF Current, Judged
    <2>4. Cleared(r)'
      BY <2>1, <2>2 DEF Cleared
    <2>5. SeesOpen(r)'
      BY <1>a, <2>1 DEF SeesOpen
    <2>6. \A q \in Requests \ {r} : pc'[q] = pc[q] /\ loaded'[q] = loaded[q]
      BY <1>2, <1>b DEF Load, Goto, Answered
    <2>. QED
      BY <1>0, <2>1, <2>3, <2>4, <2>5, <2>6, ControlStep
  <1>3. ASSUME NEW r \in Requests, Check(r)
        PROVE  IInv'
    <2>1. /\ pc[r] = "check" /\ pc'[r] \in {"write", "done"}
          /\ body' = body /\ snap' = snap /\ openSeen' = openSeen /\ loaded' = loaded
          /\ UNCHANGED <<table, world>> /\ rows' = rows /\ closed' = closed
          /\ \A q \in Requests \ {r} : pc'[q] = pc[q]
      BY <1>3, <1>b DEF Check, Goto, Answered, table, world
    <2>2. pc'[r] = "write" => body[r].user \in Admins \/ loaded[r].cycle \in openSeen[r]
      <3>1. pc'[r] = "write" => body[r].user \in Admins \/ loaded[r].cycle \notin closed
        BY <1>3, <1>b DEF Check, Goto, Answered, PastDeadline
      <3>2. loaded[r].cycle \in Cycles
        BY <1>b DEF Row
      <3>. QED
        BY <1>a, <2>1, <3>1, <3>2 DEF SeesOpen
    <2>3. Current(r)' /\ Cleared(r)' /\ SeesOpen(r)'
      BY <1>a, <2>1, <2>2 DEF Current, Cleared, SeesOpen
    <2>. QED
      BY <1>0, <2>1, <2>3, ControlStep
  <1>4. ASSUME NEW r \in Requests, NEW i \in ScoreIds, Insert(r, i)
        PROVE  IInv'
    <2>1. pc[r] = "write" /\ body[r].op = "create" /\ rows[i].status = "absent"
      BY <1>4 DEF Insert
    <2>2. loaded[r] = Inserted(body[r]) /\ Inserted(body[r]).status = "done"
      BY <1>a, <2>1 DEF Current, Inserted
    <2>3. Inserted(body[r]) \in Row
      BY <1>b, InsertedIsRow
    <2>. QED
      BY <1>0, <1>4, <2>1, <2>2, <2>3, WriteStep DEF Insert
  <1>5. ASSUME NEW r \in Requests, UpdateSave(r)
        PROVE  IInv'
    <2>. DEFINE i == body[r].id
                w == Reviewed(rows[i], body[r])
    <2>1. CASE Write(r, i, w) /\ rows[i].status # "absent"
               /\ rows[i].system = loaded[r].system /\ rows[i].cycle = loaded[r].cycle
      <3>1. pc[r] = "write" /\ body[r].op = "save"
            /\ UNCHANGED <<audit, body, snap, loaded, world, openSeen>>
        BY <1>5 DEF UpdateSave
      <3>2. i \in ScoreIds /\ w \in Row
        BY <1>b, ReviewedIsRow DEF Body
      <3>3. w.status = "done" /\ w.system = rows[i].system /\ w.cycle = rows[i].cycle
        BY <1>b, <3>2 DEF Reviewed, Row
      <3>. QED
        BY <1>0, <2>1, <3>1, <3>2, <3>3, WriteStep
    <2>2. CASE Answered(r, "not_found", Nobody) /\ UNCHANGED <<table, mine>>
      <3>1. /\ pc[r] = "write" /\ pc'[r] = "done"
            /\ body' = body /\ snap' = snap /\ openSeen' = openSeen /\ loaded' = loaded
            /\ UNCHANGED <<table, world>> /\ closed' = closed
            /\ \A q \in Requests \ {r} : pc'[q] = pc[q]
        BY <1>5, <2>2, <1>b DEF UpdateSave, Goto, Answered, world
      <3>2. Current(r)' /\ Cleared(r)' /\ SeesOpen(r)'
        BY <1>a, <3>1 DEF Current, Cleared, SeesOpen
      <3>. QED
        BY <1>0, <3>1, <3>2, ControlStep
    <2>. QED
      BY <1>5, <2>1, <2>2 DEF UpdateSave
  <1>6. ASSUME NEW r \in Requests, UpdateConfirm(r)
        PROVE  IInv'
    <2>. DEFINE i == body[r].id
                w == [rows[i] EXCEPT !.status = "done"]
    <2>0. pc[r] = "write" /\ body[r].op = "confirm" /\ i \in ScoreIds
          /\ UNCHANGED <<audit, body, snap, loaded, world, openSeen>>
      BY <1>6, <1>b DEF UpdateConfirm, Body
    <2>1. CASE Write(r, i, w) /\ rows[i].status = "not_started"
      <3>1. rows[i] = loaded[r]
        BY <1>a, <2>0, <2>1 DEF Current
      <3>2. rows[i] \in Row /\ w \in Row
        BY <1>b, <2>0 DEF Row
      <3>3. /\ w.status = "done" /\ w.system = loaded[r].system
            /\ w.cycle = loaded[r].cycle /\ w.text = loaded[r].text /\ w.ai = loaded[r].ai
            /\ w.system = rows[i].system /\ w.cycle = rows[i].cycle
        BY <3>1, <3>2 DEF Row
      <3>. QED
        BY <1>0, <2>0, <2>1, <3>2, <3>3, WriteStep
    <2>2. CASE Goto(r, "reload") /\ UNCHANGED <<table, mine>>
      <3>1. /\ pc'[r] = "reload" /\ rows' = rows /\ closed' = closed
            /\ \A q \in Requests \ {r} : pc'[q] = pc[q]
        BY <2>0, <2>2, <1>b DEF Goto, table, world
      <3>2. Current(r)' /\ Cleared(r)' /\ SeesOpen(r)'
        BY <1>a, <2>0, <3>1 DEF Current, Cleared, SeesOpen
      <3>. QED
        BY <1>0, <2>0, <2>2, <3>1, <3>2, ControlStep
    <2>. QED
      BY <1>6, <2>1, <2>2 DEF UpdateConfirm, StillUntouched
  <1>7. ASSUME NEW r \in Requests,
               SkipSave(r) \/ SkipConfirm(r) \/ Reload(r) \/ RecordEvent(r)
               \/ Stamp(r) \/ Abort(r)
        PROVE  IInv'
    <2>1. /\ pc[r] # "idle" /\ pc'[r] \in {"stamp", "done"}
          /\ \A q \in Requests \ {r} : pc'[q] = pc[q]
      BY <1>7, <1>b DEF SkipSave, SkipConfirm, Reload, RecordEvent, Stamp, Abort, Goto, Answered
    <2>2. /\ body' = body /\ snap' = snap /\ openSeen' = openSeen /\ loaded' = loaded
          /\ UNCHANGED <<table, world>> /\ closed' = closed
      BY <1>7 DEF SkipSave, SkipConfirm, Reload, RecordEvent, Stamp, Abort, world
    <2>3. Current(r)' /\ Cleared(r)' /\ SeesOpen(r)'
      BY <1>a, <2>1, <2>2 DEF Current, Cleared, SeesOpen
    <2>. QED
      BY <1>0, <2>1, <2>2, <2>3, ControlStep
  <1>8. ASSUME NEW c \in Closing, Close(c) \/ Reopen(c)
        PROVE  IInv'
    <2>1. /\ table' = table /\ rows' = rows
          /\ pc' = pc /\ body' = body /\ snap' = snap /\ loaded' = loaded
          /\ \A q \in Requests :
               /\ openSeen[q] \subseteq openSeen'[q]
               /\ Cycles \ closed \subseteq openSeen[q] => Cycles \ closed' \subseteq openSeen'[q]
      BY <1>8, <1>b DEF Close, Reopen, table, request
    <2>2. RequestsInv'
      <3>1. ASSUME NEW q \in Requests
            PROVE  (Current(q) /\ Cleared(q) /\ SeesOpen(q))'
        BY <1>a, <2>1 DEF Current, Cleared, SeesOpen
      <3>. QED
        BY <3>1 DEF RequestsInv
    <2>. QED
      BY <1>0, <2>1, <2>2, HistoryKept DEF IInv
  <1>9. CASE UNCHANGED vars \/ \E m \in Movable : Regrant(m[1], m[2])
    <2>1. /\ table' = table /\ rows' = rows /\ closed' = closed /\ openSeen' = openSeen
          /\ pc' = pc /\ body' = body /\ snap' = snap /\ loaded' = loaded
      BY <1>9 DEF Regrant, table, request, vars
    <2>2. RequestsInv'
      BY <1>a, <2>1 DEF RequestsInv, Current, Cleared, SeesOpen
    <2>. QED
      BY <1>0, <2>1, <2>2, HistoryKept DEF IInv
  <1>. QED
    BY <1>1, <1>2, <1>3, <1>4, <1>5, <1>6, <1>7, <1>8, <1>9 DEF Next

(* The invariant holds in every state the endpoints can reach. *)
THEOREM Invariance == Spec => []IInv
  BY InvInit, InvStep, PTL DEF Spec

(* Every variable keeps its type, whatever the requests, the deadlines and the
   grants do: the ledger and the events only name writes that happened. *)
THEOREM TypeCorrect == Spec => []TypeOK
  <1>1. IInv => TypeOK
    BY DEF IInv
  <1>. QED
    BY <1>1, Invariance, PTL

(* For any number of racing requests, a confirm only ever takes a row nobody
   wrote this cycle: Score.Confirm's conditional UPDATE is enough. *)
THEOREM ConfirmTakesOnlyUntouchedRows == Spec => []ConfirmIsFirstTouch
  <1>1. IInv => ConfirmIsFirstTouch
    BY DEF IInv
  <1>. QED
    BY <1>1, Invariance, PTL

(* No save can slip an answer under a confirm: what a confirm affirms is what
   its author's request loaded. *)
THEOREM ConfirmAffirmsTheLoadedAnswer == Spec => []ConfirmAffirmsWhatWasSeen
  <1>1. IInv => ConfirmAffirmsWhatWasSeen
    BY DEF IInv
  <1>. QED
    BY <1>1, Invariance, PTL

(* Every write was made by a user cleared for the row's stored system, in a
   cycle that was open during the request or by an administrator. *)
THEOREM WritesAreAuthorised == Spec => []AuthorisedOnTheStoredRow
  <1>1. IInv => AuthorisedOnTheStoredRow
    BY DEF IInv
  <1>. QED
    BY <1>1, Invariance, PTL

-----------------------------------------------------------------------------
(* The detailed endpoints implement the contract. *)

(* The history is only touched by a row write, and then it is one of the
   contract's three effects of a request that has had none. *)
LEMMA ContractStep ==
  IInv /\ [Next]_vars => [Promise!ContractNext]_<<rows, ledger>>
  <1>. SUFFICES ASSUME IInv, [Next]_vars
                PROVE  Promise!ContractNext \/ UNCHANGED <<rows, ledger>>
    BY DEF Promise!ContractNext
  <1>a. /\ TypeOK /\ WritersAreFinishing
        /\ body \in [Requests -> Body] /\ rows \in [ScoreIds -> Row]
    BY DEF IInv, TypeOK
  <1>b. ASSUME NEW r \in Requests, pc[r] = "write"
        PROVE  Promise!Fresh(r)
    BY <1>a, <1>b DEF WritersAreFinishing, Promise!Fresh
  <1>c. ASSUME NEW r \in Requests, NEW i \in ScoreIds, NEW w, pc[r] = "write",
               Write(r, i, w)
        PROVE  Promise!Effect(r, i, w)
    BY <1>b, <1>c DEF Write, Promise!Effect, Promise!Entry
  <1>d. \A r \in Requests : body[r].id \in ScoreIds
    BY <1>a DEF Body
  <1>1. ASSUME NEW r \in Requests, NEW i \in ScoreIds, Insert(r, i)
        PROVE  Promise!ContractNext
    <2>1. Promise!Effect(r, i, Inserted(body[r])) /\ rows[i].status = "absent"
      BY <1>1, <1>c DEF Insert
    <2>2. Promise!Answer(r, i)
      BY <1>1, <2>1 DEF Insert, Promise!Answer, Promise!Submitted, Inserted
    <2>. QED
      BY <2>2 DEF Promise!ContractNext
  <1>2. ASSUME NEW r \in Requests, UpdateSave(r)
        PROVE  Promise!ContractNext \/ UNCHANGED <<rows, ledger>>
    <2>. DEFINE i == body[r].id
    <2>1. CASE Write(r, i, Reviewed(rows[i], body[r])) /\ rows[i].status # "absent"
      <3>1. Promise!Effect(r, i, Reviewed(rows[i], body[r]))
        BY <1>2, <1>c, <1>d, <2>1 DEF UpdateSave
      <3>2. Promise!Edit(r, i)
        BY <1>2, <2>1, <3>1 DEF UpdateSave, Promise!Edit, Promise!Submitted, Reviewed
      <3>. QED
        BY <1>d, <3>2 DEF Promise!ContractNext
    <2>2. CASE UNCHANGED table
      BY <2>2 DEF table
    <2>. QED
      BY <1>2, <2>1, <2>2 DEF UpdateSave
  <1>3. ASSUME NEW r \in Requests, UpdateConfirm(r)
        PROVE  Promise!ContractNext \/ UNCHANGED <<rows, ledger>>
    <2>. DEFINE i == body[r].id
                w == [rows[i] EXCEPT !.status = "done"]
    <2>1. CASE Write(r, i, w) /\ rows[i].status = "not_started"
      <3>1. Promise!Affirm(r, i)
        BY <1>3, <1>c, <1>d, <2>1 DEF UpdateConfirm, Promise!Affirm
      <3>. QED
        BY <1>d, <3>1 DEF Promise!ContractNext
    <2>2. CASE UNCHANGED table
      BY <2>2 DEF table
    <2>. QED
      BY <1>3, <2>1, <2>2 DEF UpdateConfirm, StillUntouched
  <1>4. ASSUME NEW r \in Requests,
               \/ \E b \in Inputs : Begin(r, b)
               \/ Load(r) \/ Check(r) \/ SkipSave(r) \/ SkipConfirm(r)
               \/ Reload(r) \/ RecordEvent(r) \/ Stamp(r) \/ Abort(r)
        PROVE  UNCHANGED <<rows, ledger>>
    BY <1>4 DEF Begin, Load, Check, SkipSave, SkipConfirm, Reload, RecordEvent,
                Stamp, Abort, table
  <1>5. CASE \/ \E c \in Closing : Close(c) \/ Reopen(c)
             \/ \E m \in Movable : Regrant(m[1], m[2])
             \/ UNCHANGED vars
    BY <1>5 DEF Close, Reopen, Regrant, table, vars
  <1>. QED
    BY <1>1, <1>2, <1>3, <1>4, <1>5 DEF Next

(* Whatever happens between their SQL statements, the three endpoints behave
   as if every request took the effect it asks for at most once, in one atomic
   step. *)
THEOREM EndpointsKeepTheContract == Spec => Contract
  <1>1. Init => Promise!ContractInit
    BY DEF Init, Promise!ContractInit
  <1>. QED
    BY <1>1, ContractStep, Invariance, PTL DEF Spec, Contract, Promise!Contract

-----------------------------------------------------------------------------
(* What the write endpoints answer: a stored row is never reported missing,
   and the editor a response names is on record. *)

(* A confirm that lost its race finds the row reviewed when it looks again. *)
LostToAReview(r) == pc[r] = "reload" => rows[body[r].id].status = "done"

(* A request that has not been answered has no answer, and one that was told
   its row is missing loaded none. *)
AnsweredAtTheEnd(r) == pc[r] # "done" => ack[r] = [code |-> "none", editor |-> Nobody]
MissingWasAbsent(r) == ack[r].code = "not_found" => loaded[r].status = "absent"

(* Some recorded event about the score of r's response is by the editor e. *)
OnRecord(r, e) ==
  \E k \in recorded : ledger[k].id = Subject(r) /\ body[ledger[k].req].user = e
EditorIsOnRecord(r) == ack[r].editor # Nobody => OnRecord(r, ack[r].editor)

(* The newest event of a score is a recorded event of that score. *)
NewestIsRecorded ==
  \A i \in ScoreIds : newest[i] # 0 =>
    newest[i] \in recorded /\ ledger[newest[i]].id = i

RepliesInv ==
  /\ NewestIsRecorded
  /\ \A r \in Requests : /\ LostToAReview(r) /\ AnsweredAtTheEnd(r)
                         /\ MissingWasAbsent(r) /\ EditorIsOnRecord(r)

-----------------------------------------------------------------------------
(* The ledger only grows, and a reviewed row stays reviewed: a consequence of
   the contract. *)
LEMMA TablesGrow ==
  ASSUME IInv, [Next]_vars
  PROVE  /\ \A k \in DOMAIN ledger : k \in DOMAIN ledger' /\ ledger'[k] = ledger[k]
         /\ \A i \in ScoreIds : rows[i].status = "done" => rows'[i].status = "done"
  <1>1. TypeOK /\ ledger \in Seq(Entry) /\ rows \in [ScoreIds -> Row]
    BY DEF IInv, TypeOK
  <1>2. CASE UNCHANGED <<rows, ledger>>
    BY <1>2
  <1>3. ASSUME NEW q \in Requests, NEW i \in ScoreIds, NEW w, w.status = "done",
               Promise!Effect(q, i, w)
        PROVE  /\ \A k \in DOMAIN ledger : k \in DOMAIN ledger' /\ ledger'[k] = ledger[k]
               /\ \A j \in ScoreIds : rows[j].status = "done" => rows'[j].status = "done"
    <2>1. ledger' = Append(ledger, Promise!Entry(q, i, w)) /\ rows' = [rows EXCEPT ![i] = w]
      BY <1>3 DEF Promise!Effect
    <2>2. \A k \in DOMAIN ledger : k \in DOMAIN ledger' /\ ledger'[k] = ledger[k]
      BY <1>1, <2>1
    <2>. QED
      BY <1>1, <1>3, <2>1, <2>2
  <1>4. ASSUME NEW q \in Requests, NEW i \in ScoreIds,
               Promise!Answer(q, i) \/ Promise!Edit(q, i) \/ Promise!Affirm(q, i)
        PROVE  \E w : w.status = "done" /\ Promise!Effect(q, i, w)
    <2>1. rows[i] \in Row
      BY <1>1
    <2>2. CASE Promise!Answer(q, i)
      BY <2>2 DEF Promise!Answer
    <2>3. CASE Promise!Edit(q, i)
      BY <2>1, <2>3 DEF Promise!Edit, Row
    <2>4. CASE Promise!Affirm(q, i)
      BY <2>1, <2>4 DEF Promise!Affirm, Row
    <2>. QED
      BY <1>4, <2>2, <2>3, <2>4
  <1>. QED
    BY <1>2, <1>3, <1>4, ContractStep DEF Promise!ContractNext

(* An answered request is over; a request keeps its body once it has begun and
   its write once it has one; an event stays on record. *)
LEMMA AnswersStand ==
  ASSUME TypeOK, [Next]_vars
  PROVE  /\ recorded \subseteq recorded'
         /\ \A r \in Requests :
              /\ pc[r] # "idle" => pc'[r] # "idle" /\ body'[r] = body[r]
              /\ pc[r] = "done" => /\ pc'[r] = "done" /\ ack'[r] = ack[r]
                                   /\ loaded'[r] = loaded[r] /\ mine'[r] = mine[r]
  <1>1. /\ pc \in [Requests -> Labels] /\ body \in [Requests -> Body]
        /\ ack \in [Requests -> Acks] /\ loaded \in [Requests -> Row]
        /\ mine \in [Requests -> {0} \cup DOMAIN ledger]
    BY DEF TypeOK
  <1>2. CASE \E r \in Requests, b \in Inputs : Begin(r, b)
    BY <1>1, <1>2 DEF Begin, Answered, Goto, audit
  <1>3. CASE \E r \in Requests : Load(r) \/ Check(r) \/ Reload(r) \/ Stamp(r) \/ Abort(r)
    BY <1>1, <1>3 DEF Load, Check, Reload, Stamp, Abort, Answered, Goto, audit
  <1>4. CASE \E r \in Requests : SkipSave(r) \/ SkipConfirm(r) \/ RecordEvent(r)
    BY <1>1, <1>4 DEF SkipSave, SkipConfirm, RecordEvent, Goto, audit
  <1>5. CASE \E r \in Requests : UpdateSave(r) \/ UpdateConfirm(r) \/ \E i \in ScoreIds : Insert(r, i)
    BY <1>1, <1>5 DEF UpdateSave, UpdateConfirm, Insert, Write, Answered, Goto, audit
  <1>6. CASE \/ \E c \in Closing : Close(c) \/ Reopen(c)
             \/ \E m \in Movable : Regrant(m[1], m[2])
             \/ UNCHANGED vars
    BY <1>6 DEF Close, Reopen, Regrant, audit, request, vars
  <1>. QED
    BY <1>2, <1>3, <1>4, <1>5, <1>6 DEF Next

LEMMA RepliesInit == Init => RepliesInv
  <1>. SUFFICES ASSUME Init PROVE RepliesInv
    OBVIOUS
  <1>. QED
    BY DEF Init, RepliesInv, NewestIsRecorded, LostToAReview, AnsweredAtTheEnd,
           MissingWasAbsent, EditorIsOnRecord

(* Once a row is reviewed, every later reader finds it so: the only way into
   the second read is an UPDATE that found the row reviewed. *)
LEMMA LostStep ==
  ASSUME IInv, RepliesInv, [Next]_vars, NEW r \in Requests
  PROVE  LostToAReview(r)'
  <1>1. TypeOK /\ pc \in [Requests -> Labels] /\ body[r].id \in ScoreIds
        /\ rows \in [ScoreIds -> Row]
    BY DEF IInv, TypeOK, Body
  <1>2. CASE pc[r] = "reload"
    BY <1>1, <1>2, TablesGrow, AnswersStand DEF RepliesInv, LostToAReview
  <1>3. CASE pc[r] # "reload" /\ pc'[r] = "reload"
    <2>1. UpdateConfirm(r) /\ ~StillUntouched(body[r].id) /\ rows' = rows /\ body' = body
      <3>1. CASE \E q \in Requests :
                   \/ (\E b \in Inputs : Begin(q, b)) \/ Load(q) \/ Check(q) \/ Reload(q)
                   \/ Stamp(q) \/ Abort(q) \/ SkipSave(q) \/ SkipConfirm(q) \/ RecordEvent(q)
        BY <1>1, <1>3, <3>1 DEF Begin, Load, Check, Reload, Stamp, Abort, SkipSave,
                                SkipConfirm, RecordEvent, Answered, Goto
      <3>2. CASE \E q \in Requests : UpdateSave(q) \/ \E i \in ScoreIds : Insert(q, i)
        BY <1>1, <1>3, <3>2 DEF UpdateSave, Insert, Write, Answered, Goto
      <3>3. CASE \E q \in Requests : UpdateConfirm(q)
        BY <1>1, <1>3, <3>3 DEF UpdateConfirm, Write, Goto, table
      <3>4. CASE \/ \E c \in Closing : Close(c) \/ Reopen(c)
                 \/ \E m \in Movable : Regrant(m[1], m[2])
                 \/ UNCHANGED vars
        BY <1>3, <3>4 DEF Close, Reopen, Regrant, request, vars
      <3>. QED
        BY <3>1, <3>2, <3>3, <3>4 DEF Next
    <2>2. rows[body[r].id].status # "absent"
      BY <2>1 DEF IInv, RequestsInv, Current, UpdateConfirm
    <2>3. rows[body[r].id].status = "done"
      BY <1>1, <2>1, <2>2 DEF StillUntouched, Row
    <2>. QED
      BY <2>1, <2>3 DEF LostToAReview
  <1>. QED
    BY <1>2, <1>3 DEF LostToAReview

(* What a running request is answered by the step that ends it. *)
LEMMA AnswerStep ==
  ASSUME TypeOK, [Next]_vars, NEW r \in Requests, AnsweredAtTheEnd(r), pc[r] # "done"
  PROVE  /\ AnsweredAtTheEnd(r)'
         /\ ack'[r].code = "not_found" =>
              \/ Load(r) /\ body[r].op # "create" /\ Judged(r).status = "absent"
              \/ UpdateSave(r) /\ ~(/\ rows[body[r].id].status # "absent"
                                    /\ rows[body[r].id].system = loaded[r].system
                                    /\ rows[body[r].id].cycle = loaded[r].cycle)
              \/ Reload(r) /\ rows[body[r].id].status # "done"
         /\ ack'[r].editor # Nobody => Stamp(r) /\ ack'[r].editor = Editor(r)
  <1>1. pc \in [Requests -> Labels] /\ ack \in [Requests -> Acks]
    BY DEF TypeOK
  <1>2. ack[r].code = "none" /\ ack[r].editor = Nobody
    BY DEF AnsweredAtTheEnd
  <1>3. CASE \E q \in Requests : (\E b \in Inputs : Begin(q, b)) \/ Check(q) \/ Abort(q)
    BY <1>1, <1>2, <1>3 DEF Begin, Check, Abort, Answered, Goto, AnsweredAtTheEnd
  <1>4. ASSUME NEW q \in Requests, Load(q)
        PROVE  /\ AnsweredAtTheEnd(r)'
               /\ ack'[r].code = "not_found" =>
                    q = r /\ body[r].op # "create" /\ Judged(r).status = "absent"
               /\ ack'[r].editor = Nobody
    BY <1>1, <1>2, <1>4 DEF Load, Answered, Goto, AnsweredAtTheEnd
  <1>5. CASE \E q \in Requests : Reload(q) \/ Stamp(q)
    BY <1>1, <1>2, <1>5 DEF Reload, Stamp, Answered, Goto, AnsweredAtTheEnd
  <1>6. CASE \E q \in Requests : UpdateSave(q)
    BY <1>1, <1>2, <1>6 DEF UpdateSave, Write, Answered, Goto, AnsweredAtTheEnd
  <1>7. CASE \E q \in Requests :
               \/ \E i \in ScoreIds : Insert(q, i)
               \/ SkipSave(q) \/ SkipConfirm(q) \/ UpdateConfirm(q) \/ RecordEvent(q)
    BY <1>1, <1>2, <1>7 DEF Insert, SkipSave, SkipConfirm, UpdateConfirm, RecordEvent, Write,
                            Goto, AnsweredAtTheEnd
  <1>8. CASE \/ \E c \in Closing : Close(c) \/ Reopen(c)
             \/ \E m \in Movable : Regrant(m[1], m[2])
             \/ UNCHANGED vars
    BY <1>2, <1>8 DEF Close, Reopen, Regrant, AnsweredAtTheEnd, request, vars
  <1>. QED
    BY <1>3, <1>4, <1>5, <1>6, <1>7, <1>8 DEF Next

(* What is on record about a request's score stays there once it has written. *)
LEMMA RecordStands ==
  ASSUME IInv, [Next]_vars, NEW r \in Requests, NEW e, pc[r] # "idle", mine'[r] = mine[r],
         OnRecord(r, e)
  PROVE  OnRecord(r, e)'
  <1>1. TypeOK /\ recorded \subseteq DOMAIN ledger /\ mine[r] \in {0} \cup DOMAIN ledger
    BY DEF IInv, TypeOK
  <1>2. PICK k \in recorded : ledger[k].id = Subject(r) /\ body[ledger[k].req].user = e
    BY DEF OnRecord
  <1>3. Subject(r)' = Subject(r)
    BY <1>1, TablesGrow, AnswersStand DEF Subject
  <1>4. ledger[k].req \in Requests /\ pc[ledger[k].req] # "idle"
    BY <1>1, <1>2, LedgerEntry DEF IInv, WritersAreFinishing
  <1>. QED
    BY <1>1, <1>2, <1>3, <1>4, TablesGrow, AnswersStand DEF OnRecord

(* A later event takes the place of the newest one with one of the same score. *)
LEMMA NewestStep ==
  ASSUME IInv, RepliesInv, [Next]_vars
  PROVE  NewestIsRecorded'
  <1>1. /\ TypeOK /\ WritersAreKnown /\ NewestIsRecorded
        /\ newest \in [ScoreIds -> {0} \cup DOMAIN ledger]
    BY DEF IInv, TypeOK, RepliesInv
  <1>2. CASE newest' = newest
    BY <1>1, <1>2, TablesGrow, AnswersStand DEF NewestIsRecorded
  <1>3. CASE newest' # newest
    <2>1. \E q \in Requests : RecordEvent(q)
      BY <1>3 DEF Next, Begin, Load, Check, Insert, SkipSave, UpdateSave, SkipConfirm,
                  UpdateConfirm, Reload, Stamp, Abort, Close, Reopen, Regrant, audit, vars
    <2>2. PICK q \in Requests : RecordEvent(q)
      BY <2>1
    <2>3. /\ recorded' = recorded \cup {mine[q]} /\ ledger' = ledger
          /\ newest' = [newest EXCEPT ![ledger[mine[q]].id] = mine[q]]
      BY <1>3, <2>2 DEF RecordEvent, audit, table
    <2>4. ASSUME NEW i \in ScoreIds, newest'[i] # 0
          PROVE  newest'[i] \in recorded' /\ ledger'[newest'[i]].id = i
      <3>1. CASE i = ledger[mine[q]].id
        BY <1>1, <2>3, <2>4, <3>1
      <3>2. CASE i # ledger[mine[q]].id
        BY <1>1, <2>3, <2>4, <3>2 DEF NewestIsRecorded
      <3>. QED
        BY <3>1, <3>2
    <2>. QED
      BY <2>4 DEF NewestIsRecorded
  <1>. QED
    BY <1>2, <1>3

LEMMA RepliesStep ==
  ASSUME IInv, RepliesInv, [Next]_vars
  PROVE  RepliesInv'
  <1>1. TypeOK /\ body \in [Requests -> Body] /\ rows \in [ScoreIds -> Row]
        /\ loaded \in [Requests -> Row]
    BY DEF IInv, TypeOK
  <1>2. ASSUME NEW r \in Requests
        PROVE  AnsweredAtTheEnd(r)' /\ MissingWasAbsent(r)' /\ EditorIsOnRecord(r)'
    <2>1. AnsweredAtTheEnd(r) /\ MissingWasAbsent(r) /\ EditorIsOnRecord(r) /\ LostToAReview(r)
      BY DEF RepliesInv
    <2>2. CASE pc[r] = "done"
      <3>1. pc'[r] = "done" /\ ack'[r] = ack[r] /\ loaded'[r] = loaded[r] /\ mine'[r] = mine[r]
        BY <1>1, <2>2, AnswersStand
      <3>2. EditorIsOnRecord(r)'
        BY <2>1, <2>2, <3>1, RecordStands DEF EditorIsOnRecord
      <3>. QED
        BY <2>1, <3>1, <3>2 DEF AnsweredAtTheEnd, MissingWasAbsent
    <2>3. CASE pc[r] # "done"
      <3>1. AnsweredAtTheEnd(r)'
        BY <1>1, <2>1, <2>3, AnswerStep
      <3>2. MissingWasAbsent(r)'
        <4>1. CASE Load(r) /\ body[r].op # "create" /\ Judged(r).status = "absent"
          BY <1>1, <4>1 DEF Load, MissingWasAbsent
        <4>2. ~(UpdateSave(r) /\ ~(/\ rows[body[r].id].status # "absent"
                                  /\ rows[body[r].id].system = loaded[r].system
                                  /\ rows[body[r].id].cycle = loaded[r].cycle))
          BY DEF IInv, RequestsInv, Current, UpdateSave
        <4>3. ~(Reload(r) /\ rows[body[r].id].status # "done")
          BY <2>1 DEF Reload, LostToAReview
        <4>. QED
          BY <1>1, <2>1, <2>3, <4>1, <4>2, <4>3, AnswerStep DEF MissingWasAbsent
      <3>3. EditorIsOnRecord(r)'
        <4>1. SUFFICES ASSUME ack'[r].editor # Nobody PROVE OnRecord(r, ack[r].editor)'
          BY DEF EditorIsOnRecord, OnRecord
        <4>2. Stamp(r) /\ ack'[r].editor = Editor(r)
          BY <1>1, <2>1, <2>3, <4>1, AnswerStep
        <4>3. Subject(r) \in ScoreIds
          BY <1>1, LedgerEntry DEF Subject, TypeOK, Body
        <4>4. OnRecord(r, Editor(r))
          BY <4>1, <4>2, <4>3 DEF RepliesInv, NewestIsRecorded, Editor, OnRecord
        <4>5. pc[r] # "idle" /\ recorded' = recorded /\ ledger' = ledger /\ body' = body
              /\ mine' = mine
          BY <4>2 DEF Stamp, audit, table
        <4>. QED
          BY <4>2, <4>4, <4>5 DEF OnRecord, Subject
      <3>. QED
        BY <3>1, <3>2, <3>3
    <2>. QED
      BY <2>2, <2>3
  <1>. QED
    BY <1>2, LostStep, NewestStep DEF RepliesInv

(* A lost race is never reported as a missing score: whoever is told so named a
   row that was not there when it was loaded. *)
THEOREM StoredRowsAreFound == Spec => []StoredRowIsConfirmed
  <1>1. IInv /\ RepliesInv /\ [Next]_vars => RepliesInv'
    BY RepliesStep
  <1>2. RepliesInv => StoredRowIsConfirmed
    BY DEF RepliesInv, MissingWasAbsent, StoredRowIsConfirmed
  <1>. QED
    BY <1>1, <1>2, RepliesInit, Invariance, PTL DEF Spec

(* The editor a response names has an event on record about that very score,
   which the next GET finds: lost events are never made up for. *)
THEOREM EditorsAreOnRecord == Spec => []NoPhantomEditor
  <1>1. IInv /\ RepliesInv /\ [Next]_vars => RepliesInv'
    BY RepliesStep
  <1>2. RepliesInv => NoPhantomEditor
    BY DEF RepliesInv, EditorIsOnRecord, OnRecord, NoPhantomEditor
  <1>. QED
    BY <1>1, <1>2, RepliesInit, Invariance, PTL DEF Spec
(* Both at once: whatever the writer's reply says holds of the stored row and
   of the recorded events. *)
THEOREM RepliesAreHonest == Spec => []RepliesAreTrue
  BY StoredRowsAreFound, EditorsAreOnRecord, PTL DEF RepliesAreTrue

=============================================================================
