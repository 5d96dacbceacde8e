--------------------------- MODULE ReviewContract ---------------------------
(***************************************************************************)
(* What the questionnaire's write endpoints promise, whatever happens      *)
(* between their SQL statements: every request takes effect at most once,  *)
(* atomically, and the effect is the one it asked for.                     *)
(*                                                                         *)
(*   Answer  a new row is inserted with the submitted answer, reviewed;    *)
(*   Edit    the stored row takes the submitted answer and is reviewed;    *)
(*   Affirm  a row nobody touched this cycle becomes reviewed, its answer  *)
(*           unchanged.                                                    *)
(*                                                                         *)
(* A row never changes system or cycle and is never "un-reviewed".         *)
(* `ledger` lists the effects in the order in which they happened; `body`  *)
(* is what each request asks for and belongs to the clients.               *)
(***************************************************************************)
EXTENDS Naturals, Sequences

CONSTANTS Requests, ScoreIds

VARIABLES rows, ledger, body

(* The answer a request submits: an AI flag it leaves unset keeps `ai`. *)
Submitted(q, ai) == IF body[q].ai = "unset" THEN ai ELSE body[q].ai

Fresh(q) == \A k \in DOMAIN ledger : ledger[k].req # q

Entry(q, i, row) ==
  [req |-> q, op |-> body[q].op, id |-> i, text |-> row.text, ai |-> row.ai]

(* Request q's single effect: row i becomes `row`. *)
Effect(q, i, row) ==
  /\ Fresh(q)
  /\ rows' = [rows EXCEPT ![i] = row]
  /\ ledger' = Append(ledger, Entry(q, i, row))

Answer(q, i) ==
  /\ body[q].op = "create"
  /\ rows[i].status = "absent"
  /\ Effect(q, i, [system |-> body[q].system, cycle |-> body[q].cycle,
                   text |-> body[q].text, ai |-> Submitted(q, "no"),
                   status |-> "done"])

Edit(q, i) ==
  /\ body[q].op = "save" /\ body[q].id = i
  /\ rows[i].status # "absent"
  /\ Effect(q, i, [rows[i] EXCEPT !.text = body[q].text,
                                  !.ai = Submitted(q, rows[i].ai),
                                  !.status = "done"])

Affirm(q, i) ==
  /\ body[q].op = "confirm" /\ body[q].id = i
  /\ rows[i].status = "not_started"
  /\ Effect(q, i, [rows[i] EXCEPT !.status = "done"])

ContractInit == ledger = <<>>

ContractNext ==
  \E q \in Requests, i \in ScoreIds : Answer(q, i) \/ Edit(q, i) \/ Affirm(q, i)

Contract == ContractInit /\ [][ContractNext]_<<rows, ledger>>
=============================================================================
