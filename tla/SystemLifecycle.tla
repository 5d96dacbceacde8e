--------------------------- MODULE SystemLifecycle ---------------------------
(***************************************************************************)
(* FISMA systems: created, edited field by field, given a target maturity, *)
(* decommissioned, reactivated and marked as having completed a data call. *)
(*                                                                         *)
(* An edit by an OpDiv-scoped admin reads the system, puts the stored      *)
(* attributes he may not set in the place of the request's, and updates    *)
(* the row by a statement of its own.  Only reactivation uses a            *)
(* transaction: it locks the row, looks, and updates.                      *)
(*                                                                         *)
(* Of the columns of one kind one is kept: `cloud` of the booleans, whose  *)
(* NULL means unknown, `vendor` of the attributes in text that only        *)
(* unscoped admins set, `owner` of the contact fields.  A field of a       *)
(* request may be absent.  `supplied` is history.                          *)
(***************************************************************************)
EXTENDS Naturals, FiniteSets

CONSTANTS
  Users, Unscoped, Scoped, \* all; OWNER and HHS_ADMIN; OPDIV_ADMIN
  Issos, Delegates,        \* ISSO and ISSM; SYSTEM_DELEGATE
  OpDivs, DefaultOpDiv,    \* divisions, and CMS
  Granted,                 \* the <<user, division>> grants
  Systems, Assigned,       \* system identifiers, the <<user, system>> assignments
  Now,                     \* no decommission date in the request
  Texts,                   \* what a text field may hold
  Cycles,                  \* data calls
  Requests,                \* each is made once
  Seeds,                   \* the tables a behaviour may start from
  Forms,      \* bound: the bodies of POST and PUT
  Dates,      \* bound: the decommission dates asked for
  LastMoment  \* bound: the clock

Null == "NULL"        \* SQL's, JSON's
Absent == "absent"    \* not in the request
Blank == ""
Bool == {"yes", "no"}

Form == [cloud : Bool \cup {Null, Absent}, vendor : Texts \cup {Blank, Absent},
         owner : Texts \cup {Blank, Absent}, opdiv : OpDivs \cup {Null}]
SystemRow == [opdiv : OpDivs, cloud : Bool \cup {Null}, vendor : Texts \cup {Null},
        owner : Texts \cup {Null}, target : Texts \cup {Null},
        off : BOOLEAN, offBy : Users \cup {Null}, offDate : Nat,
        offNotes : Texts \cup {Null}, onBy : Users \cup {Null}, onNotes : Texts \cup {Null}]
NoRow == [opdiv |-> Null]

(* A system that users are assigned to exists (the key of                  *)
(* users_fismasystems), and NULL, nothing and the empty text are no text.  *)
ASSUME SystemsAssumption ==
  /\ DefaultOpDiv \in OpDivs /\ Null \notin OpDivs /\ Forms \subseteq Form
  /\ {Null, Absent, Blank} \cap Texts = {}
  /\ Assigned \subseteq Users \X Systems /\ Null \notin Requests
  /\ \A seed \in Seeds : /\ seed \in [Systems -> SystemRow \cup {NoRow}]
                         /\ \A pair \in Assigned : seed[pair[2]] # NoRow
  /\ Dates \subseteq Nat \ {Now} /\ LastMoment \in Nat
  /\ Unscoped \cup Scoped \cup Issos \cup Delegates \subseteq Users

VARIABLES
  now,
  rows,      \* fismasystems
  complete,  \* datacalls_fismasystems
  lock,      \* the request whose transaction has locked the row, or Null
  job,       \* the requests
  supplied   \* history: what unscoped admins have had a system's attributes be,
             \* and what it had at first, if that was nothing

systemVars == <<now, rows, complete, lock, job, supplied>>

Existing == {s \in Systems : rows[s] # NoRow}
Attributes(s, cloud, vendor) == {<<s, "cloud", cloud>>, <<s, "vendor", vendor>>}

Notes == Texts \cup {Absent}
NoBody == [none |-> Null]
Job ==
  [pc : {"idle", "guard", "write", "commit", "ok", "invalid", "forbidden", "not found", "failed"},
   op : {"none", "create", "save", "decommission", "reactivate", "target", "complete"},
   me : Users \cup {Null}, at : Systems \cup {Null},
   body : Form \cup [date : Dates \cup {Now}, notes : Notes] \cup [notes : Notes]
            \cup [target : Texts \cup {Absent}] \cup [cycle : Cycles] \cup {NoBody}]
Unused == [pc |-> "idle", op |-> "none", me |-> Null, at |-> Null, body |-> NoBody]
SystemsInit ==
  /\ now = 0 /\ rows \in Seeds /\ complete = {}
  /\ lock = [s \in Systems |-> Null] /\ job = [r \in Requests |-> Unused]
  /\ supplied = UNION {Attributes(s, rows[s].cloud, rows[s].vendor) : s \in Existing}

IsEditor(u) == u \in Unscoped \cup Scoped
CanManage(u, s) == u \in Unscoped \/ (u \in Scoped /\ <<u, rows[s].opdiv>> \in Granted)

InStage(r, pc) == job[r].pc = pc
Proceed(r, pc) == job' = [job EXCEPT ![r].pc = pc]
(* A request that is over keeps only its answer. *)
Close(r, answer) == job' = [job EXCEPT ![r] = [Unused EXCEPT !.pc = answer]]
Respond(r, answer) == Close(r, answer) /\ UNCHANGED <<now, rows, complete, lock, supplied>>

-----------------------------------------------------------------------------
(* A request arrives and passes the gates of its role, or not. *)

Ask(r, op, u, s, body, allowed, next) ==
  /\ job[r] = Unused
  /\ IF allowed
     THEN job' = [job EXCEPT ![r] = [pc |-> next, op |-> op, me |-> u, at |-> s, body |-> body]]
     ELSE Close(r, "forbidden")
  /\ UNCHANGED <<now, rows, complete, lock, supplied>>

(* clearUnscopedOnlyFields: a tier that may not set the attributes creates *)
(* the system without them.                                                *)
Cleared(u, form) ==
  IF u \in Unscoped THEN form ELSE [form EXCEPT !.cloud = Absent, !.vendor = Absent]

AskCreate(r, u, form) ==
  Ask(r, "create", u, Null, Cleared(u, form),
      u \in Unscoped \/ (u \in Scoped /\ <<u, form.opdiv>> \in Granted), "write")

AskSave(r, u, s, form) ==
  Ask(r, "save", u, s, form, IsEditor(u), IF u \in Unscoped THEN "write" ELSE "guard")

AskDecommission(r, u, s, date, notes) ==
  Ask(r, "decommission", u, s, [date |-> date, notes |-> notes], IsEditor(u), "guard")
AskReactivate(r, u, s, notes) ==
  Ask(r, "reactivate", u, s, [notes |-> notes], IsEditor(u), "guard")

(* Target maturity and completion: by an admin who manages the system, or  *)
(* by those assigned to it; target maturity is not for delegates.          *)
AskTarget(r, u, s, target) ==
  Ask(r, "target", u, s, [target |-> target],
      IsEditor(u) \/ (u \in Issos /\ <<u, s>> \in Assigned),
      IF IsEditor(u) THEN "guard" ELSE "write")
AskComplete(r, u, s, c) ==
  Ask(r, "complete", u, s, [cycle |-> c],
      IsEditor(u) \/ (u \in Issos \cup Delegates /\ <<u, s>> \in Assigned),
      IF IsEditor(u) THEN "guard" ELSE "write")

\* Save's rule across fields: a system that is not in the cloud has no vendor.
Refused(form) == form.cloud = "no" /\ form.vendor \notin {Absent, Blank}

(* The stored value as a pointer: NULL is nil, like a field that is absent. *)
Pointer(v) == IF v = Null THEN Absent ELSE v
\* Variant: the request's text attributes are kept.
PreserveCloudOnly(form, row) ==
  [form EXCEPT !.cloud = IF form.cloud = Absent THEN Absent ELSE row.cloud]
(* preserveUnscopedOnlyFields.  Which booleans the request carried was     *)
(* noted before: one it left out is still not written, but Save's rule     *)
(* across fields judges the stored value all the same.                     *)
Restored(form, row) == [form EXCEPT !.cloud = row.cloud, !.vendor = Pointer(row.vendor)]
Preserve(form, row) ==
  [Restored(form, row) EXCEPT !.cloud = IF form.cloud = Absent THEN Absent ELSE @]

(* guardManageFismaSystem *)
GuardManage(r) ==
  LET s == job[r].at IN
  /\ InStage(r, "guard")
  /\ IF rows[s] = NoRow THEN Respond(r, "not found")
     ELSE IF ~CanManage(job[r].me, s) THEN Respond(r, "forbidden")
     ELSE IF job[r].op = "save" /\ Refused(Restored(job[r].body, rows[s])) THEN Respond(r, "invalid")
     ELSE /\ job' = [job EXCEPT ![r].pc = "write",
                       ![r].body = IF job[r].op = "save" THEN Preserve(@, rows[s]) ELSE @]
          /\ UNCHANGED <<now, rows, complete, lock, supplied>>

-----------------------------------------------------------------------------
(* The statements. *)

Ready(r, op) == InStage(r, "write") /\ job[r].op = op
(* An UPDATE, or an INSERT that refers to the row, waits for its lock. *)
Unlocked(s) == lock[s] = Null

Boolean(v) == IF v = Absent THEN Null ELSE v
BlankToNil(v) == IF v \in {Absent, Blank} THEN Null ELSE v
Insert(r) ==
  LET form == job[r].body IN
  /\ Ready(r, "create")
  /\ IF Refused(form) THEN Respond(r, "invalid") ELSE
     \E s \in Systems :
       /\ rows[s] = NoRow
       /\ rows' = [rows EXCEPT ![s] =
            [opdiv |-> IF form.opdiv = Null THEN DefaultOpDiv ELSE form.opdiv,
             cloud |-> Boolean(form.cloud),
             vendor |-> BlankToNil(form.vendor), owner |-> BlankToNil(form.owner), target |-> Null,
             off |-> FALSE, offBy |-> Null, offDate |-> 0, offNotes |-> Null,
             onBy |-> Null, onNotes |-> Null]]
       /\ supplied' = supplied \cup
            (IF job[r].me \in Unscoped THEN Attributes(s, rows'[s].cloud, rows'[s].vendor)
             ELSE Attributes(s, Null, Null))
       /\ Close(r, "ok") /\ UNCHANGED <<now, complete, lock>>

\* Variant: a cleared text is stored as it came.
ChangedVerbatim(old, v) == IF v = Absent THEN old ELSE v
Changed(old, v) == IF v = Absent THEN old ELSE BlankToNil(v)
Edited(row, form) ==
  [row EXCEPT !.cloud = IF form.cloud = Absent THEN @ ELSE form.cloud,
              !.vendor = Changed(@, form.vendor), !.owner = Changed(@, form.owner)]

UpdateSystem(r) ==
  LET s == job[r].at  form == job[r].body IN
  /\ Ready(r, "save")
  /\ IF Refused(form) THEN Respond(r, "invalid")
     ELSE IF rows[s] = NoRow THEN Respond(r, "not found") ELSE
       /\ Unlocked(s)
       /\ rows' = [rows EXCEPT ![s] = Edited(@, form)]
       /\ supplied' = IF job[r].me \in Unscoped
                      THEN supplied \cup Attributes(s, rows'[s].cloud, rows'[s].vendor)
                      ELSE supplied
       /\ Close(r, "ok") /\ UNCHANGED <<now, complete, lock>>

Noted(old, notes) == IF notes = Absent THEN old ELSE notes
Decommissioned(row, u, body) ==
  [row EXCEPT !.off = TRUE, !.offBy = u, !.offDate = IF body.date = Now THEN now ELSE body.date,
              !.offNotes = Noted(@, body.notes)]
Future(date) == date # Now /\ date > now
(* DeleteFismaSystem marks a decommissioned system once more. *)
Decommission(r) ==
  LET s == job[r].at  body == job[r].body IN
  /\ Ready(r, "decommission")
  /\ IF Future(body.date) THEN Respond(r, "invalid") ELSE
       /\ Unlocked(s)
       /\ rows' = [rows EXCEPT ![s] = Decommissioned(@, job[r].me, body)]
       /\ Close(r, "ok") /\ UNCHANGED <<now, complete, lock, supplied>>

\* Variant: SELECT without FOR UPDATE.
LookOnly(r, s) == UNCHANGED lock
TakeLock(r, s) == lock' = [lock EXCEPT ![s] = r]
(* ReactivateFismaSystem: SELECT FOR UPDATE, and the UPDATE and its event. *)
Lock(r) ==
  LET s == job[r].at IN
  /\ Ready(r, "reactivate") /\ Unlocked(s)
  /\ IF ~rows[s].off THEN Respond(r, "invalid") ELSE
       TakeLock(r, s) /\ Proceed(r, "commit") /\ UNCHANGED <<now, rows, complete, supplied>>
Reactivate(r) ==
  LET s == job[r].at IN
  /\ InStage(r, "commit")
  /\ rows' = [rows EXCEPT ![s].off = FALSE, ![s].onBy = job[r].me,
                          ![s].onNotes = Noted(@, job[r].body.notes)]
  /\ lock' = [lock EXCEPT ![s] = Null]
  /\ Close(r, "ok") /\ UNCHANGED <<now, complete, supplied>>

(* A tier comes with its justification, or is refused. *)
SetTarget(r) ==
  LET s == job[r].at  target == job[r].body.target IN
  /\ Ready(r, "target")
  /\ IF target \notin Texts THEN Respond(r, "invalid") ELSE
       /\ Unlocked(s)
       /\ rows' = [rows EXCEPT ![s].target = target]
       /\ Close(r, "ok") /\ UNCHANGED <<now, complete, lock, supplied>>

(* INSERT ... ON CONFLICT DO NOTHING RETURNING: a second time, no row. *)
Complete(r) ==
  LET pair == <<job[r].body.cycle, job[r].at>> IN
  /\ Ready(r, "complete") /\ Unlocked(job[r].at)
  /\ IF pair \in complete THEN Respond(r, "not found") ELSE
       /\ complete' = complete \cup {pair}
       /\ Close(r, "ok") /\ UNCHANGED <<now, rows, lock, supplied>>

(* A statement fails, or the client is gone; a transaction is rolled back. *)
Abort(r) ==
  /\ job[r].pc \in {"guard", "write", "commit"}
  /\ lock' = [s \in Systems |-> IF lock[s] = r THEN Null ELSE lock[s]]
  /\ Close(r, "failed") /\ UNCHANGED <<now, rows, complete, supplied>>

SystemsTick ==
  now < LastMoment /\ now' = now + 1 /\ UNCHANGED <<rows, complete, lock, job, supplied>>

SystemsNext ==
  \/ SystemsTick
  \/ \E r \in Requests :
       \/ \E u \in Users :
            \/ \E form \in Forms : AskCreate(r, u, form) \/ \E s \in Systems : AskSave(r, u, s, form)
            \/ \E s \in Systems :
                 \/ \E notes \in Notes :
                      \/ \E date \in Dates \cup {Now} : AskDecommission(r, u, s, date, notes)
                      \/ AskReactivate(r, u, s, notes)
                 \/ \E target \in Texts \cup {Absent} : AskTarget(r, u, s, target)
                 \/ \E c \in Cycles : AskComplete(r, u, s, c)
       \/ GuardManage(r) \/ Insert(r) \/ UpdateSystem(r) \/ Decommission(r)
       \/ Lock(r) \/ Reactivate(r) \/ SetTarget(r) \/ Complete(r) \/ Abort(r)
SystemsSpec == SystemsInit /\ [][SystemsNext]_systemVars

-----------------------------------------------------------------------------
(* Properties. *)

(* The types; a request to create or edit brings a form. *)
SystemsTypeOK ==
  /\ now \in 0 .. LastMoment /\ complete \subseteq Cycles \X Systems
  /\ rows \in [Systems -> SystemRow \cup {NoRow}]
  /\ lock \in [Systems -> Requests \cup {Null}]
  /\ supplied \subseteq Systems \X {"cloud", "vendor"} \X (Bool \cup Texts \cup {Null})
  /\ job \in [Requests -> Job]
  /\ \A r \in Requests : job[r].op \in {"create", "save"} => job[r].body \in Form

(* Whatever a scoped admin sends, and whoever edits the system at the same *)
(* time, the attributes he may not set only ever hold what an unscoped     *)
(* admin asked for that system, or nothing if the scoped admin created it  *)
(* (preserveUnscopedOnlyFields, clearUnscopedOnlyFields).                  *)
AttributesComeFromUnscopedAdmins ==
  \A s \in Existing : Attributes(s, rows[s].cloud, rows[s].vendor) \subseteq supplied

(* Two reactivations of one decommissioning do not both succeed: whoever   *)
(* reactivates a system, it is decommissioned at that moment.              *)
ReactivatedOnce ==
  [][\A s \in Existing : \A r \in Requests :
       (InStage(r, "commit") /\ job[r].at = s /\ job'[r].pc = "ok") => rows[s].off]_systemVars
=============================================================================
