---------------------------- MODULE AccessControl ----------------------------
(***************************************************************************)
(* Users, OpDiv grants, system assignments and System Delegates: who may   *)
(* administer whom, and what a user's row says.                            *)
(*                                                                         *)
(* Every request is judged on two snapshots: the actor's, taken by the     *)
(* middleware when it authenticates, and the target's, read by the         *)
(* handler before its guards.  The write comes later, by statements that   *)
(* look at neither again, and a grant is followed by a statement of its    *)
(* own that derives the identity provider.  Requests interleave between    *)
(* any two statements, and any statement may fail.                         *)
(*                                                                         *)
(* A person is an e-mail address: its unique index gives each at most one  *)
(* row, and rows are never removed.  `revoked` and `adrift` are history.   *)
(***************************************************************************)
EXTENDS Naturals, FiniteSets

CONSTANTS
  Person,       \* e-mail addresses
  OpDiv, CMS,   \* operating divisions, and the one that signs in with Okta
  System, OpDivOf, \* systems, and the division of each
  OutOfUse,  \* the systems out of use
  DelegatesOn,  \* the divisions whose "Add System Delegate Role" is on
  Request,      \* requests; each is made once
  Populations,  \* the databases a behaviour may start from
  Term,         \* the default term of a delegate, three months
  Horizon,      \* bound: the last date
  AskedRoles,   \* bound: the roles that requests ask for
  AskedKinds,   \* bound: the kinds of request
  Faults        \* bound: the statements that may fail, by `pc`

Role == {"OWNER", "HHS_ADMIN", "HHS_READONLY_ADMIN", "OPDIV_ADMIN",
         "OPDIV_READONLY_ADMIN", "ISSO", "ISSM", "SYSTEM_DELEGATE"}
Kinds == {"create", "update", "delete", "restore", "grant", "revoke", "regrant", "assign",
          "unassign", "delegate", "undelegate", "renew"}
Provider == {"okta", "entra"}
Never == 0                        \* access_expires_at IS NULL
Date == 1 .. (Horizon + Term)
Row == [role : Role, deleted : BOOLEAN, idp : Provider, expires : Date \cup {Never}]

ASSUME AccessAssumption ==
  /\ CMS \in OpDiv /\ OpDivOf \in [System -> OpDiv] /\ DelegatesOn \subseteq OpDiv
  /\ OutOfUse \subseteq System
  /\ Term \in Nat \ {0} /\ Horizon \in Nat \ {0} /\ AskedRoles \subseteq Role
  /\ AskedKinds \subseteq Kinds /\ Faults \subseteq Kinds \cup {"guard", "diff", "derive"}

(* The databases are ones the service has left behind: the columns' types, *)
(* the foreign keys, an expiry for delegates and for nobody else,          *)
(* assignments within the divisions granted, and derived providers.        *)
ASSUME PopulationsAssumption ==
  \A d \in Populations :
    /\ DOMAIN d.users \subseteq Person
    /\ d.grants \subseteq (DOMAIN d.users) \X OpDiv /\ d.assigned \subseteq (DOMAIN d.users) \X System
    /\ \A p \in DOMAIN d.users :
         /\ d.users[p] \in Row
         /\ d.users[p].role = "SYSTEM_DELEGATE" <=> d.users[p].expires # Never
         /\ d.users[p].idp = (IF <<p, CMS>> \in d.grants THEN "okta" ELSE "entra")
         /\ \A s \in System : <<p, s>> \in d.assigned => <<p, OpDivOf[s]>> \in d.grants

VARIABLES
  users,    \* the users table: a row for some of the persons
  grants,   \* users_opdivs
  assigned, \* users_fismasystems
  today,
  req,      \* per request: where it is, what it asks and what it has read
  revoked,  \* history: the grants that were ever taken away
  adrift    \* history: the users whose provider was not derived: the POST
            \* that created them chose it, or a derivation failed

database == <<users, grants, assigned>>
vars == <<users, grants, assigned, today, req, revoked, adrift>>

(* What findUser loads: the row with its two sets, in one statement. *)
Account(p) ==
  [who |-> p, role |-> users[p].role, deleted |-> users[p].deleted, expires |-> users[p].expires,
   opdivs |-> {o \in OpDiv : <<p, o>> \in grants},
   systems |-> {s \in System : <<p, s>> \in assigned}]

Operation ==
  [kind : {"create", "update"}, whom : Person, role : AskedRoles, idp : Provider] \cup
  [kind : {"delete", "restore"}, whom : Person] \cup
  [kind : {"grant", "revoke"}, whom : Person, opdiv : OpDiv] \cup
  [kind : {"regrant"}, whom : Person, opdivs : SUBSET OpDiv] \cup
  [kind : {"assign", "unassign", "undelegate"}, whom : Person, system : System] \cup
  [kind : {"delegate", "renew"}, whom : Person, system : System, date : Date \cup {Never}]

-----------------------------------------------------------------------------
(* Role tiers. *)

HasUnscopedRead(a) == a.role \in {"OWNER", "HHS_ADMIN", "HHS_READONLY_ADMIN"}
IsAdmin(a) == a.role \in {"OWNER", "HHS_ADMIN", "OPDIV_ADMIN"}
IsSystemDelegate(a) == a.role = "SYSTEM_DELEGATE"
IsExpired(a) == IsSystemDelegate(a) /\ a.expires # Never /\ a.expires < today

Assignable(role) ==
  {other \in Role :
     \/ role = "OWNER"
     \/ role = "HHS_ADMIN" /\ other # "OWNER"
     \/ role = "OPDIV_ADMIN" /\ other \notin {"OWNER", "HHS_ADMIN", "HHS_READONLY_ADMIN"}}
CanAssignRole(a, role) == role \in Assignable(a.role)

SharesOpDiv(a, t) == a.opdivs \cap t.opdivs # {}
CanManageUser(a, t) ==
  IsAdmin(a) /\ CanAssignRole(a, t.role) /\ (HasUnscopedRead(a) \/ SharesOpDiv(a, t))
CanManageFismaSystem(a, s) == IsAdmin(a) /\ (HasUnscopedRead(a) \/ OpDivOf[s] \in a.opdivs)
CanManageSystemDelegates(a, s) ==
  CanManageFismaSystem(a, s) \/ (a.role = "ISSO" /\ s \in a.systems)

\* A grant is within the actor's reach: its own division, a user of no
\* division yet or of one it shares, and no higher tier.
CanGrant(a, o, t) ==
  /\ IsAdmin(a) /\ CanAssignRole(a, t.role)
  /\ HasUnscopedRead(a) \/ (o \subseteq a.opdivs /\ (t.opdivs = {} \/ SharesOpDiv(a, t)))

\* Variant: the target's own divisions are not looked at.
MayAssignAnywhere(a, s, t) == CanManageFismaSystem(a, s) /\ CanManageUser(a, t)
MayAssign(a, s, t) ==
  CanManageFismaSystem(a, s) /\ CanManageUser(a, t) /\ OpDivOf[s] \in t.opdivs

\* An existing account that self-service may attach to system `s`.
Attachable(t, s) == ~t.deleted /\ IsSystemDelegate(t) /\ OpDivOf[s] \in t.opdivs

(* What the two pickers offer. *)
\* Variant: a deleted delegate is offered.
CandidatesWithDeleted(s) ==
  {p \in DOMAIN users : IsSystemDelegate(users[p]) /\ <<p, OpDivOf[s]>> \in grants /\ <<p, s>> \notin assigned}
Candidates(s) ==
  {p \in DOMAIN users : /\ IsSystemDelegate(users[p]) /\ ~users[p].deleted
                        /\ <<p, OpDivOf[s]>> \in grants /\ <<p, s>> \notin assigned}
AssignableSystems(a, t) ==
  {s \in System : /\ s \notin OutOfUse
                  /\ OpDivOf[s] \in t.opdivs
                  /\ a.role \in {"OPDIV_ADMIN", "OPDIV_READONLY_ADMIN"} => OpDivOf[s] \in a.opdivs}

-----------------------------------------------------------------------------
(* A request: authentication, guards, write, derivation. *)

None == [kind |-> "none"]
Doing(label, op, me, known, add, remove) ==
  [pc |-> label, op |-> op, me |-> me, known |-> known, add |-> add, remove |-> remove]
Idle == Doing("idle", None, None, FALSE, {}, {})
Ended(outcome, kind) == Doing(outcome, [kind |-> kind], None, FALSE, {}, {})
Outcomes == {"ok", "refused", "missing", "failed"}

Init ==
  /\ \E d \in Populations : users = d.users /\ grants = d.grants /\ assigned = d.assigned
  /\ today = 1
  /\ req = [r \in Request |-> Idle]
  /\ revoked = {} /\ adrift = {}

Become(r, new) == req' = [req EXCEPT ![r] = new]
End(r, outcome) == Become(r, Ended(outcome, req[r].op.kind))

(* The middleware loads the row of the authenticated identity. *)
\* Variant: a deleted account is let in.
AuthenticateDeleted(r) ==
  /\ req[r].pc = "idle"
  /\ \E p \in DOMAIN users, op \in Operation :
       /\ op.kind \in AskedKinds
       /\ Become(r, Doing("guard", op, Account(p), FALSE, {}, {}))
  /\ UNCHANGED <<database, today, revoked, adrift>>
Authenticate(r) ==
  /\ req[r].pc = "idle"
  /\ \E p \in DOMAIN users, op \in Operation :
       /\ op.kind \in AskedKinds
       /\ IF users[p].deleted \/ IsExpired(users[p])
          THEN Become(r, Ended("refused", op.kind))
          ELSE Become(r, Doing("guard", op, Account(p), FALSE, {}, {}))
  /\ UNCHANGED <<database, today, revoked, adrift>>

(* A delegate's new expiry: three months unless one is asked for. *)
Expiry(date) == IF date = Never THEN today + Term ELSE date

(* Whether the handler's guards let the request through, given the target  *)
(* as just read.                                                           *)
Passes(me, op) ==
  LET known == op.whom \in DOMAIN users
      target == Account(op.whom) IN
  \/ op.kind = "create" /\ IsAdmin(me) /\ CanAssignRole(me, op.role)
  \/ op.kind = "update" /\ known /\ CanAssignRole(me, op.role) /\ CanManageUser(me, target)
  \/ op.kind = "delete" /\ known /\ op.whom # me.who /\ CanManageUser(me, target)
  \/ op.kind = "restore" /\ known /\ CanManageUser(me, target)
  \/ op.kind \in {"grant", "revoke"} /\ known /\ CanGrant(me, {op.opdiv}, target)
  \/ op.kind = "regrant" /\ known /\ CanGrant(me, op.opdivs, target)
  \/ op.kind = "assign" /\ known /\ MayAssign(me, op.system, target)
  \/ /\ op.kind = "unassign"
     /\ known /\ CanManageFismaSystem(me, op.system) /\ CanManageUser(me, target)
  \/ /\ op.kind = "delegate"
     /\ CanManageSystemDelegates(me, op.system) /\ OpDivOf[op.system] \in DelegatesOn
     /\ Expiry(op.date) >= today
     /\ known => Attachable(target, op.system)
  \/ /\ op.kind \in {"undelegate", "renew"}
     /\ CanManageSystemDelegates(me, op.system)
     /\ known /\ IsSystemDelegate(target) /\ op.system \in target.systems

Guard(r) ==
  LET op == req[r].op
      me == req[r].me
      label == IF op.kind = "regrant" THEN "diff" ELSE op.kind
      asked == IF op.kind = "delegate" THEN [op EXCEPT !.date = Expiry(op.date)] ELSE op IN
  /\ req[r].pc = "guard"
  /\ IF Passes(me, op)
     THEN Become(r, Doing(label, asked, me, op.whom \in DOMAIN users, {}, {}))
     ELSE End(r, "refused")
  /\ UNCHANGED <<database, today, revoked, adrift>>

-----------------------------------------------------------------------------
(* The writes: one statement or one transaction each. *)

Put(p, row) == users' = [q \in DOMAIN users \cup {p} |-> IF q = p THEN row ELSE users[q]]
At(r, kind) == req[r].pc = kind

\* An answer with nothing left to do, and a change of the row alone.
Answer(r, outcome) == End(r, outcome) /\ UNCHANGED <<database, today, revoked, adrift>>
Change(r, row) ==
  Put(req[r].op.whom, row) /\ End(r, "ok") /\ UNCHANGED <<grants, assigned, today, revoked, adrift>>

Create(r) ==
  LET op == req[r].op IN
  /\ At(r, "create")
  /\ IF op.whom \in DOMAIN users THEN Answer(r, "refused") ELSE
       /\ Put(op.whom,
              [role |-> op.role, deleted |-> FALSE,
               idp |-> IF HasUnscopedRead(req[r].me) THEN op.idp ELSE "okta",
               expires |-> IF op.role = "SYSTEM_DELEGATE" THEN today + Term ELSE Never])
       /\ adrift' = adrift \cup {op.whom}
       /\ End(r, "ok") /\ UNCHANGED <<grants, assigned, today, revoked>>

ExpiryAfterSave(row, role) ==
  IF role # "SYSTEM_DELEGATE" THEN Never
  ELSE IF row.expires = Never THEN today + Term ELSE row.expires

Update(r) ==
  LET op == req[r].op
      row == users[op.whom] IN
  /\ At(r, "update")
  /\ Change(r, [role |-> op.role, deleted |-> row.deleted, idp |-> row.idp,
                expires |-> ExpiryAfterSave(row, op.role)])

Delete(r) ==
  At(r, "delete") /\ Change(r, [users[req[r].op.whom] EXCEPT !.deleted = TRUE])

Restore(r) ==
  LET row == users[req[r].op.whom] IN
  /\ At(r, "restore")
  /\ IF row.deleted THEN Change(r, [row EXCEPT !.deleted = FALSE]) ELSE Answer(r, "refused")

(* Grants: the statement, then the derivation. *)
Regrant(r, add, remove) ==
  LET p == req[r].op.whom IN
  /\ grants' = (grants \ ({p} \X remove)) \cup ({p} \X add)
  /\ revoked' = revoked \cup (grants \cap ({p} \X (remove \ add)))
  /\ Become(r, Doing("derive", req[r].op, req[r].me, req[r].known, {}, {}))
  /\ UNCHANGED <<users, assigned, today, adrift>>

Grant(r) == At(r, "grant") /\ Regrant(r, {req[r].op.opdiv}, {})
Revoke(r) == At(r, "revoke") /\ Regrant(r, {}, {req[r].op.opdiv})

(* The batch first reads the current grants and works out the difference,  *)
(* within the actor's own divisions.                                       *)
Diff(r) ==
  LET op == req[r].op
      reach == IF HasUnscopedRead(req[r].me) THEN OpDiv ELSE req[r].me.opdivs
      current == {o \in OpDiv : <<op.whom, o>> \in grants}
      add == (op.opdivs \ current) \cap reach
      remove == (current \ op.opdivs) \cap reach IN
  /\ At(r, "diff")
  /\ IF add \cup remove = {} THEN Answer(r, "ok") ELSE
       /\ Become(r, Doing("regrant", op, req[r].me, req[r].known, add, remove))
       /\ UNCHANGED <<database, today, revoked, adrift>>

SetUserOpDivs(r) == At(r, "regrant") /\ Regrant(r, req[r].add, req[r].remove)

ProviderOf(g, p) == IF <<p, CMS>> \in g THEN "okta" ELSE "entra"
\* Variant: the provider is derived from the grants the request has itself made.
DeriveOwn(r) ==
  LET p == req[r].op.whom
      op == req[r].op IN
  /\ At(r, "derive")
  /\ Put(p, [users[p] EXCEPT !.idp =
         IF op.kind = "grant" THEN ProviderOf({<<p, op.opdiv>>}, p) ELSE ProviderOf(grants, p)])
  /\ adrift' = adrift \ {p} /\ End(r, "ok")
  /\ UNCHANGED <<grants, assigned, today, revoked>>
Derive(r) ==
  LET p == req[r].op.whom IN
  /\ At(r, "derive")
  /\ Put(p, [users[p] EXCEPT !.idp = ProviderOf(grants, p)])
  /\ adrift' = adrift \ {p} /\ End(r, "ok")
  /\ UNCHANGED <<grants, assigned, today, revoked>>

(* Assignments. *)
Attach(r) ==
  /\ assigned' = assigned \cup {<<req[r].op.whom, req[r].op.system>>}
  /\ End(r, "ok") /\ UNCHANGED <<users, grants, today, revoked, adrift>>
Detach(r, ifMissing) ==
  LET pair == <<req[r].op.whom, req[r].op.system>> IN
  IF pair \in assigned
  THEN /\ assigned' = assigned \ {pair}
       /\ End(r, "ok") /\ UNCHANGED <<users, grants, today, revoked, adrift>>
  ELSE Answer(r, ifMissing)

Assign(r) == At(r, "assign") /\ Attach(r)
Unassign(r) == At(r, "unassign") /\ Detach(r, "missing")

(* POST /fismasystems/{id}/delegates: an account that existed is attached; *)
(* a new one is created, granted and assigned in one transaction, which    *)
(* the e-mail's unique index refuses if the account exists by now.         *)
\* Variant: an account that has appeared meanwhile is made the delegate.
AddSystemDelegateUpsert(r) ==
  LET op == req[r].op
      pair == <<op.whom, OpDivOf[op.system]>> IN
  /\ At(r, "delegate")
  /\ IF req[r].known THEN Attach(r) ELSE
       /\ Put(op.whom, [role |-> "SYSTEM_DELEGATE", deleted |-> FALSE,
                        idp |-> ProviderOf({pair}, op.whom), expires |-> op.date])
       /\ grants' = grants \cup {pair} /\ assigned' = assigned \cup {<<op.whom, op.system>>}
       /\ End(r, "ok") /\ UNCHANGED <<today, revoked, adrift>>
AddSystemDelegate(r) ==
  LET op == req[r].op
      pair == <<op.whom, OpDivOf[op.system]>> IN
  /\ At(r, "delegate")
  /\ IF req[r].known THEN Attach(r)
     ELSE IF op.whom \in DOMAIN users THEN Answer(r, "refused") ELSE
       /\ Put(op.whom, [role |-> "SYSTEM_DELEGATE", deleted |-> FALSE,
                        idp |-> ProviderOf({pair}, op.whom), expires |-> op.date])
       /\ grants' = grants \cup {pair} /\ assigned' = assigned \cup {<<op.whom, op.system>>}
       /\ End(r, "ok") /\ UNCHANGED <<today, revoked, adrift>>

(* Another removal may have come first: that is not an error here. *)
RemoveSystemDelegate(r) == At(r, "undelegate") /\ Detach(r, "ok")

\* Variant: the row is taken to be what the guard saw.
RenewAsGuarded(r) ==
  LET op == req[r].op IN
  /\ At(r, "renew")
  /\ IF Expiry(op.date) < today THEN Answer(r, "refused")
     ELSE Change(r, [users[op.whom] EXCEPT !.expires = Expiry(op.date)])
RenewSystemDelegate(r) ==
  LET op == req[r].op
      row == users[op.whom] IN
  /\ At(r, "renew")
  /\ IF Expiry(op.date) < today THEN Answer(r, "refused")
     ELSE IF ~IsSystemDelegate(row) \/ row.deleted THEN Answer(r, "missing")
     ELSE Change(r, [row EXCEPT !.expires = Expiry(op.date)])

(* The statement fails; a derivation that fails leaves its grant behind. *)
Fail(r) ==
  /\ req[r].pc \in Faults
  /\ End(r, "failed")
  /\ adrift' = IF At(r, "derive") THEN adrift \cup {req[r].op.whom} ELSE adrift
  /\ UNCHANGED <<database, today, revoked>>

Tick ==
  /\ today < Horizon /\ today' = today + 1
  /\ UNCHANGED <<database, req, revoked, adrift>>

Write(r) ==
  \/ Create(r) \/ Update(r) \/ Delete(r) \/ Restore(r)
  \/ Grant(r) \/ Revoke(r) \/ Diff(r) \/ SetUserOpDivs(r) \/ Derive(r)
  \/ Assign(r) \/ Unassign(r)
  \/ AddSystemDelegate(r) \/ RemoveSystemDelegate(r) \/ RenewSystemDelegate(r)

Next ==
  \/ Tick
  \/ \E r \in Request : Authenticate(r) \/ Guard(r) \/ Write(r) \/ Fail(r)
Spec == Init /\ [][Next]_vars

-----------------------------------------------------------------------------
(* Properties. *)

(* Types of the tables and of a request.  The rows are those the CHECK and *)
(* NOT NULL constraints of `users` admit.                                  *)
Snapshot == [who : Person, role : Role, deleted : {FALSE}, expires : Date \cup {Never},
             opdivs : SUBSET OpDiv, systems : SUBSET System]
Requested ==
  [pc : Kinds \cup {"guard", "diff", "derive"}, op : Operation, me : Snapshot, known : BOOLEAN,
   add : SUBSET OpDiv, remove : SUBSET OpDiv]
AccessTypeOK ==
  /\ DOMAIN users \subseteq Person /\ \A p \in DOMAIN users : users[p] \in Row
  /\ grants \subseteq (DOMAIN users) \X OpDiv /\ assigned \subseteq (DOMAIN users) \X System
  /\ today \in 1 .. Horizon
  /\ revoked \subseteq (DOMAIN users) \X OpDiv /\ adrift \subseteq DOMAIN users
  /\ DOMAIN req = Request
  /\ \A r \in Request : \/ req[r] = Idle
                        \/ \E k \in Kinds, o \in Outcomes : req[r] = Ended(o, k)
                        \/ req[r] \in Requested

(* Exactly the System Delegates have an expiry (#467), whatever admin      *)
(* edits, re-roles and renewals overlap: a delegate without one would      *)
(* never lapse, and one left on a regular user would come back with the    *)
(* next re-role.                                                           *)
DelegatesExpire == \A p \in DOMAIN users : IsSystemDelegate(users[p]) <=> users[p].expires # Never

(* A user holds a system outside his divisions only if the grant was taken *)
(* away (#449): no order of grants, assignments and self-service additions *)
(* produces one by itself.                                                 *)
StrayAssignmentNeedsARevocation ==
  \A p \in DOMAIN users, s \in System :
    <<p, s>> \in assigned => <<p, OpDivOf[s]>> \in grants \cup revoked

(* Once the derivations are through, the provider a user signs in with     *)
(* follows from the grants, in whichever order overlapping grants and      *)
(* revocations and their derivations were executed.                        *)
ProviderFollowsGrants ==
  \A p \in DOMAIN users \ adrift :
    (\A r \in Request : At(r, "derive") => req[r].op.whom # p) => users[p].idp = ProviderOf(grants, p)

(* The pickers agree with the guards of the writes they serve: the         *)
(* delegates offered for a system are those self-service would attach, and *)
(* the systems an admin is offered for a user whom he manages are those he *)
(* may assign, save the decommissioned ones, which the list leaves out and *)
(* the guard lets through (ListAssignableFismaSystems).                    *)
PickersMatchTheGuards ==
  /\ \A s \in System :
       Candidates(s) = {p \in DOMAIN users : Attachable(Account(p), s) /\ <<p, s>> \notin assigned}
  /\ \A a, p \in DOMAIN users : CanManageUser(Account(a), Account(p)) =>
       AssignableSystems(Account(a), Account(p)) =
         {s \in System \ OutOfUse : MayAssign(Account(a), s, Account(p))}

Rank(role) ==
  IF role = "OWNER" THEN 3 ELSE IF role = "HHS_ADMIN" THEN 2 ELSE IF role = "OPDIV_ADMIN" THEN 1 ELSE 0
Acting(r) == req[r].pc \notin {"idle"} \cup Outcomes
InCirculation ==
  {users[p].role : p \in DOMAIN users} \cup {req[r].me.role : r \in {q \in Request : Acting(q)}}

(* The highest tier held by an account or by a request under way does not  *)
(* rise.                                                                   *)
TiersDoNotRise == \A new \in InCirculation' : \E old \in InCirculation : Rank(new) <= Rank(old)

(* Whoever is no admin changes no account that exists, but a delegate's    *)
(* date, and grants it no division; and no account he makes is anything    *)
(* but a delegate.                                                         *)
Moves(r) == req'[r] # req[r]
SelfServiceLeavesOthersAlone ==
  \A r \in Request : (Moves(r) /\ ~At(r, "idle") /\ ~IsAdmin(req[r].me)) =>
    /\ \A p \in DOMAIN users :
         /\ [users'[p] EXCEPT !.expires = 0] = [users[p] EXCEPT !.expires = 0]
         /\ \A o \in OpDiv : <<p, o>> \in grants' <=> <<p, o>> \in grants
    /\ \A p \in DOMAIN users' \ DOMAIN users : IsSystemDelegate(users'[p])

(* Authority is handed on, never made, whoever acts, on however stale a    *)
(* snapshot, in whatever order: by an admin up to his own tier, by         *)
(* self-service nothing but a delegate's access (SaveUser, Save,           *)
(* AddSystemDelegate, SetDelegateExpiry).                                  *)
AuthorityIsHandedOn == [][TiersDoNotRise /\ SelfServiceLeavesOthersAlone]_vars
=============================================================================
