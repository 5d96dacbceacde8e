-------------------------- MODULE MCAdministration --------------------------
(* Instances of AccessControl, SystemLifecycle and MassEmail for TLC: one  *)
(* organisation, whose accounts, systems or messages are administered.     *)
EXTENDS AccessControl, SystemLifecycle, MassEmail, TLC

CONSTANTS
  owner, admin, far, isso, delegate, auditor, other, \* people
  cms, opdiv, sysC, sysO, c1,                        \* divisions, systems, a data call
  r1, r2,                                            \* requests
  text, jane, Jane, joe, nonsense                    \* contents of columns

VARIABLE door \* which of the three a behaviour enters by
mcVars == <<door, vars, systemVars, mailVars>>

Symmetric == Permutations({r1, r2})

-----------------------------------------------------------------------------
(* Accounts. *)

People == {admin, isso, delegate, other}
Divisions == {cms, opdiv}
DivisionOf == (sysC :> cms) @@ (sysO :> opdiv)

User(role) ==
  [role |-> role, deleted |-> FALSE, idp |-> "okta",
   expires |-> IF role = "SYSTEM_DELEGATE" THEN 1 ELSE Never]

(* An administrator, an ISSO of CMS whom he may or may not manage, and a   *)
(* delegate of both divisions; `other` has no account yet.                 *)
Population(adminRole) ==
  [users |-> (admin :> User(adminRole)) @@ (isso :> User("ISSO")) @@ (delegate :> User("SYSTEM_DELEGATE")),
   grants |-> {<<admin, cms>>, <<isso, cms>>, <<delegate, cms>>, <<delegate, opdiv>>},
   assigned |-> {<<isso, sysC>>, <<delegate, sysC>>}]
MCPopulations == {Population("HHS_ADMIN"), Population("OPDIV_ADMIN")}

-----------------------------------------------------------------------------
(* Systems. *)

Everyone == {owner, admin, far, isso, delegate, auditor}
MCGranted == {<<admin, cms>>, <<far, opdiv>>}
MCAssigned == {<<isso, sysC>>, <<delegate, sysC>>}

Stored(cloud, vendor, off) ==
  [opdiv |-> cms, cloud |-> cloud, vendor |-> vendor, owner |-> text, target |-> Null,
   off |-> off, offBy |-> IF off THEN owner ELSE Null, offDate |-> 0, offNotes |-> Null,
   onBy |-> Null, onNotes |-> Null]
Unknown == (sysC :> Stored(Null, Null, FALSE)) @@ (sysO :> NoRow)
MCSeeds == {(sysC :> Stored("yes", text, off)) @@ (sysO :> NoRow) : off \in BOOLEAN} \cup {Unknown}

Body(cloud, vendor, o, div) == [cloud |-> cloud, vendor |-> vendor, owner |-> o, opdiv |-> div]
(* A full form, one without what it does not change, one that clears, and  *)
(* one that Save refuses.                                                  *)
MCForms == {Body("yes", text, text, cms), Body("no", Absent, Absent, Null),
            Body(Null, Blank, Blank, cms), Body("no", text, Absent, cms)}

-----------------------------------------------------------------------------
(* Messages. *)

MCAddressOf == [s \in {jane, Jane, joe, nonsense} |-> IF s = Jane THEN jane ELSE s]

(* Jane is in the group by her role and, spelled otherwise, as a system's  *)
(* contact; then Joe has taken over.                                       *)
Listing(member, contacts, delegates) ==
  [c \in Columns |-> CASE c = "isso" -> {member} [] c = "issoemail" -> contacts
                       [] c = "delegate" -> delegates [] c = "admins" -> {joe}
                       [] c = "issm" -> {} [] c = "datacallcontact" -> {NoContact, nonsense}]
Before == Listing(jane, {Jane, NoContact}, {joe})
MCDirectories == {Before, Listing(joe, {Jane}, {})}

-----------------------------------------------------------------------------
MCInit ==
  /\ Init /\ SystemsInit /\ MailInit
  /\ door \in {"accounts", "systems", "messages"}
  /\ door # "accounts" => users = Population("HHS_ADMIN").users
  /\ door # "systems" => rows = Unknown
  /\ door # "messages" => directory = Before

MCNext ==
  \/ door = "accounts" /\ Next /\ UNCHANGED <<door, systemVars, mailVars>>
  \/ door = "systems" /\ SystemsNext /\ UNCHANGED <<door, vars, mailVars>>
  \/ door = "messages" /\ MailNext /\ UNCHANGED <<door, vars, systemVars>>
MCSpec == MCInit /\ [][MCNext]_mcVars

(* The columns of the three modules keep their types. *)
TypeOK == AccessTypeOK /\ SystemsTypeOK /\ MailTypeOK
=============================================================================
