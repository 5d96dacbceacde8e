------------------------ MODULE AdministrationProofs ------------------------
(***************************************************************************)
(* Theorems of MassEmail, of SystemLifecycle and of AccessControl, for     *)
(* every set of requests, people, systems, groups and contents of the      *)
(* tables, and of the three together as MCAdministration composes them.    *)
(***************************************************************************)
EXTENDS MCAdministration, TLAPS

-----------------------------------------------------------------------------
(* Mass e-mail.  Until it mails somebody, a request has mailed nobody; what  *)
(* is left to mail has been listed for its own group, one spelling of each   *)
(* address, and none of them has been mailed yet.                            *)

Unmailed == {"idle", "forbidden", "invalid", "saving", "too long", "listing"}

ToMail(r) ==
  /\ send[r].pc \in {"saving", "listing"} => send[r].group \in Groups
  /\ send[r].pc \in Unmailed => send[r].todo = {} /\ \A a \in Addresses : mailed[r][a] = 0
  /\ \A s \in send[r].todo : AddressOf[s] \in addressed[r] /\ mailed[r][AddressOf[s]] = 0
  /\ \A s, t \in send[r].todo : AddressOf[s] = AddressOf[t] => s = t

MailInv == MailTypeOK /\ MailReachesItsGroupOnce /\ \A r \in Sends : ToMail(r)

LEMMA MailInvInit == MailInit => MailInv
  BY DirectoriesAssumption
     DEF MailInit, MailInv, MailTypeOK, MailReachesItsGroupOnce, ToMail, Unsent, Send, Unmailed

(* A step of one request leaves the others as they are. *)
LEMMA OtherMails ==
  ASSUME MailInv, NEW r \in Sends, NEW new \in Send, send' = [send EXCEPT ![r] = new],
         \A q \in Sends \ {r} : mailed'[q] = mailed[q] /\ addressed'[q] = addressed[q]
  PROVE  /\ send' \in [Sends -> Send] /\ send'[r] = new
         /\ \A q \in Sends \ {r} : ToMail(q)'
  <1>1. send' \in [Sends -> Send] /\ send'[r] = new
    BY DEF MailInv, MailTypeOK
  <1>2. ASSUME NEW q \in Sends \ {r} PROVE ToMail(q)'
    <2>1. send'[q] = send[q] /\ mailed'[q] = mailed[q] /\ addressed'[q] = addressed[q]
      BY DEF MailInv, MailTypeOK
    <2>. QED
      BY <2>1 DEF MailInv, ToMail
  <1>. QED
    BY <1>1, <1>2

(* A request moves on, with what is left to mail or without it. *)
LEMMA MailMoves ==
  ASSUME MailInv, NEW r \in Sends, NEW new \in Send, send' = [send EXCEPT ![r] = new],
         UNCHANGED <<directory, addressed, mailed>>, massemails' \in Groups \cup {NoGroup},
         new.todo \subseteq send[r].todo,
         new.pc \in Unmailed => send[r].pc \in Unmailed /\ new.todo = {},
         new.pc \in {"saving", "listing"} => new.group \in Groups
  PROVE  MailInv'
  <1>1. /\ send' \in [Sends -> Send] /\ send'[r] = new
        /\ \A q \in Sends \ {r} : ToMail(q)'
    BY OtherMails
  <1>2. ToMail(r)'
    BY <1>1 DEF MailInv, ToMail
  <1>3. MailTypeOK' /\ MailReachesItsGroupOnce'
    BY <1>1 DEF MailInv, MailTypeOK, MailReachesItsGroupOnce
  <1>. QED
    BY <1>1, <1>2, <1>3 DEF MailInv

(* The recipients of a group are spellings, one of each of its addresses. *)
LEMMA RecipientsOfTheGroup ==
  ASSUME MailInv, NEW group \in Groups, NEW recipients \in Deduped(Listed(group))
  PROVE  /\ recipients \subseteq Spellings
         /\ \A s \in recipients : AddressOf[s] \in {AddressOf[t] : t \in Listed(group)}
         /\ \A s, t \in recipients : AddressOf[s] = AddressOf[t] => s = t
  <1>1. Sources[group] \subseteq Columns
    BY DEF Groups, Sources, Columns
  <1>2. directory \in [Columns -> SUBSET (Spellings \cup {NoContact})]
    BY DirectoriesAssumption DEF MailInv, MailTypeOK
  <1>3. Listed(group) \subseteq Spellings
    BY <1>1, <1>2 DEF Listed
  <1>. QED
    BY <1>3 DEF Deduped

LEMMA ListStep == ASSUME MailInv, NEW r \in Sends, ListRecipients(r) PROVE MailInv'
  <1>. DEFINE group == send[r].group
  <1>1. group \in Groups /\ send[r].pc = "listing" /\ send[r] \in Send
    BY DEF ListRecipients, IsAt, MailInv, MailTypeOK, ToMail
  <1>2. PICK recipients \in Deduped(Listed(group)) :
          send' = [send EXCEPT ![r].pc = IF recipients = {} THEN "nobody" ELSE "dialing",
                               ![r].todo = recipients]
    BY DEF ListRecipients, GroupOf
  <1>. DEFINE listed == {AddressOf[s] : s \in Listed(group)}
  <1>3. /\ recipients \subseteq Spellings
        /\ \A s \in recipients : AddressOf[s] \in listed
        /\ \A s, t \in recipients : AddressOf[s] = AddressOf[t] => s = t
    BY <1>1, RecipientsOfTheGroup
  <1>4. addressed' = [addressed EXCEPT ![r] = listed] /\ UNCHANGED <<directory, massemails, mailed>>
    BY DEF ListRecipients
  <1>. DEFINE new == [send[r] EXCEPT !.pc = IF recipients = {} THEN "nobody" ELSE "dialing",
                                     !.todo = recipients]
  <1>5. new \in Send /\ new.todo = recipients /\ new.pc \notin Unmailed
    BY <1>1, <1>3 DEF Send, Unmailed
  <1>6. send' = [send EXCEPT ![r] = new]
    BY <1>2 DEF MailInv, MailTypeOK
  <1>. HIDE DEF new, listed
  <1>7. addressed \in [Sends -> SUBSET Addresses]
    BY DEF MailInv, MailTypeOK
  <1>8. listed \subseteq Addresses
    <2>1. Listed(group) \subseteq Spellings
      <3>1. Sources[group] \subseteq Columns
        BY <1>1 DEF Groups, Sources, Columns
      <3>2. directory \in [Columns -> SUBSET (Spellings \cup {NoContact})]
        BY DirectoriesAssumption DEF MailInv, MailTypeOK
      <3>. QED
        BY <3>1, <3>2 DEF Listed
    <2>. QED
      BY <2>1, DirectoriesAssumption DEF listed
  <1>9. /\ send' \in [Sends -> Send] /\ send'[r] = new
        /\ \A q \in Sends \ {r} : ToMail(q)'
    <2>1. \A q \in Sends \ {r} : mailed'[q] = mailed[q] /\ addressed'[q] = addressed[q]
      BY <1>4, <1>7
    <2>. QED
      BY <1>5, <1>6, <2>1, OtherMails
  <1>10. \A a \in Addresses : mailed'[r][a] = 0
    BY <1>1, <1>4 DEF MailInv, ToMail, Unmailed
  <1>11. addressed'[r] = listed
    BY <1>4, <1>7
  <1>12. ToMail(r)'
    <2>1. \A s \in recipients : AddressOf[s] \in Addresses
      BY <1>3, <1>8
    <2>. QED
      BY <2>1, <1>3, <1>5, <1>9, <1>10, <1>11 DEF ToMail, Unmailed
  <1>13. MailReachesItsGroupOnce'
    BY <1>4, <1>7, <1>10 DEF MailInv, MailReachesItsGroupOnce
  <1>14. MailTypeOK'
    BY <1>4, <1>7, <1>8, <1>9 DEF MailInv, MailTypeOK
  <1>. QED
    BY <1>9, <1>12, <1>13, <1>14 DEF MailInv

LEMMA MailOne ==
  ASSUME MailInv, NEW r \in Sends, NEW s \in Spellings, Mail(r, s) PROVE MailInv'
  <1>. DEFINE new == [send[r] EXCEPT !.todo = @ \ {s}]
              a == AddressOf[s]
  <1>1. /\ send[r] \in Send /\ send[r].pc = "mailing" /\ s \in send[r].todo
        /\ UNCHANGED <<directory, massemails, addressed>> /\ a \in Addresses
    BY DirectoriesAssumption DEF Mail, IsAt, MailInv, MailTypeOK
  <1>2. send' = [send EXCEPT ![r] = new]
    BY DEF Mail, MailInv, MailTypeOK
  <1>3. new \in Send /\ new.pc = "mailing" /\ new.todo = send[r].todo \ {s}
    BY <1>1 DEF Send
  <1>. HIDE DEF new
  <1>4. CASE UNCHANGED mailed
    BY <1>1, <1>2, <1>3, <1>4, MailMoves DEF Unmailed, MailInv, MailTypeOK
  <1>5. CASE mailed' = [mailed EXCEPT ![r][a] = @ + 1]
    <2>1. mailed \in [Sends -> [Addresses -> Nat]] /\ mailed[r][a] = 0 /\ a \in addressed[r]
      BY <1>1 DEF MailInv, MailTypeOK, ToMail
    <2>2. /\ mailed' \in [Sends -> [Addresses -> Nat]] /\ mailed'[r][a] = 1
          /\ \A b \in Addresses \ {a} : mailed'[r][b] = mailed[r][b]
          /\ \A q \in Sends \ {r} : mailed'[q] = mailed[q]
      BY <1>1, <1>5, <2>1
    <2>3. /\ send' \in [Sends -> Send] /\ send'[r] = new
          /\ \A q \in Sends \ {r} : ToMail(q)'
      BY <1>1, <1>2, <1>3, <2>2, OtherMails
    <2>4. ToMail(r)'
      <3>1. ASSUME NEW t \in new.todo
            PROVE AddressOf[t] \in addressed'[r] /\ mailed'[r][AddressOf[t]] = 0
        <4>1. t \in send[r].todo /\ t # s /\ t \in Spellings
          BY <1>1, <1>3, <3>1 DEF Send
        <4>2. AddressOf[t] \in Addresses \ {a}
          BY <1>1, <4>1, DirectoriesAssumption DEF MailInv, ToMail
        <4>. QED
          BY <1>1, <2>2, <4>1, <4>2 DEF MailInv, ToMail
      <3>2. new.pc \notin Unmailed /\ new.pc \notin {"saving", "listing"}
        BY <1>3 DEF Unmailed
      <3>3. \A t, u \in new.todo : AddressOf[t] = AddressOf[u] => t = u
        BY <1>3 DEF MailInv, ToMail
      <3>. QED
        BY <2>3, <3>1, <3>2, <3>3 DEF ToMail
    <2>5. MailReachesItsGroupOnce'
      BY <1>1, <2>1, <2>2 DEF MailInv, MailReachesItsGroupOnce
    <2>6. MailTypeOK'
      BY <1>1, <2>2, <2>3 DEF MailInv, MailTypeOK
    <2>. QED
      BY <2>3, <2>4, <2>5, <2>6 DEF MailInv
  <1>. QED
    BY <1>4, <1>5 DEF Mail

LEMMA MailControl ==
  ASSUME MailInv, NEW r \in Sends,
         \/ \E mayMail, valid \in BOOLEAN, g \in AskedGroups : Submit(r, mayMail, valid, g)
         \/ SaveRow(r) \/ FailSend(r) \/ Dial(r) \/ Quit(r)
  PROVE  MailInv'
  <1>. USE DEF Unmailed
  <1>1. send[r] \in Send /\ send \in [Sends -> Send] /\ massemails \in Groups \cup {NoGroup}
    BY DEF MailInv, MailTypeOK
  <1>2. ASSUME NEW mayMail \in BOOLEAN, NEW valid \in BOOLEAN, NEW g \in AskedGroups,
               Submit(r, mayMail, valid, g)
        PROVE MailInv'
    <2>. DEFINE new == [pc |-> IF ~mayMail THEN "forbidden"
                               ELSE IF g \in Groups /\ valid THEN "saving" ELSE "invalid",
                        group |-> g, todo |-> {}]
    <2>1. new \in Send /\ send' = [send EXCEPT ![r] = new] /\ send[r].pc = "idle"
      BY <1>2 DEF Submit, Send, Unsent
    <2>2. UNCHANGED <<directory, massemails, addressed, mailed>>
      BY <1>2 DEF Submit
    <2>3. new.todo = {} /\ (new.pc \in {"saving", "listing"} => new.group \in Groups)
      OBVIOUS
    <2>. HIDE DEF new
    <2>. QED
      BY <1>1, <2>1, <2>2, <2>3, MailMoves
  <1>3. CASE SaveRow(r)
    <2>. DEFINE new == [send[r] EXCEPT
                  !.pc = IF Len(send[r].group) <= Width THEN "listing" ELSE "too long"]
    <2>1. /\ send[r].group \in Groups /\ send[r].pc = "saving" /\ send[r].todo = {}
          /\ UNCHANGED <<directory, addressed, mailed>>
      BY <1>3 DEF SaveRow, IsAt, MailInv, ToMail
    <2>2. new \in Send /\ new.todo = {} /\ new.group \in Groups
      BY <1>1, <2>1 DEF Send
    <2>3. send' = [send EXCEPT ![r] = new] /\ massemails' \in Groups \cup {NoGroup}
      BY <1>1, <1>3, <2>1 DEF SaveRow, MoveTo
    <2>. HIDE DEF new
    <2>. QED
      BY <1>1, <2>1, <2>2, <2>3, MailMoves
  <1>4. CASE FailSend(r)
    <2>. DEFINE new == [send[r] EXCEPT !.pc = "failed"]
    <2>1. /\ new \in Send /\ send' = [send EXCEPT ![r] = new]
          /\ new.todo = send[r].todo /\ new.pc = "failed"
          /\ UNCHANGED <<directory, massemails, addressed, mailed>>
      BY <1>1, <1>4 DEF FailSend, MoveTo, Send
    <2>. HIDE DEF new
    <2>. QED
      BY <1>1, <2>1, MailMoves
  <1>5. CASE Dial(r)
    <2>. DEFINE dialed == [send[r] EXCEPT !.pc = "mailing"]
                refused == [send[r] EXCEPT !.pc = "unsent", !.todo = {}]
    <2>1. /\ dialed \in Send /\ dialed.pc = "mailing" /\ dialed.todo = send[r].todo
          /\ refused \in Send /\ refused.pc = "unsent" /\ refused.todo = {}
      BY <1>1 DEF Send
    <2>2. send' = [send EXCEPT ![r] = dialed] \/ send' = [send EXCEPT ![r] = refused]
      BY <1>1, <1>5 DEF Dial, MoveTo
    <2>3. UNCHANGED <<directory, massemails, addressed, mailed>>
      BY <1>5 DEF Dial
    <2>. HIDE DEF dialed, refused
    <2>. QED
      BY <1>1, <2>1, <2>2, <2>3, MailMoves
  <1>6. CASE Quit(r)
    <2>. DEFINE new == [send[r] EXCEPT !.pc = "done"]
    <2>1. /\ new \in Send /\ send' = [send EXCEPT ![r] = new]
          /\ new.todo = send[r].todo /\ new.pc = "done"
          /\ UNCHANGED <<directory, massemails, addressed, mailed>>
      BY <1>1, <1>6 DEF Quit, MoveTo, Send
    <2>. HIDE DEF new
    <2>. QED
      BY <1>1, <2>1, MailMoves
  <1>. QED
    BY <1>2, <1>3, <1>4, <1>5, <1>6

LEMMA MailInvStep == MailInv /\ [MailNext]_mailVars => MailInv'
  <1>. SUFFICES ASSUME MailInv, [MailNext]_mailVars PROVE MailInv'
    OBVIOUS
  <1>1. CASE Reassign
    BY <1>1 DEF Reassign, MailInv, MailTypeOK, MailReachesItsGroupOnce, ToMail
  <1>2. CASE ReplaceTask
    <2>1. \A r \in Sends :
            \/ send'[r] = send[r]
            \/ send'[r] = [send[r] EXCEPT !.pc = "lost", !.todo = {}]
      BY <1>2 DEF ReplaceTask
    <2>2. UNCHANGED <<directory, massemails, addressed, mailed>>
      BY <1>2 DEF ReplaceTask
    <2>. DEFINE lost(r) == [send[r] EXCEPT !.pc = "lost", !.todo = {}]
                kept(r) == IF send[r].pc \in {"saving", "listing", "dialing", "mailing"}
                           THEN lost(r) ELSE send[r]
    <2>3. send' \in [Sends -> Send]
      <3>1. \A r \in Sends : send[r] \in Send
        BY DEF MailInv, MailTypeOK
      <3>2. \A r \in Sends : lost(r) \in Send
        BY <3>1 DEF Send
      <3>3. \A r \in Sends : kept(r) \in Send
        BY <3>1, <3>2
      <3>4. send' = [r \in Sends |-> kept(r)]
        BY <1>2 DEF ReplaceTask
      <3>. HIDE DEF kept
      <3>. QED
        BY <3>3, <3>4
    <2>4. ASSUME NEW r \in Sends PROVE ToMail(r)'
      <3>1. CASE send'[r] = send[r]
        BY <2>2, <3>1 DEF MailInv, ToMail
      <3>2. CASE send'[r] = [send[r] EXCEPT !.pc = "lost", !.todo = {}]
        <4>1. send[r] \in Send
          BY DEF MailInv, MailTypeOK
        <4>2. send'[r].pc = "lost" /\ send'[r].todo = {}
          BY <3>2, <4>1 DEF Send
        <4>. QED
          BY <4>2 DEF ToMail, Unmailed
      <3>. QED
        BY <2>1, <3>1, <3>2
    <2>. QED
      BY <2>2, <2>3, <2>4 DEF MailInv, MailTypeOK, MailReachesItsGroupOnce
  <1>3. CASE UNCHANGED mailVars
    BY <1>3 DEF mailVars, MailInv, MailTypeOK, MailReachesItsGroupOnce, ToMail
  <1>. QED
    BY <1>1, <1>2, <1>3, ListStep, MailOne, MailControl DEF MailNext

(* A message reaches only the group that its request named, and everybody in *)
(* it at most once, whatever other requests make of the row.                 *)
THEOREM MailReachesGroups == MailSpec => []MailReachesItsGroupOnce
  <1>1. MailInv => MailReachesItsGroupOnce
    BY DEF MailInv
  <1>. QED
    BY <1>1, MailInvInit, MailInvStep, PTL DEF MailSpec

(* The row and the requests hold what the columns and the handler allow. *)
THEOREM MailTypesHold == MailSpec => []MailTypeOK
  <1>1. MailInv => MailTypeOK
    BY DEF MailInv
  <1>. QED
    BY <1>1, MailInvInit, MailInvStep, PTL DEF MailSpec

-----------------------------------------------------------------------------
(* Systems.  What a request that is under way relies on, each by itself:     *)
(* the system it is about, the shape of its body, that a scoped admin's new  *)
(* system has no attributes and his edit writes those of the system, and     *)
(* that whoever has the lock still finds the system decommissioned.          *)

UnderWay(r) == job[r].pc \in {"guard", "write", "commit"}

AboutASystem(r) ==
  UnderWay(r) =>
    \/ job[r].op = "create" /\ job[r].pc = "write"
    \/ /\ job[r].op # "create" /\ job[r].at \in Systems
       /\ job[r].pc # "guard" /\ job[r].op # "save" => job[r].at \in Existing

BringsItsBody(r) ==
  UnderWay(r) =>
    /\ job[r].op \in {"create", "save"} => job[r].body \in Form
    /\ job[r].op = "decommission" => job[r].body \in [date : Dates \cup {Now}, notes : Notes]
    /\ job[r].op = "reactivate" => job[r].body \in [notes : Notes]
    /\ job[r].op = "target" => job[r].body \in [target : Texts \cup {Absent}]
    /\ job[r].op = "complete" => job[r].body \in [cycle : Cycles]
    /\ job[r].me \in Users

KeepsAttributes(r) ==
  job[r].pc = "write" /\ job[r].me \notin Unscoped =>
    /\ job[r].op = "create" => job[r].body.cloud = Absent /\ job[r].body.vendor = Absent
    /\ job[r].op = "save" =>
         /\ job[r].body.cloud = Absent \/ <<job[r].at, "cloud", job[r].body.cloud>> \in supplied
         /\ \/ job[r].body.vendor = Absent
            \/ job[r].body.vendor # Blank /\ <<job[r].at, "vendor", job[r].body.vendor>> \in supplied

HasTheLock(r) ==
  job[r].pc = "commit" =>
    job[r].op = "reactivate" /\ lock[job[r].at] = r /\ rows[job[r].at].off

Sound(r) == AboutASystem(r) /\ BringsItsBody(r) /\ KeepsAttributes(r) /\ HasTheLock(r)

SystemsInv ==
  /\ SystemsTypeOK /\ AttributesComeFromUnscopedAdmins
  /\ \A pair \in Assigned : pair[2] \in Existing
  /\ \A r \in Requests : Sound(r)

LEMMA SystemsInvInit == SystemsInit => SystemsInv
  <1>. SUFFICES ASSUME SystemsInit PROVE SystemsInv
    OBVIOUS
  <1>. USE SystemsAssumption
  <1>1. rows \in [Systems -> SystemRow \cup {NoRow}] /\ rows \in Seeds
    BY DEF SystemsInit
  <1>2. job \in [Requests -> Job] /\ \A r \in Requests : job[r] = Unused
    BY DEF SystemsInit, Job, Unused
  <1>3. \A s \in Existing : /\ rows[s].cloud \in Bool \cup {Null} /\ rows[s].vendor \in Texts \cup {Null}
    BY <1>1 DEF Existing, SystemRow
  <1>4. supplied \subseteq Systems \X {"cloud", "vendor"} \X (Bool \cup Texts \cup {Null})
    BY <1>3 DEF SystemsInit, Attributes, Existing
  <1>5. SystemsTypeOK
    BY <1>1, <1>2, <1>4 DEF SystemsInit, SystemsTypeOK, Unused
  <1>6. AttributesComeFromUnscopedAdmins
    BY DEF SystemsInit, AttributesComeFromUnscopedAdmins
  <1>7. \A r \in Requests : Sound(r)
    BY <1>2 DEF Sound, UnderWay, AboutASystem, BringsItsBody, KeepsAttributes, HasTheLock, Unused
  <1>8. \A pair \in Assigned : pair[2] \in Existing
    BY <1>1 DEF Existing
  <1>. QED
    BY <1>5, <1>6, <1>7, <1>8 DEF SystemsInv

(* The fields of a request and of a row. *)
LEMMA JobFields ==
  ASSUME SystemsTypeOK, NEW r \in Requests
  PROVE  /\ job[r] \in Job /\ DOMAIN job = Requests
         /\ job[r].me \in Users \cup {Null} /\ job[r].at \in Systems \cup {Null}
  BY DEF SystemsTypeOK, Job

(* Rows only appear, and a locked one changes only by whoever locked it: so   *)
(* a step of one request disturbs no other.                                   *)
LEMMA OthersStaySound ==
  ASSUME SystemsInv, NEW r \in Requests, NEW new, job' = [job EXCEPT ![r] = new],
         supplied \subseteq supplied', Existing \subseteq Existing',
         \A s \in Existing : lock[s] \notin {Null, r} => lock'[s] = lock[s] /\ rows'[s] = rows[s]
  PROVE  \A q \in Requests \ {r} : Sound(q)'
  <1>. SUFFICES ASSUME NEW q \in Requests \ {r} PROVE Sound(q)'
    OBVIOUS
  <1>1. job'[q] = job[q]
    BY DEF SystemsInv, SystemsTypeOK
  <1>2. Sound(q)
    BY DEF SystemsInv
  <1>3. AboutASystem(q)' /\ BringsItsBody(q)' /\ KeepsAttributes(q)'
    BY <1>1, <1>2 DEF Sound, AboutASystem, BringsItsBody, KeepsAttributes, UnderWay
  <1>4. HasTheLock(q)'
    <2>. SUFFICES ASSUME job[q].pc = "commit"
                  PROVE job'[q].op = "reactivate" /\ lock'[job'[q].at] = q /\ rows'[job'[q].at].off
      BY <1>1 DEF HasTheLock
    <2>1. job[q].at \in Existing /\ lock[job[q].at] = q /\ rows[job[q].at].off
      BY <1>2 DEF Sound, HasTheLock, AboutASystem, UnderWay
    <2>2. q \notin {Null, r}
      BY SystemsAssumption
    <2>. QED
      BY <1>1, <1>2, <2>1, <2>2 DEF Sound, HasTheLock
  <1>. QED
    BY <1>3, <1>4 DEF Sound

(* A step that changes no table: a request moves on, or is answered. *)
LEMMA NoTableChanges ==
  ASSUME SystemsInv, NEW r \in Requests, NEW new \in Job, job' = [job EXCEPT ![r] = new],
         UNCHANGED <<now, rows, complete, lock, supplied>>,
         new.op \in {"create", "save"} => new.body \in Form, Sound(r)'
  PROVE  SystemsInv'
  <1>1. \A q \in Requests \ {r} : Sound(q)'
    BY OthersStaySound DEF Existing
  <1>2. SystemsTypeOK'
    BY DEF SystemsInv, SystemsTypeOK
  <1>3. AttributesComeFromUnscopedAdmins' /\ \A pair \in Assigned : (pair[2] \in Existing)'
    BY DEF SystemsInv, AttributesComeFromUnscopedAdmins, Existing
  <1>. QED
    BY <1>1, <1>2, <1>3 DEF SystemsInv

Answers == {"ok", "invalid", "forbidden", "not found", "failed"}

LEMMA ClosedIsSound ==
  ASSUME SystemsInv, NEW r \in Requests, NEW answer \in Answers, Close(r, answer)
  PROVE  /\ \E new \in Job : job' = [job EXCEPT ![r] = new] /\ new.op = "none"
         /\ job' \in [Requests -> Job]
         /\ \A q \in Requests : job'[q].op \in {"create", "save"} => job'[q].body \in Form
         /\ job'[r].pc = answer /\ Sound(r)'
  <1>. DEFINE new == [Unused EXCEPT !.pc = answer]
  <1>1. new \in Job /\ new.op = "none" /\ new.pc = answer
    BY DEF Unused, Job, Answers
  <1>2. job' = [job EXCEPT ![r] = new] /\ job \in [Requests -> Job]
    BY DEF Close, SystemsInv, SystemsTypeOK
  <1>. HIDE DEF new
  <1>3. job'[r] = new /\ job' \in [Requests -> Job]
    BY <1>1, <1>2
  <1>4. Sound(r)'
    BY <1>1, <1>3 DEF Sound, UnderWay, AboutASystem, BringsItsBody, KeepsAttributes, HasTheLock, Answers
  <1>5. \A q \in Requests : job'[q].op \in {"create", "save"} => job'[q].body \in Form
    BY <1>1, <1>2, <1>3 DEF SystemsInv, SystemsTypeOK
  <1>. QED
    BY <1>1, <1>2, <1>3, <1>4, <1>5

LEMMA Answered ==
  ASSUME SystemsInv, NEW r \in Requests, NEW answer \in Answers, Respond(r, answer)
  PROVE  SystemsInv'
  <1>1. Close(r, answer) /\ UNCHANGED <<now, rows, complete, lock, supplied>>
    BY DEF Respond
  <1>2. PICK new \in Job : job' = [job EXCEPT ![r] = new] /\ new.op = "none"
    BY <1>1, ClosedIsSound
  <1>3. Sound(r)'
    BY <1>1, ClosedIsSound
  <1>. QED
    BY <1>1, <1>2, <1>3, NoTableChanges

(* A request arrives. *)
LEMMA Asked ==
  ASSUME SystemsInv, NEW r \in Requests, NEW op \in {"create", "save", "decommission",
           "reactivate", "target", "complete"},
         NEW u \in Users, NEW s \in Systems \cup {Null}, NEW body, NEW allowed \in BOOLEAN,
         NEW next \in {"guard", "write"}, Ask(r, op, u, s, body, allowed, next),
         IF op = "create" THEN next = "write" ELSE s \in Systems,
         next = "write" /\ op \notin {"create", "save"} /\ allowed => s \in Existing,
         next = "write" /\ op = "save" => u \in Unscoped,
         op = "create" => u \in Unscoped \/ (body.cloud = Absent /\ body.vendor = Absent),
         op \in {"create", "save"} => body \in Form,
         op = "decommission" => body \in [date : Dates \cup {Now}, notes : Notes],
         op = "reactivate" => body \in [notes : Notes],
         op = "target" => body \in [target : Texts \cup {Absent}],
         op = "complete" => body \in [cycle : Cycles]
  PROVE  SystemsInv'
  <1>1. CASE ~allowed
    <2>1. Respond(r, "forbidden")
      BY <1>1 DEF Ask, Respond
    <2>. QED
      BY <2>1, Answered DEF Answers
  <1>2. CASE allowed
    <2>. DEFINE new == [pc |-> next, op |-> op, me |-> u, at |-> s, body |-> body]
    <2>1. job' = [job EXCEPT ![r] = new] /\ UNCHANGED <<now, rows, complete, lock, supplied>>
      BY <1>2 DEF Ask
    <2>2. new \in Job
      BY DEF Job
    <2>3. job'[r] = new
      BY <2>1 DEF SystemsInv, SystemsTypeOK
    <2>4. Sound(r)'
      BY <1>2, <2>1, <2>3 DEF Sound, UnderWay, AboutASystem, BringsItsBody, KeepsAttributes,
                              HasTheLock, Existing
    <2>5. new.op \in {"create", "save"} => new.body \in Form
      OBVIOUS
    <2>. HIDE DEF new
    <2>. QED
      BY <2>1, <2>2, <2>4, <2>5, NoTableChanges
  <1>. QED
    BY <1>1, <1>2

LEMMA Arrivals ==
  ASSUME SystemsInv, NEW r \in Requests, NEW u \in Users,
         \/ \E form \in Forms : AskCreate(r, u, form) \/ \E s \in Systems : AskSave(r, u, s, form)
         \/ \E s \in Systems :
              \/ \E notes \in Notes :
                   \/ \E date \in Dates \cup {Now} : AskDecommission(r, u, s, date, notes)
                   \/ AskReactivate(r, u, s, notes)
              \/ \E target \in Texts \cup {Absent} : AskTarget(r, u, s, target)
              \/ \E c \in Cycles : AskComplete(r, u, s, c)
  PROVE  SystemsInv'
  <1>. USE SystemsAssumption
  <1>0. \A s \in Systems : <<u, s>> \in Assigned => s \in Existing
    BY DEF SystemsInv
  <1>1. ASSUME NEW form \in Forms, AskCreate(r, u, form) PROVE SystemsInv'
    <2>. DEFINE body == Cleared(u, form)
                allowed == u \in Unscoped \/ (u \in Scoped /\ <<u, form.opdiv>> \in Granted)
    <2>1. body \in Form /\ (u \in Unscoped \/ (body.cloud = Absent /\ body.vendor = Absent))
      BY DEF Cleared, Form
    <2>2. Ask(r, "create", u, Null, body, allowed, "write") /\ allowed \in BOOLEAN
      BY <1>1 DEF AskCreate
    <2>. HIDE DEF body, allowed
    <2>. QED
      BY <2>1, <2>2, Asked
  <1>2. ASSUME NEW form \in Forms, NEW s \in Systems, AskSave(r, u, s, form) PROVE SystemsInv'
    <2>. DEFINE allowed == IsEditor(u)
                next == IF u \in Unscoped THEN "write" ELSE "guard"
    <2>1. /\ Ask(r, "save", u, s, form, allowed, next) /\ form \in Form
          /\ allowed \in BOOLEAN /\ next \in {"guard", "write"}
          /\ next = "write" => u \in Unscoped
      BY <1>2 DEF AskSave, IsEditor
    <2>. HIDE DEF allowed, next
    <2>. QED
      BY <2>1, Asked
  <1>3. ASSUME NEW s \in Systems, NEW notes \in Notes, NEW date \in Dates \cup {Now},
               AskDecommission(r, u, s, date, notes)
        PROVE SystemsInv'
    <2>. DEFINE allowed == IsEditor(u)
                body == [date |-> date, notes |-> notes]
    <2>1. /\ Ask(r, "decommission", u, s, body, allowed, "guard") /\ allowed \in BOOLEAN
          /\ body \in [date : Dates \cup {Now}, notes : Notes]
      BY <1>3 DEF AskDecommission, IsEditor
    <2>. HIDE DEF allowed, body
    <2>. QED
      BY <2>1, Asked
  <1>4. ASSUME NEW s \in Systems, NEW notes \in Notes, AskReactivate(r, u, s, notes)
        PROVE SystemsInv'
    <2>. DEFINE allowed == IsEditor(u)
                body == [notes |-> notes]
    <2>1. /\ Ask(r, "reactivate", u, s, body, allowed, "guard") /\ allowed \in BOOLEAN
          /\ body \in [notes : Notes]
      BY <1>4 DEF AskReactivate, IsEditor
    <2>. HIDE DEF allowed, body
    <2>. QED
      BY <2>1, Asked
  <1>5. ASSUME NEW s \in Systems, NEW target \in Texts \cup {Absent}, AskTarget(r, u, s, target)
        PROVE SystemsInv'
    <2>. DEFINE allowed == IsEditor(u) \/ (u \in Issos /\ <<u, s>> \in Assigned)
                next == IF IsEditor(u) THEN "guard" ELSE "write"
                body == [target |-> target]
    <2>1. /\ Ask(r, "target", u, s, body, allowed, next)
          /\ allowed \in BOOLEAN /\ next \in {"guard", "write"}
          /\ body \in [target : Texts \cup {Absent}]
          /\ next = "write" /\ allowed => s \in Existing
      BY <1>0, <1>5 DEF AskTarget, IsEditor
    <2>. HIDE DEF allowed, next, body
    <2>. QED
      BY <2>1, Asked
  <1>6. ASSUME NEW s \in Systems, NEW c \in Cycles, AskComplete(r, u, s, c)
        PROVE SystemsInv'
    <2>. DEFINE allowed == IsEditor(u) \/ (u \in Issos \cup Delegates /\ <<u, s>> \in Assigned)
                next == IF IsEditor(u) THEN "guard" ELSE "write"
                body == [cycle |-> c]
    <2>1. /\ Ask(r, "complete", u, s, body, allowed, next)
          /\ allowed \in BOOLEAN /\ next \in {"guard", "write"} /\ body \in [cycle : Cycles]
          /\ next = "write" /\ allowed => s \in Existing
      BY <1>0, <1>6 DEF AskComplete, IsEditor
    <2>. HIDE DEF allowed, next, body
    <2>. QED
      BY <2>1, Asked
  <1>. QED
    BY <1>1, <1>2, <1>3, <1>4, <1>5, <1>6

(* A step that is the last of its request. *)
LEMMA Finished ==
  ASSUME SystemsInv, NEW r \in Requests, NEW answer \in Answers, Close(r, answer),
         now' = now, complete' \subseteq Cycles \X Systems,
         rows' \in [Systems -> SystemRow \cup {NoRow}],
         lock' \in [Systems -> Requests \cup {Null}],
         supplied' \subseteq Systems \X {"cloud", "vendor"} \X (Bool \cup Texts \cup {Null}),
         supplied \subseteq supplied', Existing \subseteq Existing',
         \A s \in Existing : lock[s] \notin {Null, r} => lock'[s] = lock[s] /\ rows'[s] = rows[s],
         AttributesComeFromUnscopedAdmins'
  PROVE  SystemsInv'
  <1>1. PICK new \in Job : job' = [job EXCEPT ![r] = new]
    BY ClosedIsSound
  <1>2. \A q \in Requests \ {r} : Sound(q)'
    BY <1>1, OthersStaySound
  <1>3. /\ job' \in [Requests -> Job] /\ Sound(r)'
        /\ \A q \in Requests : job'[q].op \in {"create", "save"} => job'[q].body \in Form
    BY ClosedIsSound
  <1>4. SystemsTypeOK'
    BY <1>3 DEF SystemsInv, SystemsTypeOK
  <1>. QED
    BY <1>2, <1>3, <1>4 DEF SystemsInv

LEMMA GuardStep == ASSUME SystemsInv, NEW r \in Requests, GuardManage(r) PROVE SystemsInv'
  <1>. USE SystemsAssumption
  <1>. DEFINE s == job[r].at
              form == job[r].body
  <1>0. job[r] \in Job /\ InStage(r, "guard") /\ Sound(r)
    BY JobFields DEF GuardManage, SystemsInv
  <1>1. CASE \/ Respond(r, "not found") \/ Respond(r, "forbidden") \/ Respond(r, "invalid")
    BY <1>1, Answered DEF Answers
  <1>2. CASE /\ rows[s] # NoRow /\ UNCHANGED <<now, rows, complete, lock, supplied>>
             /\ job' = [job EXCEPT ![r].pc = "write",
                          ![r].body = IF job[r].op = "save" THEN Preserve(@, rows[s]) ELSE @]
    <2>. DEFINE body == IF job[r].op = "save" THEN Preserve(form, rows[s]) ELSE form
                new == [job[r] EXCEPT !.pc = "write", !.body = body]
    <2>1. job' = [job EXCEPT ![r] = new]
      BY <1>2 DEF SystemsInv, SystemsTypeOK
    <2>2. CASE job[r].op = "save"
      <3>1. s \in Existing /\ form \in Form /\ rows[s] \in SystemRow
        BY <1>0, <1>2, <2>2 DEF Sound, AboutASystem, BringsItsBody, UnderWay, InStage, Existing,
                                SystemsInv, SystemsTypeOK
      <3>2. body = Preserve(form, rows[s]) /\ body \in Form
        BY <2>2, <3>1 DEF Preserve, Restored, Pointer, Form, SystemRow
      <3>3. /\ body.cloud = Absent \/ body.cloud = rows[s].cloud
            /\ body.vendor = Absent \/ (body.vendor = rows[s].vendor /\ body.vendor # Blank)
        BY <3>1, <3>2 DEF Preserve, Restored, Pointer, Form, SystemRow
      <3>4. <<s, "cloud", rows[s].cloud>> \in supplied /\ <<s, "vendor", rows[s].vendor>> \in supplied
        BY <3>1 DEF SystemsInv, AttributesComeFromUnscopedAdmins, Attributes
      <3>. HIDE DEF body
      <3>5. /\ new \in Job /\ new.op = "save" /\ new.body = body /\ new.pc = "write"
            /\ new.at = s /\ new.me = job[r].me /\ new.me \in Users
        BY <1>0, <2>2, <3>2 DEF Job, Sound, BringsItsBody, UnderWay, InStage
      <3>. HIDE DEF new
      <3>6. job'[r] = new
        BY <2>1, <3>5 DEF SystemsInv, SystemsTypeOK
      <3>7. Sound(r)'
        <4>1. /\ job'[r].op = "save" /\ job'[r].body = body /\ job'[r].pc = "write"
              /\ job'[r].at = s /\ job'[r].me \in Users /\ supplied' = supplied
          BY <1>2, <3>5, <3>6
        <4>2. AboutASystem(r)' /\ BringsItsBody(r)' /\ HasTheLock(r)'
          BY <3>1, <3>2, <4>1 DEF AboutASystem, BringsItsBody, HasTheLock, UnderWay, Existing
        <4>3. KeepsAttributes(r)'
          BY <3>3, <3>4, <4>1 DEF KeepsAttributes
        <4>. QED
          BY <4>2, <4>3 DEF Sound
      <3>. QED
        BY <1>2, <2>1, <3>2, <3>5, <3>7, NoTableChanges
    <2>3. CASE job[r].op # "save"
      <3>1. new \in Job /\ new = [job[r] EXCEPT !.pc = "write"]
        BY <1>0, <2>3 DEF Job
      <3>2. /\ new.op = job[r].op /\ new.body = form /\ new.pc = "write"
            /\ new.at = s /\ new.me = job[r].me
        BY <1>0, <3>1 DEF Job
      <3>. HIDE DEF new
      <3>3. job'[r] = new
        BY <2>1, <3>1 DEF SystemsInv, SystemsTypeOK
      <3>4. Sound(r)'
        BY <1>0, <1>2, <2>3, <3>2, <3>3
           DEF Sound, AboutASystem, BringsItsBody, KeepsAttributes, HasTheLock, UnderWay, Existing,
               InStage
      <3>5. new.op \in {"create", "save"} => new.body \in Form
        BY <3>2 DEF SystemsInv, SystemsTypeOK
      <3>. QED
        BY <1>2, <2>1, <3>1, <3>4, <3>5, NoTableChanges
    <2>. QED
      BY <2>2, <2>3
  <1>. QED
    BY <1>1, <1>2 DEF GuardManage

LEMMA InsertStep == ASSUME SystemsInv, NEW r \in Requests, Insert(r) PROVE SystemsInv'
  <1>. USE SystemsAssumption
  <1>. DEFINE form == job[r].body
  <1>0. form \in Form
    BY DEF Insert, Ready, SystemsInv, SystemsTypeOK
  <1>1. CASE Respond(r, "invalid")
    BY <1>1, Answered DEF Answers
  <1>2. ASSUME NEW s \in Systems, rows[s] = NoRow,
               rows' = [rows EXCEPT ![s] =
                 [opdiv |-> IF form.opdiv = Null THEN DefaultOpDiv ELSE form.opdiv,
                  cloud |-> Boolean(form.cloud),
                  vendor |-> BlankToNil(form.vendor), owner |-> BlankToNil(form.owner),
                  target |-> Null, off |-> FALSE, offBy |-> Null, offDate |-> 0,
                  offNotes |-> Null, onBy |-> Null, onNotes |-> Null]],
               supplied' = supplied \cup
                 (IF job[r].me \in Unscoped THEN Attributes(s, rows'[s].cloud, rows'[s].vendor)
                  ELSE Attributes(s, Null, Null)),
               job[r].me \in Unscoped \/ (form.cloud = Absent /\ form.vendor = Absent),
               Close(r, "ok"), UNCHANGED <<now, complete, lock>>
        PROVE SystemsInv'
    <2>. DEFINE row == [opdiv |-> IF form.opdiv = Null THEN DefaultOpDiv ELSE form.opdiv,
                  cloud |-> Boolean(form.cloud),
                  vendor |-> BlankToNil(form.vendor), owner |-> BlankToNil(form.owner),
                  target |-> Null, off |-> FALSE, offBy |-> Null, offDate |-> 0,
                  offNotes |-> Null, onBy |-> Null, onNotes |-> Null]
    <2>1. row \in SystemRow /\ rows' = [rows EXCEPT ![s] = row]
      BY <1>0, <1>2 DEF Form, SystemRow, Boolean, BlankToNil
    <2>2. row.cloud \in Bool \cup {Null} /\ row.vendor \in Texts \cup {Null} /\ row # NoRow
      BY <2>1 DEF SystemRow, NoRow
    <2>3. job[r].me \notin Unscoped => row.cloud = Null /\ row.vendor = Null
      BY <1>2 DEF Boolean, BlankToNil
    <2>. HIDE DEF row
    <2>4. /\ rows' \in [Systems -> SystemRow \cup {NoRow}] /\ rows'[s] = row
          /\ \A t \in Systems \ {s} : rows'[t] = rows[t]
      BY <2>1 DEF SystemsInv, SystemsTypeOK
    <2>5. supplied' = supplied \cup Attributes(s, row.cloud, row.vendor)
      BY <1>2, <2>3, <2>4
    <2>6. supplied' \subseteq Systems \X {"cloud", "vendor"} \X (Bool \cup Texts \cup {Null})
      BY <2>2, <2>5 DEF Attributes, SystemsInv, SystemsTypeOK
    <2>7. Existing' = Existing \cup {s} /\ s \notin Existing
      BY <1>2, <2>2, <2>4 DEF Existing
    <2>8. AttributesComeFromUnscopedAdmins'
      <3>1. \A t \in Existing : Attributes(t, rows'[t].cloud, rows'[t].vendor) \subseteq supplied'
        BY <2>4, <2>5, <2>7 DEF SystemsInv, AttributesComeFromUnscopedAdmins, Existing
      <3>. QED
        BY <2>4, <2>5, <2>7, <3>1 DEF AttributesComeFromUnscopedAdmins
    <2>9. \A t \in Existing : lock'[t] = lock[t] /\ rows'[t] = rows[t]
      BY <1>2, <2>4, <2>7 DEF Existing
    <2>10. /\ now' = now /\ complete' \subseteq Cycles \X Systems
           /\ lock' \in [Systems -> Requests \cup {Null}]
      BY <1>2 DEF SystemsInv, SystemsTypeOK
    <2>. QED
      BY <1>2, <2>4, <2>5, <2>6, <2>7, <2>8, <2>9, <2>10, Finished DEF Answers
  <1>3. job[r].me \in Unscoped \/ (form.cloud = Absent /\ form.vendor = Absent)
    BY DEF Insert, Ready, InStage, SystemsInv, Sound, KeepsAttributes
  <1>. QED
    BY <1>1, <1>2, <1>3 DEF Insert

(* A row of its kind is one: no row has no division. *)
LEMMA RowsExist == \A row \in SystemRow : row # NoRow
  BY SystemsAssumption DEF SystemRow, NoRow

(* The last step of a request changes one row, not the attributes in it. *)
LEMMA RowWritten ==
  ASSUME SystemsInv, NEW r \in Requests, NEW s \in Existing, NEW row \in SystemRow,
         rows' = [rows EXCEPT ![s] = row], lock[s] \in {Null, r},
         lock' = lock \/ lock' = [lock EXCEPT ![s] = Null],
         Close(r, "ok"), UNCHANGED <<now, complete>>, supplied \subseteq supplied',
         supplied' \subseteq Systems \X {"cloud", "vendor"} \X (Bool \cup Texts \cup {Null}),
         Attributes(s, row.cloud, row.vendor) \subseteq supplied'
  PROVE  SystemsInv'
  <1>1. s \in Systems /\ row # NoRow
    BY RowsExist DEF Existing
  <1>2. /\ rows' \in [Systems -> SystemRow \cup {NoRow}] /\ rows'[s] = row
        /\ \A t \in Systems \ {s} : rows'[t] = rows[t]
    BY <1>1 DEF SystemsInv, SystemsTypeOK
  <1>3. Existing' = Existing
    BY <1>1, <1>2 DEF Existing
  <1>4. /\ lock' \in [Systems -> Requests \cup {Null}]
        /\ \A t \in Systems \ {s} : lock'[t] = lock[t]
    BY DEF SystemsInv, SystemsTypeOK
  <1>5. \A t \in Existing : lock[t] \notin {Null, r} => lock'[t] = lock[t] /\ rows'[t] = rows[t]
    BY <1>2, <1>4 DEF Existing
  <1>6. AttributesComeFromUnscopedAdmins'
    <2>1. \A t \in Existing \ {s} : Attributes(t, rows'[t].cloud, rows'[t].vendor) \subseteq supplied'
      BY <1>2 DEF SystemsInv, AttributesComeFromUnscopedAdmins, Existing
    <2>. QED
      BY <1>2, <1>3, <2>1 DEF AttributesComeFromUnscopedAdmins
  <1>7. now' = now /\ complete' \subseteq Cycles \X Systems
    BY DEF SystemsInv, SystemsTypeOK
  <1>. QED
    BY <1>2, <1>3, <1>4, <1>5, <1>6, <1>7, Finished DEF Answers

(* A row's attributes are as supplied, and supplied is of its type. *)
LEMMA OldAttributes ==
  ASSUME SystemsInv, NEW s \in Existing
  PROVE  /\ rows[s] \in SystemRow /\ Attributes(s, rows[s].cloud, rows[s].vendor) \subseteq supplied
         /\ supplied \subseteq Systems \X {"cloud", "vendor"} \X (Bool \cup Texts \cup {Null})
  BY DEF SystemsInv, SystemsTypeOK, AttributesComeFromUnscopedAdmins, Existing

LEMMA EditStep == ASSUME SystemsInv, NEW r \in Requests, UpdateSystem(r) PROVE SystemsInv'
  <1>. USE SystemsAssumption
  <1>. DEFINE s == job[r].at
              form == job[r].body
              row == Edited(rows[s], form)
  <1>0. Ready(r, "save") /\ Sound(r) /\ form \in Form /\ s \in Systems
    BY DEF UpdateSystem, Ready, InStage, SystemsInv, SystemsTypeOK, Sound, AboutASystem, UnderWay
  <1>1. CASE Respond(r, "invalid") \/ Respond(r, "not found")
    BY <1>1, Answered DEF Answers
  <1>2. CASE /\ rows[s] # NoRow /\ Unlocked(s) /\ rows' = [rows EXCEPT ![s] = Edited(@, form)]
             /\ supplied' = IF job[r].me \in Unscoped
                            THEN supplied \cup Attributes(s, rows'[s].cloud, rows'[s].vendor)
                            ELSE supplied
             /\ Close(r, "ok") /\ UNCHANGED <<now, complete, lock>>
    <2>1. s \in Existing /\ rows[s] \in SystemRow
      BY <1>0, <1>2, OldAttributes DEF Existing
    <2>2. row \in SystemRow
      <3>. DEFINE cloud == IF form.cloud = Absent THEN rows[s].cloud ELSE form.cloud
                  vendor == Changed(rows[s].vendor, form.vendor)
                  named == Changed(rows[s].owner, form.owner)
      <3>1. cloud \in Bool \cup {Null}
        BY <1>0, <2>1 DEF Form, SystemRow
      <3>2. vendor \in Texts \cup {Null} /\ named \in Texts \cup {Null}
        BY <1>0, <2>1 DEF Changed, BlankToNil, Form, SystemRow
      <3>3. row = [rows[s] EXCEPT !.cloud = cloud, !.vendor = vendor, !.owner = named]
        BY <2>1 DEF Edited, SystemRow
      <3>. HIDE DEF cloud, vendor, named, row
      <3>. QED
        BY <2>1, <3>1, <3>2, <3>3 DEF SystemRow
    <2>3. /\ row.cloud = IF form.cloud = Absent THEN rows[s].cloud ELSE form.cloud
          /\ row.vendor = Changed(rows[s].vendor, form.vendor)
      BY <1>0, <2>1 DEF Edited, SystemRow
    <2>4. rows' = [rows EXCEPT ![s] = row] /\ rows'[s] = row
      BY <1>0, <1>2 DEF SystemsInv, SystemsTypeOK
    <2>5. row.cloud \in Bool \cup {Null} /\ row.vendor \in Texts \cup {Null}
      BY <2>2 DEF SystemRow
    <2>. HIDE DEF row
    <2>6. Attributes(s, row.cloud, row.vendor) \subseteq supplied'
      <3>1. CASE job[r].me \in Unscoped
        BY <1>2, <2>4, <3>1
      <3>2. CASE job[r].me \notin Unscoped
        <4>1. /\ form.cloud = Absent \/ <<s, "cloud", form.cloud>> \in supplied
              /\ \/ form.vendor = Absent
                 \/ form.vendor # Blank /\ <<s, "vendor", form.vendor>> \in supplied
          BY <1>0, <3>2 DEF Sound, KeepsAttributes, Ready, InStage
        <4>2. <<s, "cloud", rows[s].cloud>> \in supplied /\ <<s, "vendor", rows[s].vendor>> \in supplied
          BY <2>1, OldAttributes DEF Attributes
        <4>3. <<s, "cloud", row.cloud>> \in supplied /\ <<s, "vendor", row.vendor>> \in supplied
          BY <2>3, <4>1, <4>2 DEF Changed, BlankToNil
        <4>. QED
          BY <1>2, <3>2, <4>3 DEF Attributes
      <3>. QED
        BY <3>1, <3>2
    <2>7. supplied' \subseteq Systems \X {"cloud", "vendor"} \X (Bool \cup Texts \cup {Null})
      <3>1. supplied \subseteq Systems \X {"cloud", "vendor"} \X (Bool \cup Texts \cup {Null})
        BY <2>1, OldAttributes
      <3>2. supplied' \in {supplied, supplied \cup Attributes(s, row.cloud, row.vendor)}
        BY <1>2, <2>4
      <3>3. Attributes(s, row.cloud, row.vendor)
              \subseteq Systems \X {"cloud", "vendor"} \X (Bool \cup Texts \cup {Null})
        BY <1>0, <2>5 DEF Attributes
      <3>. QED
        BY <3>1, <3>2, <3>3
    <2>8. supplied \subseteq supplied' /\ lock[s] \in {Null, r} /\ lock' = lock
      BY <1>2 DEF Unlocked
    <2>. QED
      BY <1>2, <2>1, <2>2, <2>4, <2>6, <2>7, <2>8, RowWritten
  <1>. QED
    BY <1>1, <1>2 DEF UpdateSystem

(* The other statements write one row and leave its attributes. *)
LEMMA DecommissionStep == ASSUME SystemsInv, NEW r \in Requests, Decommission(r) PROVE SystemsInv'
  <1>. USE SystemsAssumption
  <1>. DEFINE s == job[r].at
              body == job[r].body
              row == Decommissioned(rows[s], job[r].me, body)
  <1>0. /\ s \in Existing /\ job[r].me \in Users
        /\ body \in [date : Dates \cup {Now}, notes : Notes]
    BY DEF Decommission, Ready, InStage, SystemsInv, Sound, AboutASystem, BringsItsBody, UnderWay
  <1>1. CASE Respond(r, "invalid")
    BY <1>1, Answered DEF Answers
  <1>2. CASE /\ Unlocked(s) /\ rows' = [rows EXCEPT ![s] = Decommissioned(@, job[r].me, body)]
             /\ Close(r, "ok") /\ UNCHANGED <<now, complete, lock, supplied>>
    <2>1. rows[s] \in SystemRow /\ s \in Systems /\ now \in Nat
      BY <1>0, OldAttributes DEF Existing, SystemsInv, SystemsTypeOK
    <2>2. /\ (IF body.date = Now THEN now ELSE body.date) \in Nat
          /\ Noted(rows[s].offNotes, body.notes) \in Texts \cup {Null}
      BY <1>0, <2>1 DEF Noted, Notes, SystemRow
    <2>3. row \in SystemRow /\ row.cloud = rows[s].cloud /\ row.vendor = rows[s].vendor
      <3>. DEFINE date == IF body.date = Now THEN now ELSE body.date
                  notes == Noted(rows[s].offNotes, body.notes)
                  me == job[r].me
      <3>1. row = [rows[s] EXCEPT !.off = TRUE, !.offBy = me, !.offDate = date, !.offNotes = notes]
        BY <2>1 DEF Decommissioned, SystemRow
      <3>2. me \in Users /\ date \in Nat /\ notes \in Texts \cup {Null}
        BY <1>0, <2>2
      <3>. HIDE DEF row, date, notes, me
      <3>. QED
        BY <2>1, <3>1, <3>2 DEF SystemRow
    <2>4. rows' = [rows EXCEPT ![s] = row]
      BY <1>2, <2>1 DEF SystemsInv, SystemsTypeOK
    <2>. HIDE DEF row
    <2>. QED
      BY <1>0, <1>2, <2>3, <2>4, OldAttributes, RowWritten DEF Unlocked
  <1>. QED
    BY <1>1, <1>2 DEF Decommission

LEMMA TargetStep == ASSUME SystemsInv, NEW r \in Requests, SetTarget(r) PROVE SystemsInv'
  <1>. USE SystemsAssumption
  <1>. DEFINE s == job[r].at
              target == job[r].body.target
              row == [rows[s] EXCEPT !.target = target]
  <1>0. s \in Existing
    BY DEF SetTarget, Ready, InStage, SystemsInv, Sound, AboutASystem, UnderWay
  <1>1. CASE Respond(r, "invalid")
    BY <1>1, Answered DEF Answers
  <1>2. CASE /\ target \in Texts /\ Unlocked(s) /\ rows' = [rows EXCEPT ![s].target = target]
             /\ Close(r, "ok") /\ UNCHANGED <<now, complete, lock, supplied>>
    <2>1. rows[s] \in SystemRow /\ s \in Systems
      BY <1>0, OldAttributes DEF Existing
    <2>2. row \in SystemRow /\ row.cloud = rows[s].cloud /\ row.vendor = rows[s].vendor
      BY <1>2, <2>1 DEF SystemRow
    <2>3. rows' = [rows EXCEPT ![s] = row]
      BY <1>2, <2>1 DEF SystemsInv, SystemsTypeOK
    <2>. HIDE DEF row
    <2>. QED
      BY <1>0, <1>2, <2>2, <2>3, OldAttributes, RowWritten DEF Unlocked
  <1>. QED
    BY <1>1, <1>2 DEF SetTarget

LEMMA ReactivateStep == ASSUME SystemsInv, NEW r \in Requests, Reactivate(r) PROVE SystemsInv'
  <1>. USE SystemsAssumption
  <1>. DEFINE s == job[r].at
              notes == Noted(rows[s].onNotes, job[r].body.notes)
              row == [rows[s] EXCEPT !.off = FALSE, !.onBy = job[r].me, !.onNotes = notes]
  <1>0. /\ s \in Existing /\ job[r].me \in Users /\ job[r].body \in [notes : Notes]
        /\ lock[s] = r
    BY DEF Reactivate, InStage, SystemsInv, Sound, AboutASystem, BringsItsBody, HasTheLock, UnderWay
  <1>1. rows[s] \in SystemRow /\ s \in Systems
    BY <1>0, OldAttributes DEF Existing
  <1>2. notes \in Texts \cup {Null}
    BY <1>0, <1>1 DEF Noted, Notes, SystemRow
  <1>3. row \in SystemRow /\ row.cloud = rows[s].cloud /\ row.vendor = rows[s].vendor
    BY <1>0, <1>1, <1>2 DEF SystemRow
  <1>4. rows' = [rows EXCEPT ![s] = row]
    BY <1>1 DEF Reactivate, SystemsInv, SystemsTypeOK
  <1>5. /\ lock' = [lock EXCEPT ![s] = Null] /\ Close(r, "ok")
        /\ UNCHANGED <<now, complete, supplied>>
    BY DEF Reactivate
  <1>. HIDE DEF row
  <1>. QED
    BY <1>0, <1>3, <1>4, <1>5, OldAttributes, RowWritten

LEMMA LockStep == ASSUME SystemsInv, NEW r \in Requests, Lock(r) PROVE SystemsInv'
  <1>. USE SystemsAssumption
  <1>. DEFINE s == job[r].at
              new == [job[r] EXCEPT !.pc = "commit"]
  <1>0. /\ s \in Existing /\ job[r] \in Job /\ Unlocked(s) /\ Sound(r)
        /\ job[r].pc = "write" /\ job[r].op = "reactivate"
    BY JobFields DEF Lock, Ready, InStage, SystemsInv, Sound, AboutASystem, UnderWay
  <1>1. CASE Respond(r, "invalid")
    BY <1>1, Answered DEF Answers
  <1>2. CASE /\ rows[s].off /\ TakeLock(r, s) /\ Proceed(r, "commit")
             /\ UNCHANGED <<now, rows, complete, supplied>>
    <2>1. job' = [job EXCEPT ![r] = new]
      BY <1>2 DEF Proceed, SystemsInv, SystemsTypeOK
    <2>2. /\ new \in Job /\ new.pc = "commit" /\ new.op = "reactivate" /\ new.at = s
          /\ new.body = job[r].body /\ new.me = job[r].me
      BY <1>0 DEF Job
    <2>. HIDE DEF new
    <2>3. job' \in [Requests -> Job] /\ job'[r] = new
      BY <2>1, <2>2 DEF SystemsInv, SystemsTypeOK
    <2>4. /\ lock' \in [Systems -> Requests \cup {Null}] /\ lock'[s] = r /\ lock[s] = Null
          /\ \A t \in Systems \ {s} : lock'[t] = lock[t]
      BY <1>0, <1>2 DEF TakeLock, Unlocked, Existing, SystemsInv, SystemsTypeOK
    <2>5. Existing' = Existing /\ AttributesComeFromUnscopedAdmins'
      BY <1>2 DEF Existing, SystemsInv, AttributesComeFromUnscopedAdmins
    <2>6. \A q \in Requests \ {r} : Sound(q)'
      <3>1. \A t \in Existing : lock[t] \notin {Null, r} => lock'[t] = lock[t] /\ rows'[t] = rows[t]
        BY <1>2, <2>4 DEF Existing
      <3>. QED
        BY <1>2, <2>1, <2>5, <3>1, OthersStaySound
    <2>7. Sound(r)'
      BY <1>0, <1>2, <2>2, <2>3, <2>4, <2>5
         DEF Sound, AboutASystem, BringsItsBody, KeepsAttributes, HasTheLock, UnderWay, Existing
    <2>8. \A q \in Requests : job'[q].op \in {"create", "save"} => job'[q].body \in Form
      BY <2>1, <2>2, <2>3 DEF SystemsInv, SystemsTypeOK
    <2>9. SystemsTypeOK'
      BY <1>2, <2>3, <2>4, <2>8 DEF SystemsInv, SystemsTypeOK
    <2>. QED
      BY <2>5, <2>6, <2>7, <2>9 DEF SystemsInv
  <1>. QED
    BY <1>1, <1>2 DEF Lock

LEMMA CompleteStep == ASSUME SystemsInv, NEW r \in Requests, Complete(r) PROVE SystemsInv'
  <1>. USE SystemsAssumption
  <1>. DEFINE pair == <<job[r].body.cycle, job[r].at>>
  <1>0. job[r].at \in Systems /\ job[r].body \in [cycle : Cycles]
    BY DEF Complete, Ready, InStage, SystemsInv, Sound, AboutASystem, BringsItsBody, UnderWay
  <1>1. CASE Respond(r, "not found")
    BY <1>1, Answered DEF Answers
  <1>2. CASE /\ complete' = complete \cup {pair}
             /\ Close(r, "ok") /\ UNCHANGED <<now, rows, lock, supplied>>
    <2>1. complete' \subseteq Cycles \X Systems /\ Existing' = Existing
      BY <1>0, <1>2 DEF Existing, SystemsInv, SystemsTypeOK
    <2>2. AttributesComeFromUnscopedAdmins'
      BY <1>2, <2>1 DEF SystemsInv, AttributesComeFromUnscopedAdmins
    <2>3. /\ rows' \in [Systems -> SystemRow \cup {NoRow}]
          /\ lock' \in [Systems -> Requests \cup {Null}]
          /\ supplied' \subseteq Systems \X {"cloud", "vendor"} \X (Bool \cup Texts \cup {Null})
      BY <1>2 DEF SystemsInv, SystemsTypeOK
    <2>. QED
      BY <1>2, <2>1, <2>2, <2>3, Finished DEF Answers
  <1>. QED
    BY <1>1, <1>2 DEF Complete

LEMMA AbortStep == ASSUME SystemsInv, NEW r \in Requests, Abort(r) PROVE SystemsInv'
  <1>1. /\ lock' = [s \in Systems |-> IF lock[s] = r THEN Null ELSE lock[s]]
        /\ Close(r, "failed") /\ UNCHANGED <<now, rows, complete, supplied>>
    BY DEF Abort
  <1>2. /\ lock' \in [Systems -> Requests \cup {Null}] /\ complete' \subseteq Cycles \X Systems
        /\ rows' \in [Systems -> SystemRow \cup {NoRow}]
        /\ supplied' \subseteq Systems \X {"cloud", "vendor"} \X (Bool \cup Texts \cup {Null})
    BY <1>1 DEF SystemsInv, SystemsTypeOK
  <1>3. \A s \in Existing : lock[s] \notin {Null, r} => lock'[s] = lock[s] /\ rows'[s] = rows[s]
    BY <1>1 DEF Existing
  <1>4. Existing' = Existing /\ AttributesComeFromUnscopedAdmins'
    BY <1>1 DEF Existing, SystemsInv, AttributesComeFromUnscopedAdmins
  <1>. QED
    BY <1>1, <1>2, <1>3, <1>4, Finished DEF Answers

LEMMA SystemsInvStep == SystemsInv /\ [SystemsNext]_systemVars => SystemsInv'
  <1>. SUFFICES ASSUME SystemsInv, [SystemsNext]_systemVars PROVE SystemsInv'
    OBVIOUS
  <1>1. CASE SystemsTick \/ UNCHANGED systemVars
    <2>1. UNCHANGED <<rows, complete, lock, job, supplied>> /\ now' \in 0 .. LastMoment
      BY <1>1, SystemsAssumption DEF SystemsTick, systemVars, SystemsInv, SystemsTypeOK
    <2>2. SystemsTypeOK' /\ AttributesComeFromUnscopedAdmins' /\ Existing' = Existing
      BY <2>1 DEF SystemsInv, SystemsTypeOK, AttributesComeFromUnscopedAdmins, Existing
    <2>3. \A r \in Requests : Sound(r)'
      BY <2>1, <2>2 DEF SystemsInv, Sound, AboutASystem, BringsItsBody, KeepsAttributes, HasTheLock,
                        UnderWay
    <2>. QED
      BY <2>2, <2>3 DEF SystemsInv
  <1>2. ASSUME NEW r \in Requests,
               \/ GuardManage(r) \/ Insert(r) \/ UpdateSystem(r) \/ Decommission(r)
               \/ Lock(r) \/ Reactivate(r) \/ SetTarget(r) \/ Complete(r) \/ Abort(r)
        PROVE SystemsInv'
    BY <1>2, GuardStep, InsertStep, EditStep, DecommissionStep, LockStep, ReactivateStep,
       TargetStep, CompleteStep, AbortStep
  <1>. QED
    BY <1>1, <1>2, Arrivals DEF SystemsNext

LEMMA SystemsInvariant == SystemsSpec => []SystemsInv
  <1>. QED
    BY SystemsInvInit, SystemsInvStep, PTL DEF SystemsSpec

(* The tables, the locks and the requests are what the code takes them to be. *)
THEOREM SystemTypesHold == SystemsSpec => []SystemsTypeOK
  <1>1. SystemsInv => SystemsTypeOK
    BY DEF SystemsInv
  <1>. QED
    BY <1>1, SystemsInvariant, PTL

(* Whatever a scoped admin sends and whoever edits the system meanwhile, the *)
(* attributes he may not set hold what an unscoped admin asked for.          *)
THEOREM AttributesAreKept == SystemsSpec => []AttributesComeFromUnscopedAdmins
  <1>1. SystemsInv => AttributesComeFromUnscopedAdmins
    BY DEF SystemsInv
  <1>. QED
    BY <1>1, SystemsInvariant, PTL

(* One decommissioning is undone once. *)
THEOREM DecommissionedIsReactivatedOnce == SystemsSpec => ReactivatedOnce
  <1>1. SystemsInv => [\A s \in Existing : \A r \in Requests :
          (InStage(r, "commit") /\ job[r].at = s /\ job'[r].pc = "ok") => rows[s].off]_systemVars
    BY DEF SystemsInv, Sound, HasTheLock, InStage
  <1>. QED
    BY <1>1, SystemsInvariant, PTL DEF ReactivatedOnce

-----------------------------------------------------------------------------
(***************************************************************************)
(* Accounts.  What a request carries with it, by where it is: who was      *)
(* found, whose authority was looked at, and which grant it relies on.     *)
(***************************************************************************)

Labels == Kinds \cup {"guard", "diff", "derive"}

Shaped(j) == \/ j = Idle
             \/ \E k \in Kinds, o \in Outcomes : j = Ended(o, k)
             \/ j \in Requested

(* `known` are the persons with an account; `held` the grants made so far. *)
Vetted(j, known, held) ==
  j.pc \in Labels =>
    /\ j.pc \in Kinds \ {"regrant"} => j.op.kind = j.pc
    /\ j.pc \in {"diff", "regrant"} => j.op.kind = "regrant"
    /\ j.pc = "derive" => j.op.kind \in {"grant", "revoke", "regrant"}
    /\ j.pc \notin {"guard", "create", "delegate"} => j.op.whom \in known
    /\ j.pc \notin {"guard", "delegate", "undelegate", "renew"} => IsAdmin(j.me)
    /\ j.pc \in {"create", "update"} => CanAssignRole(j.me, j.op.role)
    /\ j.pc = "delegate" => j.op.date # Never
    /\ j.pc = "delegate" /\ j.known => j.op.whom \in known
    /\ j.pc = "assign" \/ (j.pc = "delegate" /\ j.known) =>
         <<j.op.whom, OpDivOf[j.op.system]>> \in held

RequestsOK ==
  /\ DOMAIN req = Request
  /\ \A r \in Request : Shaped(req[r]) /\ Vetted(req[r], DOMAIN users, grants \cup revoked)

TablesOK ==
  /\ DOMAIN users \subseteq Person /\ \A p \in DOMAIN users : users[p] \in Row
  /\ grants \subseteq (DOMAIN users) \X OpDiv /\ assigned \subseteq (DOMAIN users) \X System
  /\ today \in 1 .. Horizon
  /\ revoked \subseteq (DOMAIN users) \X OpDiv /\ adrift \subseteq DOMAIN users

AccessInv ==
  /\ TablesOK /\ RequestsOK
  /\ DelegatesExpire /\ StrayAssignmentNeedsARevocation /\ ProviderFollowsGrants

-----------------------------------------------------------------------------
LEMMA OpFields ==
  ASSUME NEW op \in Operation
  PROVE  /\ op.kind \in Kinds /\ op.whom \in Person
         /\ op.kind \in {"create", "update"} => op.role \in Role /\ op.idp \in Provider
         /\ op.kind \in {"grant", "revoke"} => op.opdiv \in OpDiv
         /\ op.kind = "regrant" => op.opdivs \subseteq OpDiv
         /\ op.kind \in {"assign", "unassign", "undelegate", "delegate", "renew"} => op.system \in System
         /\ op.kind \in {"delegate", "renew"} => op.date \in Date \cup {Never}
  BY AccessAssumption DEF Operation, Kinds

LEMMA DatesAsked ==
  ASSUME NEW op \in Operation, op.kind = "delegate", NEW date \in Date
  PROVE  /\ [op EXCEPT !.date = date] \in Operation
         /\ [op EXCEPT !.date = date].kind = "delegate" /\ [op EXCEPT !.date = date].whom = op.whom
         /\ [op EXCEPT !.date = date].system = op.system /\ [op EXCEPT !.date = date].date = date
  BY DEF Operation

LEMMA ExpiryIsADate ==
  ASSUME TablesOK, NEW date \in Date \cup {Never}
  PROVE  Expiry(date) \in Date /\ Expiry(date) # Never /\ today + Term \in Date
  BY AccessAssumption DEF TablesOK, Expiry, Date, Never

LEMMA AccountFields ==
  ASSUME TablesOK, NEW p \in DOMAIN users
  PROVE  /\ Account(p).who = p /\ Account(p).role = users[p].role
         /\ Account(p).deleted = users[p].deleted /\ Account(p).expires = users[p].expires
         /\ Account(p).opdivs = {o \in OpDiv : <<p, o>> \in grants}
         /\ Account(p).systems = {s \in System : <<p, s>> \in assigned}
         /\ ~users[p].deleted => Account(p) \in Snapshot
  BY DEF Account, Snapshot, TablesOK, Row

LEMMA NotUnderWay ==
  /\ Idle.pc = "idle" /\ Idle.pc \notin Labels
  /\ \A k : \A o \in Outcomes : Ended(o, k).pc = o /\ o \notin Labels
  BY DEF Idle, Ended, Doing, Labels, Kinds, Outcomes

(* A request under way is one of the third shape. *)
LEMMA AtWork ==
  ASSUME NEW j, Shaped(j), j.pc \in Labels
  PROVE  /\ j \in Requested /\ j.op \in Operation /\ j.me \in Snapshot /\ j.known \in BOOLEAN
         /\ j.add \subseteq OpDiv /\ j.remove \subseteq OpDiv
  BY NotUnderWay DEF Shaped, Requested

LEMMA Works ==
  ASSUME NEW l \in Labels, NEW op \in Operation, NEW me \in Snapshot, NEW k \in BOOLEAN,
         NEW add \in SUBSET OpDiv, NEW remove \in SUBSET OpDiv
  PROVE  /\ Shaped(Doing(l, op, me, k, add, remove))
         /\ Doing(l, op, me, k, add, remove).pc = l /\ Doing(l, op, me, k, add, remove).op = op
         /\ Doing(l, op, me, k, add, remove).me = me /\ Doing(l, op, me, k, add, remove).known = k
  BY DEF Shaped, Requested, Doing, Labels

LEMMA EndsWell ==
  ASSUME NEW k \in Kinds, NEW o \in Outcomes, NEW known, NEW held
  PROVE  Shaped(Ended(o, k)) /\ Vetted(Ended(o, k), known, held)
  BY NotUnderWay DEF Shaped, Vetted

LEMMA ClearedGrows ==
  ASSUME NEW j, NEW known, NEW held, NEW more, NEW longer, Vetted(j, known, held),
         known \subseteq more, held \subseteq longer
  PROVE  Vetted(j, more, longer)
  BY DEF Vetted

(* One request moves; accounts are never removed and grants are recorded. *)
LEMMA OneMoves ==
  ASSUME RequestsOK, NEW r \in Request, NEW new, Become(r, new), Shaped(new),
         Vetted(new, DOMAIN users', grants' \cup revoked'),
         DOMAIN users \subseteq DOMAIN users', grants \cup revoked \subseteq grants' \cup revoked'
  PROVE  /\ RequestsOK' /\ req'[r] = new
         /\ \A q \in Request \ {r} : req'[q] = req[q]
  <1>1. /\ DOMAIN req' = Request /\ req'[r] = new
        /\ \A q \in Request \ {r} : req'[q] = req[q]
    BY DEF RequestsOK, Become
  <1>2. \A q \in Request \ {r} : Vetted(req[q], DOMAIN users', grants' \cup revoked')
    BY ClearedGrows DEF RequestsOK
  <1>3. \A q \in Request : Shaped(req'[q]) /\ Vetted(req'[q], DOMAIN users', grants' \cup revoked')
    BY <1>1, <1>2 DEF RequestsOK
  <1>. QED
    BY <1>1, <1>3 DEF RequestsOK

(* A request that ends: the tables are what matters. *)
LEMMA OneEnds ==
  ASSUME AccessInv, NEW r \in Request, NEW o \in Outcomes, req[r].pc \in Labels, End(r, o),
         DOMAIN users \subseteq DOMAIN users', grants \cup revoked \subseteq grants' \cup revoked'
  PROVE  /\ RequestsOK' /\ req'[r].pc \notin Labels
         /\ \A q \in Request \ {r} : req'[q] = req[q]
  <1>1. req[r].op.kind \in Kinds
    BY AtWork, OpFields DEF AccessInv, RequestsOK
  <1>. DEFINE new == Ended(o, req[r].op.kind)
  <1>2. Shaped(new) /\ Vetted(new, DOMAIN users', grants' \cup revoked') /\ new.pc \notin Labels
    BY <1>1, EndsWell, NotUnderWay
  <1>3. Become(r, new)
    BY DEF End
  <1>. HIDE DEF new
  <1>. QED
    BY <1>2, <1>3, OneMoves DEF AccessInv

(* A step of a request that changes no table. *)
LEMMA NoTable ==
  ASSUME AccessInv, NEW r \in Request, RequestsOK', UNCHANGED <<database, today, revoked, adrift>>,
         \A q \in Request \ {r} : req'[q] = req[q], ~At(r, "derive")
  PROVE  AccessInv'
  <1>1. TablesOK' /\ DelegatesExpire' /\ StrayAssignmentNeedsARevocation'
    BY DEF AccessInv, TablesOK, DelegatesExpire, IsSystemDelegate, StrayAssignmentNeedsARevocation,
      database
  <1>2. \A q \in Request : At(q, "derive") => At(q, "derive")' /\ req'[q].op = req[q].op
    BY DEF At
  <1>3. ProviderFollowsGrants'
    BY <1>2 DEF AccessInv, ProviderFollowsGrants, ProviderOf, database
  <1>. QED
    BY <1>1, <1>3 DEF AccessInv

-----------------------------------------------------------------------------
LEMMA AccessInvInit == Init => AccessInv
  <1>. SUFFICES ASSUME Init PROVE AccessInv
    OBVIOUS
  <1>1. PICK d \in Populations : users = d.users /\ grants = d.grants /\ assigned = d.assigned
    BY DEF Init
  <1>2. TablesOK
    <2>1. /\ DOMAIN users \subseteq Person /\ \A p \in DOMAIN users : users[p] \in Row
          /\ grants \subseteq (DOMAIN users) \X OpDiv /\ assigned \subseteq (DOMAIN users) \X System
      BY <1>1, PopulationsAssumption
    <2>2. today \in 1 .. Horizon /\ revoked = {} /\ adrift = {}
      BY AccessAssumption DEF Init
    <2>. QED
      BY <2>1, <2>2 DEF TablesOK
  <1>3. RequestsOK
    BY NotUnderWay DEF Init, RequestsOK, Shaped, Vetted
  <1>4. DelegatesExpire /\ StrayAssignmentNeedsARevocation
    BY <1>1, PopulationsAssumption
      DEF DelegatesExpire, IsSystemDelegate, StrayAssignmentNeedsARevocation
  <1>5. ProviderFollowsGrants
    BY <1>1, PopulationsAssumption DEF ProviderFollowsGrants, ProviderOf
  <1>. QED
    BY <1>2, <1>3, <1>4, <1>5 DEF AccessInv

LEMMA AuthenticateStep == ASSUME AccessInv, NEW r \in Request, Authenticate(r) PROVE AccessInv'
  <1>1. PICK p \in DOMAIN users, op \in Operation :
          /\ op.kind \in AskedKinds
          /\ IF users[p].deleted \/ IsExpired(users[p])
             THEN Become(r, Ended("refused", op.kind))
             ELSE Become(r, Doing("guard", op, Account(p), FALSE, {}, {}))
    BY DEF Authenticate
  <1>2. /\ UNCHANGED <<users, grants, revoked>> /\ UNCHANGED <<database, today, revoked, adrift>>
        /\ ~At(r, "derive")
    BY DEF Authenticate, database, At
  <1>3. PICK new : Become(r, new) /\ Shaped(new) /\ Vetted(new, DOMAIN users, grants \cup revoked)
    <2>1. CASE users[p].deleted \/ IsExpired(users[p])
      BY <1>1, <2>1, EndsWell, OpFields DEF Outcomes
    <2>2. CASE ~(users[p].deleted \/ IsExpired(users[p]))
      <3>. DEFINE new == Doing("guard", op, Account(p), FALSE, {}, {})
      <3>1. Account(p) \in Snapshot
        BY <2>2, AccountFields DEF AccessInv
      <3>2. Shaped(new) /\ new.pc = "guard"
        <4>1. "guard" \in Labels /\ {} \in SUBSET OpDiv /\ FALSE \in BOOLEAN
          BY DEF Labels
        <4>. QED
          BY <3>1, <4>1 DEF Shaped, Requested, Doing, Labels
      <3>3. Vetted(new, DOMAIN users, grants \cup revoked)
        BY <3>2 DEF Vetted, Kinds
      <3>. QED
        BY <1>1, <2>2, <3>2, <3>3
    <2>. QED
      BY <2>1, <2>2
  <1>4. RequestsOK' /\ \A q \in Request \ {r} : req'[q] = req[q]
    BY <1>2, <1>3, OneMoves DEF AccessInv
  <1>. QED
    BY <1>2, <1>4, NoTable

(* Answered without a change. *)
LEMMA AnswerStep ==
  ASSUME AccessInv, NEW r \in Request, NEW o \in Outcomes, req[r].pc \in Labels \ {"derive"},
         End(r, o), UNCHANGED <<database, today, revoked, adrift>>
  PROVE  AccessInv'
  <1>1. UNCHANGED <<users, grants, revoked>> /\ ~At(r, "derive")
    BY DEF database, At
  <1>2. RequestsOK' /\ \A q \in Request \ {r} : req'[q] = req[q]
    BY <1>1, OneEnds
  <1>. QED
    BY <1>1, <1>2, NoTable

(* What the guards have looked at. *)
LEMMA GuardsSee ==
  ASSUME AccessInv, NEW op \in Operation, NEW me \in Snapshot, Passes(me, op)
  PROVE  /\ op.kind \notin {"create", "delegate"} => op.whom \in DOMAIN users
         /\ op.kind \notin {"delegate", "undelegate", "renew"} => IsAdmin(me)
         /\ op.kind \in {"create", "update"} => CanAssignRole(me, op.role)
         /\ op.kind = "assign" \/ (op.kind = "delegate" /\ op.whom \in DOMAIN users) =>
              <<op.whom, OpDivOf[op.system]>> \in grants
  <1>1. op.kind \in Kinds
    BY OpFields
  <1>2. op.whom \in DOMAIN users =>
          \A o : o \in Account(op.whom).opdivs => <<op.whom, o>> \in grants
    BY AccountFields DEF AccessInv
  <1>3. op.kind \notin {"create", "delegate"} => op.whom \in DOMAIN users
    BY <1>1 DEF Passes, Kinds
  <1>4. op.kind \notin {"delegate", "undelegate", "renew"} => IsAdmin(me)
    BY <1>1 DEF Passes, Kinds, CanManageUser, CanGrant, MayAssign
  <1>5. op.kind \in {"create", "update"} => CanAssignRole(me, op.role)
    BY <1>1 DEF Passes, Kinds
  <1>6. op.kind = "assign" => OpDivOf[op.system] \in Account(op.whom).opdivs
    BY <1>1 DEF Passes, MayAssign
  <1>7. op.kind = "delegate" /\ op.whom \in DOMAIN users =>
          OpDivOf[op.system] \in Account(op.whom).opdivs
    BY <1>1 DEF Passes, Attachable
  <1>. QED
    BY <1>2, <1>3, <1>4, <1>5, <1>6, <1>7

LEMMA JudgeStep == ASSUME AccessInv, NEW r \in Request, Guard(r) PROVE AccessInv'
  <1>. DEFINE op == req[r].op
              me == req[r].me
              label == IF op.kind = "regrant" THEN "diff" ELSE op.kind
              asked == IF op.kind = "delegate" THEN [op EXCEPT !.date = Expiry(op.date)] ELSE op
              new == Doing(label, asked, me, op.whom \in DOMAIN users, {}, {})
  <1>1. /\ op \in Operation /\ me \in Snapshot /\ op.kind \in Kinds
    BY AtWork, OpFields DEF Guard, AccessInv, RequestsOK, Labels
  <1>2. UNCHANGED <<users, grants, revoked>> /\ UNCHANGED <<database, today, revoked, adrift>>
    BY DEF Guard, database
  <1>3. CASE ~Passes(me, op)
    BY <1>2, <1>3, AnswerStep DEF Guard, Labels, Outcomes
  <1>4. CASE Passes(me, op)
    <2>1. Become(r, new)
      BY <1>4 DEF Guard
    <2>2. /\ asked \in Operation /\ asked.kind = op.kind /\ asked.whom = op.whom
          /\ op.kind = "delegate" => asked.system = op.system /\ asked.date # Never
          /\ op.kind # "delegate" => asked = op
      BY <1>1, DatesAsked, ExpiryIsADate, OpFields DEF AccessInv
    <2>3. label \in Labels /\ (label \in Kinds \ {"regrant"} => op.kind = label)
          /\ (label = "diff" => op.kind = "regrant") /\ label \notin {"guard", "derive", "regrant"}
      BY <1>1 DEF Labels, Kinds
    <2>4. Shaped(new) /\ new.pc = label /\ new.op = asked /\ new.me = me
          /\ new.known = (op.whom \in DOMAIN users)
      <3>. HIDE DEF op, me, label, asked
      <3>. DEFINE found == op.whom \in DOMAIN users
      <3>1. found \in BOOLEAN /\ new = Doing(label, asked, me, found, {}, {})
        OBVIOUS
      <3>. HIDE DEF found, new
      <3>2. /\ Shaped(new) /\ new.pc = label /\ new.op = asked /\ new.me = me
            /\ new.known = found
        BY <1>1, <2>2, <2>3, <3>1 DEF Shaped, Requested, Doing, Labels
      <3>. QED
        BY <3>2 DEF found
    <2>5. Vetted(new, DOMAIN users, grants)
      <3>. HIDE DEF op, me, label, asked, new
      <3>1. /\ op.kind \notin {"create", "delegate"} => op.whom \in DOMAIN users
            /\ op.kind \notin {"delegate", "undelegate", "renew"} => IsAdmin(me)
            /\ op.kind \in {"create", "update"} => CanAssignRole(me, op.role)
            /\ op.kind = "assign" \/ (op.kind = "delegate" /\ op.whom \in DOMAIN users) =>
                 <<op.whom, OpDivOf[op.system]>> \in grants
        BY <1>1, <1>4, GuardsSee
      <3>2. label = op.kind \/ (label = "diff" /\ op.kind = "regrant")
        BY DEF label
      <3>. QED
        BY <2>2, <2>3, <2>4, <3>1, <3>2 DEF Vetted, Kinds
    <2>6. Vetted(new, DOMAIN users, grants \cup revoked)
      <3>. HIDE DEF new
      <3>. QED
        BY <2>5, ClearedGrows
    <2>7. RequestsOK' /\ \A q \in Request \ {r} : req'[q] = req[q]
      <3>. HIDE DEF new
      <3>. QED
        BY <1>2, <2>1, <2>4, <2>6, OneMoves DEF AccessInv
    <2>. QED
      BY <1>2, <2>7, NoTable DEF Guard, At
  <1>. QED
    BY <1>3, <1>4

LEMMA DiffStep == ASSUME AccessInv, NEW r \in Request, Diff(r) PROVE AccessInv'
  <1>. DEFINE op == req[r].op
              reach == IF HasUnscopedRead(req[r].me) THEN OpDiv ELSE req[r].me.opdivs
              current == {o \in OpDiv : <<op.whom, o>> \in grants}
              add == (op.opdivs \ current) \cap reach
              remove == (current \ op.opdivs) \cap reach
              new == Doing("regrant", op, req[r].me, req[r].known, add, remove)
  <1>1. /\ req[r].pc = "diff" /\ req[r].pc \in Labels
        /\ UNCHANGED <<users, grants, revoked>> /\ UNCHANGED <<database, today, revoked, adrift>>
    BY DEF Diff, At, Labels, Answer, database
  <1>2. /\ op \in Operation /\ req[r].me \in Snapshot /\ req[r].known \in BOOLEAN
        /\ op.kind = "regrant" /\ op.whom \in DOMAIN users /\ IsAdmin(req[r].me)
    BY <1>1, AtWork DEF AccessInv, RequestsOK, Vetted
  <1>3. CASE End(r, "ok")
    BY <1>1, <1>3, AnswerStep DEF Outcomes
  <1>4. CASE Become(r, new)
    <2>1. add \in SUBSET OpDiv /\ remove \in SUBSET OpDiv
      BY <1>2, OpFields
    <2>. HIDE DEF op, add, remove
    <2>2. Shaped(new) /\ new.pc = "regrant" /\ new.op = op /\ new.me = req[r].me
      BY <1>2, <2>1, Works DEF Labels, Kinds
    <2>. HIDE DEF new
    <2>3. Vetted(new, DOMAIN users, grants \cup revoked)
      BY <1>2, <2>2 DEF Vetted
    <2>4. RequestsOK' /\ \A q \in Request \ {r} : req'[q] = req[q]
      BY <1>1, <1>4, <2>2, <2>3, OneMoves DEF AccessInv
    <2>. QED
      BY <1>1, <2>4, NoTable DEF At
  <1>. QED
    BY <1>3, <1>4 DEF Diff, Answer

-----------------------------------------------------------------------------
(* Putting a row keeps the others. *)
LEMMA Putting ==
  ASSUME NEW p, NEW row, Put(p, row)
  PROVE  /\ DOMAIN users' = DOMAIN users \cup {p} /\ users'[p] = row
         /\ \A q \in DOMAIN users \ {p} : users'[q] = users[q]
  BY DEF Put

(* The derivations under way are those of before, when a request moves that   *)
(* derives neither before nor after.                                          *)
LEMMA DerivingStays ==
  ASSUME AccessInv, NEW r \in Request, ~At(r, "derive"), NEW p,
         \A q \in Request \ {r} : req'[q] = req[q],
         \A q \in Request : At(q, "derive")' => req'[q].op.whom # p
  PROVE  \A q \in Request : At(q, "derive") => req[q].op.whom # p
  BY DEF At

(* A row that exists is changed, neither its provider nor its divisions. *)
LEMMA RowChanges ==
  ASSUME AccessInv, NEW r \in Request, req[r].pc \in Labels \ {"derive"},
         req[r].op.whom \in DOMAIN users, NEW row \in Row, Change(r, row),
         row.role = "SYSTEM_DELEGATE" <=> row.expires # Never,
         row.idp = users[req[r].op.whom].idp
  PROVE  AccessInv'
  <1>. DEFINE p == req[r].op.whom
  <1>1. /\ DOMAIN users' = DOMAIN users /\ users'[p] = row
        /\ \A q \in DOMAIN users \ {p} : users'[q] = users[q]
        /\ End(r, "ok") /\ UNCHANGED <<grants, assigned, today, revoked, adrift>>
    <2>1. Put(p, row) /\ End(r, "ok") /\ UNCHANGED <<grants, assigned, today, revoked, adrift>>
      BY DEF Change
    <2>2. /\ DOMAIN users' = DOMAIN users \cup {p} /\ users'[p] = row
          /\ \A q \in DOMAIN users \ {p} : users'[q] = users[q]
      BY <2>1, Putting
    <2>. QED
      BY <2>1, <2>2
  <1>2. RequestsOK' /\ (\A q \in Request \ {r} : req'[q] = req[q]) /\ req'[r].pc \notin Labels
    BY <1>1, OneEnds DEF Outcomes
  <1>3. TablesOK'
    BY <1>1 DEF AccessInv, TablesOK
  <1>4. DelegatesExpire' /\ StrayAssignmentNeedsARevocation'
    BY <1>1 DEF AccessInv, DelegatesExpire, IsSystemDelegate, StrayAssignmentNeedsARevocation
  <1>5. ProviderFollowsGrants'
    <2>1. \A q \in DOMAIN users : users'[q].idp = users[q].idp
      BY <1>1
    <2>2. ~At(r, "derive")
      BY DEF At
    <2>3. ASSUME NEW q \in DOMAIN users' \ adrift',
                 \A x \in Request : At(x, "derive")' => req'[x].op.whom # q
          PROVE  users'[q].idp = ProviderOf(grants', q)
      BY <1>1, <1>2, <2>1, <2>2, <2>3, DerivingStays DEF AccessInv, ProviderFollowsGrants, ProviderOf
    <2>. QED
      BY <2>3 DEF ProviderFollowsGrants
  <1>. QED
    BY <1>2, <1>3, <1>4, <1>5 DEF AccessInv

LEMMA RowFields ==
  ASSUME TablesOK, NEW p \in DOMAIN users
  PROVE  /\ users[p] \in Row /\ users[p].role \in Role /\ users[p].deleted \in BOOLEAN
         /\ users[p].idp \in Provider /\ users[p].expires \in Date \cup {Never}
         /\ p \in Person
  BY DEF TablesOK, Row

LEMMA UpdateStep == ASSUME AccessInv, NEW r \in Request, Update(r) PROVE AccessInv'
  <1>. DEFINE op == req[r].op
              row == [role |-> op.role, deleted |-> users[op.whom].deleted, idp |-> users[op.whom].idp,
                      expires |-> ExpiryAfterSave(users[op.whom], op.role)]
  <1>1. /\ req[r].pc = "update" /\ req[r].pc \in Labels \ {"derive"} /\ Change(r, row)
    BY DEF Update, At, Labels, Kinds
  <1>2. op \in Operation /\ op.kind = "update" /\ op.whom \in DOMAIN users
    BY <1>1, AtWork DEF AccessInv, RequestsOK, Vetted, Kinds
  <1>3. op.role \in Role
    BY <1>2, OpFields
  <1>4. /\ ExpiryAfterSave(users[op.whom], op.role) \in Date \cup {Never}
        /\ op.role = "SYSTEM_DELEGATE" <=> ExpiryAfterSave(users[op.whom], op.role) # Never
    BY <1>2, RowFields, ExpiryIsADate DEF ExpiryAfterSave, AccessInv, Date, Never
  <1>5. row \in Row
    BY <1>2, <1>3, <1>4, RowFields DEF Row, AccessInv
  <1>6. /\ row.role = "SYSTEM_DELEGATE" <=> row.expires # Never
        /\ row.idp = users[op.whom].idp
    BY <1>4
  <1>. HIDE DEF row
  <1>. QED
    BY <1>1, <1>2, <1>5, <1>6, RowChanges

LEMMA DeletionStep == ASSUME AccessInv, NEW r \in Request, Delete(r) \/ Restore(r) PROVE AccessInv'
  <1>. DEFINE op == req[r].op
  <1>1. req[r].pc \in {"delete", "restore"} /\ req[r].pc \in Labels \ {"derive"}
    BY DEF Delete, Restore, At, Labels, Kinds
  <1>2. op.whom \in DOMAIN users
    BY <1>1 DEF AccessInv, RequestsOK, Vetted, Kinds
  <1>3. ASSUME NEW b \in BOOLEAN, Change(r, [users[op.whom] EXCEPT !.deleted = b])
        PROVE  AccessInv'
    <2>. DEFINE row == [users[op.whom] EXCEPT !.deleted = b]
    <2>1. /\ row \in Row /\ row.role = users[op.whom].role /\ row.idp = users[op.whom].idp
          /\ row.expires = users[op.whom].expires
      BY <1>2, RowFields DEF Row, AccessInv
    <2>2. Change(r, row)
      BY <1>3
    <2>. HIDE DEF row
    <2>3. row.role = "SYSTEM_DELEGATE" <=> row.expires # Never
      BY <1>2, <2>1 DEF AccessInv, DelegatesExpire, IsSystemDelegate
    <2>. QED
      BY <1>1, <1>2, <2>1, <2>2, <2>3, RowChanges
  <1>4. CASE Answer(r, "refused")
    BY <1>1, <1>4, AnswerStep DEF Answer, Outcomes
  <1>. QED
    BY <1>3, <1>4 DEF Delete, Restore

LEMMA RenewStep == ASSUME AccessInv, NEW r \in Request, RenewSystemDelegate(r) PROVE AccessInv'
  <1>. DEFINE op == req[r].op
              row == [users[op.whom] EXCEPT !.expires = Expiry(op.date)]
  <1>1. req[r].pc = "renew" /\ req[r].pc \in Labels \ {"derive"}
    BY DEF RenewSystemDelegate, At, Labels, Kinds
  <1>2. op \in Operation /\ op.kind = "renew" /\ op.whom \in DOMAIN users
    BY <1>1, AtWork DEF AccessInv, RequestsOK, Vetted, Kinds
  <1>3. CASE Answer(r, "refused") \/ Answer(r, "missing")
    BY <1>1, <1>3, AnswerStep DEF Answer, Outcomes
  <1>4. CASE IsSystemDelegate(users[op.whom]) /\ Change(r, row)
    <2>1. Expiry(op.date) \in Date /\ Expiry(op.date) # Never
      BY <1>2, OpFields, ExpiryIsADate DEF AccessInv
    <2>2. /\ row \in Row /\ row.role = users[op.whom].role /\ row.idp = users[op.whom].idp
          /\ row.expires = Expiry(op.date)
      BY <1>2, <2>1, RowFields DEF Row, AccessInv
    <2>. HIDE DEF row
    <2>. QED
      BY <1>1, <1>2, <1>4, <2>1, <2>2, RowChanges DEF IsSystemDelegate
  <1>. QED
    BY <1>3, <1>4 DEF RenewSystemDelegate

(* A row is made for somebody who had none: he has no grant yet, and his      *)
(* provider is either chosen or derived.                                      *)
LEMMA FirstRow ==
  ASSUME AccessInv, NEW p \in Person \ DOMAIN users, NEW row \in Row, Put(p, row),
         row.role = "SYSTEM_DELEGATE" <=> row.expires # Never,
         NEW held \in SUBSET ({p} \X OpDiv), NEW on \in SUBSET ({p} \X System),
         grants' = grants \cup held, assigned' = assigned \cup on,
         \A s \in System : <<p, s>> \in on => <<p, OpDivOf[s]>> \in held,
         today' = today, revoked' = revoked, adrift' \in SUBSET (adrift \cup {p}), adrift \subseteq adrift',
         p \notin adrift' => row.idp = ProviderOf(held, p),
         NEW r \in Request, ~At(r, "derive"), \A q \in Request \ {r} : req'[q] = req[q],
         RequestsOK'
  PROVE  AccessInv'
  <1>1. /\ DOMAIN users' = DOMAIN users \cup {p} /\ users'[p] = row
        /\ \A q \in DOMAIN users : users'[q] = users[q]
    BY Putting
  <1>2. TablesOK'
    BY <1>1 DEF AccessInv, TablesOK
  <1>3. DelegatesExpire'
    BY <1>1 DEF AccessInv, DelegatesExpire, IsSystemDelegate
  <1>4. StrayAssignmentNeedsARevocation'
    BY <1>1 DEF AccessInv, TablesOK, StrayAssignmentNeedsARevocation
  <1>5. ASSUME NEW q \in DOMAIN users' \ adrift',
               \A x \in Request : At(x, "derive")' => req'[x].op.whom # q
        PROVE  users'[q].idp = ProviderOf(grants', q)
    <2>1. CASE q = p
      <3>1. <<p, CMS>> \notin grants
        BY DEF AccessInv, TablesOK
      <3>. QED
        BY <1>1, <1>5, <2>1, <3>1 DEF ProviderOf
    <2>2. CASE q # p
      <3>1. q \in DOMAIN users \ adrift /\ users'[q] = users[q]
        BY <1>1, <1>5, <2>2
      <3>2. users[q].idp = ProviderOf(grants, q)
        BY <1>5, <3>1, DerivingStays DEF AccessInv, ProviderFollowsGrants
      <3>3. <<q, CMS>> \in grants' <=> <<q, CMS>> \in grants
        BY <2>2
      <3>. QED
        BY <3>1, <3>2, <3>3 DEF ProviderOf
    <2>. QED
      BY <2>1, <2>2
  <1>6. ProviderFollowsGrants'
    BY <1>5 DEF ProviderFollowsGrants
  <1>. QED
    BY <1>2, <1>3, <1>4, <1>6 DEF AccessInv

LEMMA CreateStep == ASSUME AccessInv, NEW r \in Request, Create(r) PROVE AccessInv'
  <1>. DEFINE op == req[r].op
              row == [role |-> op.role, deleted |-> FALSE,
                      idp |-> IF HasUnscopedRead(req[r].me) THEN op.idp ELSE "okta",
                      expires |-> IF op.role = "SYSTEM_DELEGATE" THEN today + Term ELSE Never]
  <1>1. req[r].pc = "create" /\ req[r].pc \in Labels \ {"derive"} /\ ~At(r, "derive")
    BY DEF Create, At, Labels, Kinds
  <1>2. op \in Operation /\ op.kind = "create"
    BY <1>1, AtWork DEF AccessInv, RequestsOK, Vetted, Kinds
  <1>3. op.whom \in Person /\ op.role \in Role /\ op.idp \in Provider
    BY <1>2, OpFields
  <1>4. CASE Answer(r, "refused")
    BY <1>1, <1>4, AnswerStep DEF Answer, Outcomes
  <1>5. CASE /\ op.whom \notin DOMAIN users /\ Put(op.whom, row) /\ adrift' = adrift \cup {op.whom}
             /\ End(r, "ok") /\ UNCHANGED <<grants, assigned, today, revoked>>
    <2>1. row \in Row
      BY <1>3, AccessAssumption, ExpiryIsADate DEF Row, Provider, Date, Never, AccessInv
    <2>2. row.role = "SYSTEM_DELEGATE" <=> row.expires # Never
      BY AccessAssumption DEF Never, AccessInv, TablesOK
    <2>. HIDE DEF row
    <2>3. RequestsOK' /\ \A q \in Request \ {r} : req'[q] = req[q]
      <3>1. DOMAIN users \subseteq DOMAIN users'
        BY <1>5, Putting
      <3>. QED
        BY <1>1, <1>5, <3>1, OneEnds DEF Outcomes
    <2>. DEFINE none == {}
    <2>4. /\ none \in SUBSET ({op.whom} \X OpDiv) /\ none \in SUBSET ({op.whom} \X System)
          /\ \A s \in System : <<op.whom, s>> \in none => <<op.whom, OpDivOf[s]>> \in none
          /\ grants' = grants \cup none /\ assigned' = assigned \cup none
      BY <1>5
    <2>5. /\ today' = today /\ revoked' = revoked /\ adrift' \in SUBSET (adrift \cup {op.whom})
          /\ adrift \subseteq adrift' /\ op.whom \in adrift'
          /\ op.whom \in Person \ DOMAIN users /\ Put(op.whom, row)
      BY <1>3, <1>5
    <2>. HIDE DEF none, op
    <2>. QED
      BY <1>1, <2>1, <2>2, <2>3, <2>4, <2>5, FirstRow
  <1>. QED
    BY <1>4, <1>5 DEF Create

-----------------------------------------------------------------------------
LEMMA RegrantStep ==
  ASSUME AccessInv, NEW r \in Request, req[r].pc \in {"grant", "revoke", "regrant"},
         NEW add \in SUBSET OpDiv, NEW remove \in SUBSET OpDiv, Regrant(r, add, remove)
  PROVE  AccessInv'
  <1>. DEFINE p == req[r].op.whom
              new == Doing("derive", req[r].op, req[r].me, req[r].known, {}, {})
              added == {p} \X add
              gone == {p} \X remove
              lost == grants \cap ({p} \X (remove \ add))
  <1>1. /\ req[r].op \in Operation /\ req[r].me \in Snapshot /\ req[r].known \in BOOLEAN
        /\ req[r].op.kind \in {"grant", "revoke", "regrant"} /\ p \in DOMAIN users
        /\ IsAdmin(req[r].me)
    BY AtWork DEF AccessInv, RequestsOK, Vetted, Labels, Kinds
  <1>2. /\ grants' = (grants \ gone) \cup added /\ revoked' = revoked \cup lost
        /\ Become(r, new) /\ UNCHANGED <<users, assigned, today, adrift>>
    BY DEF Regrant
  <1>3. Shaped(new) /\ new.pc = "derive" /\ new.op = req[r].op /\ new.me = req[r].me
    BY <1>1, Works DEF Labels
  <1>4. /\ added \subseteq (DOMAIN users) \X OpDiv /\ lost \subseteq grants
        /\ grants \ lost \subseteq grants'
        /\ \A q, o : q # p => (<<q, o>> \in grants' <=> <<q, o>> \in grants)
    BY <1>1, <1>2
  <1>. HIDE DEF new, added, gone, lost
  <1>5. Vetted(new, DOMAIN users', grants' \cup revoked')
    BY <1>1, <1>2, <1>3 DEF Vetted, Kinds
  <1>6. grants \cup revoked \subseteq grants' \cup revoked'
    BY <1>2, <1>4
  <1>7. RequestsOK' /\ req'[r] = new /\ \A q \in Request \ {r} : req'[q] = req[q]
    BY <1>2, <1>3, <1>5, <1>6, OneMoves DEF AccessInv
  <1>8. TablesOK'
    BY <1>2, <1>4 DEF AccessInv, TablesOK
  <1>9. DelegatesExpire'
    BY <1>2 DEF AccessInv, DelegatesExpire, IsSystemDelegate
  <1>10. StrayAssignmentNeedsARevocation'
    BY <1>2, <1>6 DEF AccessInv, StrayAssignmentNeedsARevocation
  <1>11. ASSUME NEW q \in DOMAIN users' \ adrift',
                \A x \in Request : At(x, "derive")' => req'[x].op.whom # q
         PROVE  users'[q].idp = ProviderOf(grants', q)
    <2>1. q # p
      BY <1>3, <1>7, <1>11 DEF At
    <2>2. users[q].idp = ProviderOf(grants, q)
      <3>1. ~At(r, "derive")
        BY DEF At
      <3>. QED
        BY <1>2, <1>7, <1>11, <3>1, DerivingStays DEF AccessInv, ProviderFollowsGrants
    <2>. QED
      BY <1>2, <1>4, <2>1, <2>2 DEF ProviderOf
  <1>. QED
    BY <1>7, <1>8, <1>9, <1>10, <1>11 DEF AccessInv, ProviderFollowsGrants

LEMMA GrantsStep ==
  ASSUME AccessInv, NEW r \in Request, Grant(r) \/ Revoke(r) \/ SetUserOpDivs(r)
  PROVE  AccessInv'
  <1>1. req[r].pc \in {"grant", "revoke", "regrant"}
    BY DEF Grant, Revoke, SetUserOpDivs, At
  <1>2. /\ req[r].op \in Operation /\ req[r].add \in SUBSET OpDiv /\ req[r].remove \in SUBSET OpDiv
        /\ req[r].pc # "regrant" => req[r].op.kind = req[r].pc
    BY <1>1, AtWork DEF AccessInv, RequestsOK, Vetted, Labels, Kinds
  <1>3. CASE SetUserOpDivs(r)
    BY <1>1, <1>2, <1>3, RegrantStep DEF SetUserOpDivs
  <1>4. CASE Grant(r) \/ Revoke(r)
    <2>1. {req[r].op.opdiv} \in SUBSET OpDiv /\ {} \in SUBSET OpDiv
      BY <1>2, <1>4, OpFields DEF Grant, Revoke, At
    <2>. QED
      BY <1>1, <1>4, <2>1, RegrantStep DEF Grant, Revoke
  <1>. QED
    BY <1>3, <1>4

LEMMA DeriveStep == ASSUME AccessInv, NEW r \in Request, Derive(r) PROVE AccessInv'
  <1>. DEFINE p == req[r].op.whom
              row == [users[p] EXCEPT !.idp = ProviderOf(grants, p)]
  <1>1. /\ req[r].pc = "derive" /\ req[r].pc \in Labels /\ Put(p, row) /\ adrift' = adrift \ {p}
        /\ End(r, "ok") /\ UNCHANGED <<grants, assigned, today, revoked>>
    BY DEF Derive, At, Labels
  <1>2. p \in DOMAIN users
    BY <1>1 DEF AccessInv, RequestsOK, Vetted, Kinds
  <1>3. /\ row \in Row /\ row.role = users[p].role /\ row.expires = users[p].expires
        /\ row.idp = ProviderOf(grants, p)
    BY <1>2, RowFields DEF Row, AccessInv, ProviderOf, Provider
  <1>. HIDE DEF row
  <1>4. /\ DOMAIN users' = DOMAIN users /\ users'[p] = row
        /\ \A q \in DOMAIN users \ {p} : users'[q] = users[q]
    BY <1>1, <1>2, Putting
  <1>5. RequestsOK' /\ (\A q \in Request \ {r} : req'[q] = req[q]) /\ req'[r].pc \notin Labels
    BY <1>1, <1>4, OneEnds DEF Outcomes
  <1>6. TablesOK' /\ DelegatesExpire' /\ StrayAssignmentNeedsARevocation'
    BY <1>1, <1>2, <1>3, <1>4 DEF AccessInv, TablesOK, DelegatesExpire, IsSystemDelegate,
      StrayAssignmentNeedsARevocation
  <1>7. ASSUME NEW q \in DOMAIN users' \ adrift',
               \A x \in Request : At(x, "derive")' => req'[x].op.whom # q
        PROVE  users'[q].idp = ProviderOf(grants', q)
    <2>1. CASE q = p
      BY <1>1, <1>3, <1>4, <2>1 DEF ProviderOf
    <2>2. CASE q # p
      <3>1. \A x \in Request : At(x, "derive") => req[x].op.whom # q
        BY <1>5, <1>7, <2>2 DEF At
      <3>. QED
        BY <1>1, <1>4, <1>7, <2>2, <3>1 DEF AccessInv, ProviderFollowsGrants, ProviderOf
    <2>. QED
      BY <2>1, <2>2
  <1>. QED
    BY <1>5, <1>6, <1>7 DEF AccessInv, ProviderFollowsGrants

(* Assignments move, within what was granted once. *)
LEMMA AssignmentsMove ==
  ASSUME AccessInv, NEW r \in Request, req[r].pc \in Labels \ {"derive"}, End(r, "ok"),
         UNCHANGED <<users, grants, today, revoked, adrift>>,
         assigned' \subseteq (DOMAIN users) \X System,
         \A p \in DOMAIN users, s \in System :
           <<p, s>> \in assigned' => <<p, s>> \in assigned \/ <<p, OpDivOf[s]>> \in grants \cup revoked
  PROVE  AccessInv'
  <1>1. RequestsOK' /\ \A q \in Request \ {r} : req'[q] = req[q]
    BY OneEnds DEF Outcomes
  <1>2. TablesOK' /\ DelegatesExpire' /\ StrayAssignmentNeedsARevocation'
    BY DEF AccessInv, TablesOK, DelegatesExpire, IsSystemDelegate, StrayAssignmentNeedsARevocation
  <1>3. \A q \in Request : At(q, "derive") => At(q, "derive")' /\ req'[q].op = req[q].op
    BY <1>1 DEF At
  <1>4. ProviderFollowsGrants'
    BY <1>3 DEF AccessInv, ProviderFollowsGrants, ProviderOf
  <1>. QED
    BY <1>1, <1>2, <1>4 DEF AccessInv

LEMMA AttachStep ==
  ASSUME AccessInv, NEW r \in Request, Attach(r), req[r].pc \in {"assign", "delegate"},
         req[r].pc = "delegate" => req[r].known
  PROVE  AccessInv'
  <1>1. req[r].pc \in Labels \ {"derive"}
    BY DEF Labels, Kinds
  <1>2. /\ req[r].op.whom \in DOMAIN users
        /\ <<req[r].op.whom, OpDivOf[req[r].op.system]>> \in grants \cup revoked
    BY <1>1 DEF AccessInv, RequestsOK, Vetted
  <1>3. req[r].op.system \in System
    <2>1. req[r].op \in Operation /\ req[r].op.kind = req[r].pc
      BY <1>1, AtWork DEF AccessInv, RequestsOK, Vetted, Kinds
    <2>. QED
      BY <2>1, OpFields
  <1>. QED
    BY <1>1, <1>2, <1>3, AssignmentsMove DEF Attach, AccessInv, TablesOK

LEMMA DetachStep ==
  ASSUME AccessInv, NEW r \in Request, NEW o \in Outcomes, Detach(r, o),
         req[r].pc \in {"unassign", "undelegate"}
  PROVE  AccessInv'
  <1>1. req[r].pc \in Labels \ {"derive"}
    BY DEF Labels, Kinds
  <1>2. CASE Answer(r, o)
    BY <1>1, <1>2, AnswerStep DEF Answer
  <1>3. CASE /\ assigned' \subseteq assigned /\ End(r, "ok")
             /\ UNCHANGED <<users, grants, today, revoked, adrift>>
    BY <1>1, <1>3, AssignmentsMove DEF AccessInv, TablesOK
  <1>. QED
    BY <1>2, <1>3 DEF Detach

LEMMA DelegateStep == ASSUME AccessInv, NEW r \in Request, AddSystemDelegate(r) PROVE AccessInv'
  <1>. DEFINE op == req[r].op
              pair == <<op.whom, OpDivOf[op.system]>>
              held == {pair}
              on == {<<op.whom, op.system>>}
              row == [role |-> "SYSTEM_DELEGATE", deleted |-> FALSE,
                      idp |-> ProviderOf(held, op.whom), expires |-> op.date]
  <1>1. req[r].pc = "delegate" /\ req[r].pc \in Labels \ {"derive"} /\ ~At(r, "derive")
    BY DEF AddSystemDelegate, At, Labels, Kinds
  <1>2. op \in Operation /\ op.kind = "delegate" /\ op.date # Never /\ req[r].known \in BOOLEAN
    BY <1>1, AtWork DEF AccessInv, RequestsOK, Vetted, Kinds
  <1>3. op.whom \in Person /\ op.system \in System /\ op.date \in Date \cup {Never}
        /\ OpDivOf[op.system] \in OpDiv
    BY <1>2, OpFields, AccessAssumption
  <1>4. CASE req[r].known
    BY <1>1, <1>4, AttachStep DEF AddSystemDelegate
  <1>5. CASE Answer(r, "refused")
    BY <1>1, <1>5, AnswerStep DEF Answer, Outcomes
  <1>6. CASE /\ op.whom \notin DOMAIN users /\ Put(op.whom, row)
             /\ grants' = grants \cup held /\ assigned' = assigned \cup on
             /\ End(r, "ok") /\ UNCHANGED <<today, revoked, adrift>>
    <2>1. row \in Row
      BY <1>3 DEF Row, Role, ProviderOf, Provider
    <2>2. row.role = "SYSTEM_DELEGATE" /\ row.expires # Never /\ row.idp = ProviderOf(held, op.whom)
      BY <1>2
    <2>3. /\ held \in SUBSET ({op.whom} \X OpDiv) /\ on \in SUBSET ({op.whom} \X System)
          /\ \A s \in System : <<op.whom, s>> \in on => <<op.whom, OpDivOf[s]>> \in held
      BY <1>3
    <2>4. /\ today' = today /\ revoked' = revoked /\ adrift' \in SUBSET (adrift \cup {op.whom})
          /\ adrift \subseteq adrift' /\ op.whom \in Person \ DOMAIN users
      BY <1>3, <1>6
    <2>. HIDE DEF row, held, on, op
    <2>5. RequestsOK' /\ \A q \in Request \ {r} : req'[q] = req[q]
      <3>1. DOMAIN users \subseteq DOMAIN users'
        BY <1>6, Putting
      <3>2. grants \cup revoked \subseteq grants' \cup revoked'
        BY <1>6
      <3>. QED
        BY <1>1, <1>6, <3>1, <3>2, OneEnds DEF Outcomes
    <2>. QED
      BY <1>1, <1>6, <2>1, <2>2, <2>3, <2>4, <2>5, FirstRow
  <1>. QED
    BY <1>4, <1>5, <1>6 DEF AddSystemDelegate

LEMMA FailStep == ASSUME AccessInv, NEW r \in Request, Fail(r) PROVE AccessInv'
  <1>1. /\ req[r].pc \in Labels /\ End(r, "failed")
        /\ UNCHANGED <<database, today, revoked>> /\ UNCHANGED <<users, grants, assigned>>
    BY AccessAssumption DEF Fail, Labels, database
  <1>2. CASE ~At(r, "derive")
    BY <1>1, <1>2, AnswerStep DEF Fail, At, Outcomes
  <1>3. CASE At(r, "derive")
    <2>1. req[r].op.whom \in DOMAIN users /\ adrift' = adrift \cup {req[r].op.whom}
      BY <1>1, <1>3 DEF Fail, At, AccessInv, RequestsOK, Vetted, Kinds
    <2>2. RequestsOK' /\ \A q \in Request \ {r} : req'[q] = req[q]
      BY <1>1, OneEnds DEF Outcomes
    <2>3. TablesOK' /\ DelegatesExpire' /\ StrayAssignmentNeedsARevocation'
      BY <1>1, <2>1 DEF AccessInv, TablesOK, DelegatesExpire, IsSystemDelegate,
        StrayAssignmentNeedsARevocation
    <2>4. ASSUME NEW q \in DOMAIN users' \ adrift',
                 \A x \in Request : At(x, "derive")' => req'[x].op.whom # q
          PROVE  users'[q].idp = ProviderOf(grants', q)
      <3>1. \A x \in Request : At(x, "derive") => req[x].op.whom # q
        BY <2>1, <2>2, <2>4 DEF At
      <3>. QED
        BY <1>1, <2>1, <2>4, <3>1 DEF AccessInv, ProviderFollowsGrants, ProviderOf
    <2>. QED
      BY <2>2, <2>3, <2>4 DEF AccessInv, ProviderFollowsGrants
  <1>. QED
    BY <1>2, <1>3

LEMMA TickStep == ASSUME AccessInv, Tick \/ UNCHANGED vars PROVE AccessInv'
  <1>1. /\ UNCHANGED <<users, grants, assigned, req, revoked, adrift>>
        /\ today' = today \/ (today' = today + 1 /\ today < Horizon)
    BY DEF Tick, vars, database
  <1>2. TablesOK'
    BY <1>1, AccessAssumption DEF AccessInv, TablesOK
  <1>. QED
    BY <1>1, <1>2 DEF AccessInv, RequestsOK, DelegatesExpire, IsSystemDelegate,
      StrayAssignmentNeedsARevocation, ProviderFollowsGrants, ProviderOf, At

LEMMA AccessInvStep == AccessInv /\ [Next]_vars => AccessInv'
  <1>. SUFFICES ASSUME AccessInv, [Next]_vars PROVE AccessInv'
    OBVIOUS
  <1>1. CASE Tick \/ UNCHANGED vars
    BY <1>1, TickStep
  <1>2. ASSUME NEW r \in Request, Authenticate(r) \/ Guard(r) \/ Fail(r) PROVE AccessInv'
    BY <1>2, AuthenticateStep, JudgeStep, FailStep
  <1>3. ASSUME NEW r \in Request, Create(r) \/ Update(r) \/ Delete(r) \/ Restore(r) PROVE AccessInv'
    BY <1>3, CreateStep, UpdateStep, DeletionStep
  <1>4. ASSUME NEW r \in Request, Grant(r) \/ Revoke(r) \/ Diff(r) \/ SetUserOpDivs(r) \/ Derive(r)
        PROVE AccessInv'
    BY <1>4, GrantsStep, DiffStep, DeriveStep
  <1>5. ASSUME NEW r \in Request, Assign(r) PROVE AccessInv'
    BY <1>5, AttachStep DEF Assign, At
  <1>6. ASSUME NEW r \in Request, Unassign(r) \/ RemoveSystemDelegate(r) PROVE AccessInv'
    BY <1>6, DetachStep DEF Unassign, RemoveSystemDelegate, At, Outcomes
  <1>7. ASSUME NEW r \in Request, AddSystemDelegate(r) \/ RenewSystemDelegate(r) PROVE AccessInv'
    BY <1>7, DelegateStep, RenewStep
  <1>. QED
    BY <1>1, <1>2, <1>3, <1>4, <1>5, <1>6, <1>7 DEF Next, Write

LEMMA AccessInvariant == Spec => []AccessInv
  BY AccessInvInit, AccessInvStep, PTL DEF Spec

-----------------------------------------------------------------------------
(* Authority.  A row's role is the one it had or one that its maker, whose    *)
(* snapshot is in circulation, may assign; whoever acts is an account's role. *)

RowsFrom(r) ==
  \A p \in DOMAIN users' :
    \/ p \in DOMAIN users /\ users'[p].role = users[p].role
    \/ Acting(r) /\ Rank(users'[p].role) <= Rank(req[r].me.role)

ActorsFrom(r) ==
  /\ \A q \in Request \ {r} : req'[q] = req[q]
  /\ Acting(r)' => \/ Acting(r) /\ req'[r].me = req[r].me
                   \/ \E p \in DOMAIN users : req'[r].me.role = users[p].role

LEMMA LabelsAct ==
  /\ \A r : req[r].pc \in Labels => Acting(r)
  /\ \A r, o : o \in Outcomes /\ End(r, o) /\ r \in DOMAIN req => ~Acting(r)'
  BY DEF Labels, Kinds, Acting, Outcomes, End, Become, Ended, Doing

LEMMA AssignedTiersAreLower ==
  ASSUME NEW me, NEW role, CanAssignRole(me, role)
  PROVE  Rank(role) <= Rank(me.role)
  BY DEF CanAssignRole, Assignable, Role, Rank

LEMMA FromTheCirculation ==
  ASSUME AccessInv, NEW r \in Request, RowsFrom(r), ActorsFrom(r)
  PROVE  TiersDoNotRise
  <1>1. \A role : Rank(role) \in Nat
    BY DEF Rank
  <1>2. ASSUME NEW p \in DOMAIN users'
        PROVE  \E old \in InCirculation : Rank(users'[p].role) <= Rank(old)
    <2>1. CASE p \in DOMAIN users /\ users'[p].role = users[p].role
      BY <1>1, <2>1 DEF InCirculation
    <2>2. CASE Acting(r) /\ Rank(users'[p].role) <= Rank(req[r].me.role)
      BY <2>2 DEF InCirculation
    <2>. QED
      BY <2>1, <2>2 DEF RowsFrom
  <1>3. ASSUME NEW q \in Request, Acting(q)'
        PROVE  \E old \in InCirculation : Rank(req'[q].me.role) <= Rank(old)
    <2>1. CASE Acting(q) /\ req'[q].me = req[q].me
      BY <1>1, <2>1 DEF InCirculation
    <2>2. CASE \E p \in DOMAIN users : req'[q].me.role = users[p].role
      BY <1>1, <2>2 DEF InCirculation
    <2>. QED
      BY <1>3, <2>1, <2>2 DEF ActorsFrom, Acting
  <1>. QED
    BY <1>2, <1>3 DEF TiersDoNotRise, InCirculation

(* A request that ends where it was, whatever it wrote. *)
LEMMA EndsFrom ==
  ASSUME AccessInv, NEW r \in Request, NEW o \in Outcomes, End(r, o)
  PROVE  ActorsFrom(r)
  <1>1. ~Acting(r)'
    BY LabelsAct DEF AccessInv, RequestsOK
  <1>2. \A q \in Request \ {r} : req'[q] = req[q]
    BY DEF End, Become, AccessInv, RequestsOK
  <1>. QED
    BY <1>1, <1>2 DEF ActorsFrom

(* A request that goes on as who it was. *)
LEMMA GoesOnFrom ==
  ASSUME AccessInv, NEW r \in Request, req[r].pc \in Labels, NEW new, Become(r, new),
         new.me = req[r].me
  PROVE  ActorsFrom(r)
  <1>1. Acting(r)
    BY LabelsAct
  <1>2. req'[r] = new /\ \A q \in Request \ {r} : req'[q] = req[q]
    BY DEF Become, AccessInv, RequestsOK
  <1>. QED
    BY <1>1, <1>2 DEF ActorsFrom

LEMMA UnchangedRows ==
  ASSUME NEW r, UNCHANGED users
  PROVE  RowsFrom(r)
  BY DEF RowsFrom

LEMMA AuthenticateTiers == ASSUME AccessInv, NEW r \in Request, Authenticate(r) PROVE TiersDoNotRise
  <1>1. PICK p \in DOMAIN users, op \in Operation :
          IF users[p].deleted \/ IsExpired(users[p])
          THEN Become(r, Ended("refused", op.kind))
          ELSE Become(r, Doing("guard", op, Account(p), FALSE, {}, {}))
    BY DEF Authenticate
  <1>2. UNCHANGED users
    BY DEF Authenticate, database
  <1>3. CASE Become(r, Ended("refused", op.kind))
    <2>1. ~Acting(r)' /\ \A q \in Request \ {r} : req'[q] = req[q]
      BY <1>3 DEF Acting, Outcomes, Become, Ended, Doing, AccessInv, RequestsOK
    <2>. QED
      BY <1>2, <2>1, UnchangedRows, FromTheCirculation DEF ActorsFrom
  <1>4. CASE Become(r, Doing("guard", op, Account(p), FALSE, {}, {}))
    <2>1. req'[r].me.role = users[p].role
      BY <1>4 DEF Become, Doing, Account, AccessInv, RequestsOK
    <2>2. \A q \in Request \ {r} : req'[q] = req[q]
      BY <1>4 DEF Become, AccessInv, RequestsOK
    <2>. QED
      BY <1>2, <2>1, <2>2, UnchangedRows, FromTheCirculation DEF ActorsFrom
  <1>. QED
    BY <1>1, <1>3, <1>4

(* Steps that write no row of `users`. *)
LEMMA PlainTiers ==
  ASSUME AccessInv, NEW r \in Request,
         \/ Guard(r) \/ Diff(r) \/ Grant(r) \/ Revoke(r) \/ SetUserOpDivs(r)
         \/ Assign(r) \/ Unassign(r) \/ RemoveSystemDelegate(r) \/ Fail(r)
  PROVE  TiersDoNotRise
  <1>1. UNCHANGED users
    BY DEF Guard, Diff, Answer, Grant, Revoke, SetUserOpDivs, Regrant, Assign, Attach, Unassign,
      RemoveSystemDelegate, Detach, Fail, database
  <1>2. CASE \E o \in Outcomes : End(r, o)
    BY <1>1, <1>2, EndsFrom, UnchangedRows, FromTheCirculation
  <1>3. CASE Grant(r) \/ Revoke(r) \/ SetUserOpDivs(r)
    <2>1. req[r].pc \in Labels
      BY <1>3 DEF Grant, Revoke, SetUserOpDivs, At, Labels, Kinds
    <2>2. Become(r, Doing("derive", req[r].op, req[r].me, req[r].known, {}, {}))
      BY <1>3 DEF Grant, Revoke, SetUserOpDivs, Regrant
    <2>3. Doing("derive", req[r].op, req[r].me, req[r].known, {}, {}).me = req[r].me
      BY DEF Doing
    <2>. QED
      BY <1>1, <2>1, <2>2, <2>3, GoesOnFrom, UnchangedRows, FromTheCirculation
  <1>4. CASE Guard(r)
    <2>1. PICK l, op, k : Become(r, Doing(l, op, req[r].me, k, {}, {})) \/ End(r, "refused")
      BY <1>4 DEF Guard
    <2>2. Doing(l, op, req[r].me, k, {}, {}).me = req[r].me /\ req[r].pc \in Labels
      BY <1>4 DEF Doing, Guard, Labels
    <2>. QED
      BY <1>1, <1>2, <2>1, <2>2, GoesOnFrom, UnchangedRows, FromTheCirculation DEF Outcomes
  <1>5. CASE Diff(r)
    <2>1. PICK add, remove :
            \/ Become(r, Doing("regrant", req[r].op, req[r].me, req[r].known, add, remove))
            \/ End(r, "ok")
      BY <1>5 DEF Diff, Answer
    <2>2. /\ Doing("regrant", req[r].op, req[r].me, req[r].known, add, remove).me = req[r].me
          /\ req[r].pc \in Labels
      BY <1>5 DEF Doing, Diff, At, Labels
    <2>. QED
      BY <1>1, <1>2, <2>1, <2>2, GoesOnFrom, UnchangedRows, FromTheCirculation DEF Outcomes
  <1>. QED
    BY <1>2, <1>3, <1>4, <1>5 DEF Assign, Attach, Unassign, RemoveSystemDelegate, Detach, Answer,
      Fail, Outcomes

(* A row is put: its role is the one that was there, or within reach. *)
LEMMA PutFrom ==
  ASSUME AccessInv, NEW r \in Request, req[r].pc \in Labels, NEW p, NEW row, Put(p, row),
         \/ p \in DOMAIN users /\ row.role = users[p].role
         \/ Rank(row.role) <= Rank(req[r].me.role)
  PROVE  RowsFrom(r)
  BY Putting, LabelsAct DEF RowsFrom

LEMMA RolesAsked ==
  ASSUME AccessInv, NEW r \in Request, req[r].pc \in {"create", "update"}
  PROVE  Rank(req[r].op.role) <= Rank(req[r].me.role)
  BY AssignedTiersAreLower DEF AccessInv, RequestsOK, Vetted, Labels, Kinds

LEMMA WriterTiers ==
  ASSUME AccessInv, NEW r \in Request,
         \/ Create(r) \/ Update(r) \/ Delete(r) \/ Restore(r) \/ Derive(r)
         \/ AddSystemDelegate(r) \/ RenewSystemDelegate(r)
  PROVE  TiersDoNotRise
  <1>1. req[r].pc \in Labels
    BY DEF Create, Update, Delete, Restore, Derive, AddSystemDelegate, RenewSystemDelegate, At,
      Labels, Kinds
  <1>2. \E o \in Outcomes : End(r, o)
    BY DEF Create, Update, Delete, Restore, Derive, AddSystemDelegate, RenewSystemDelegate, Answer,
      Change, Attach, Outcomes
  <1>3. ActorsFrom(r)
    BY <1>2, EndsFrom
  <1>4. CASE UNCHANGED users
    BY <1>3, <1>4, UnchangedRows, FromTheCirculation
  <1>5. CASE Create(r) /\ ~UNCHANGED users
    <2>1. PICK row : Put(req[r].op.whom, row) /\ row.role = req[r].op.role
      BY <1>5 DEF Create, Answer, database
    <2>2. Rank(row.role) <= Rank(req[r].me.role)
      BY <1>5, <2>1, RolesAsked DEF Create, At
    <2>. QED
      BY <1>1, <1>3, <2>1, <2>2, PutFrom, FromTheCirculation
  <1>6. CASE Update(r)
    <2>1. PICK row : Put(req[r].op.whom, row) /\ row.role = req[r].op.role
      BY <1>6 DEF Update, Change
    <2>2. Rank(row.role) <= Rank(req[r].me.role)
      BY <1>6, <2>1, RolesAsked DEF Update, At
    <2>. QED
      BY <1>1, <1>3, <2>1, <2>2, PutFrom, FromTheCirculation
  <1>7. CASE (Delete(r) \/ Restore(r) \/ Derive(r) \/ RenewSystemDelegate(r)) /\ ~UNCHANGED users
    <2>. DEFINE p == req[r].op.whom
    <2>1. p \in DOMAIN users
      BY <1>1, <1>7 DEF AccessInv, RequestsOK, Vetted, Kinds, Delete, Restore, Derive,
        RenewSystemDelegate, At
    <2>2. PICK row : Put(p, row) /\ row.role = users[p].role
      <3>1. users[p] \in Row
        BY <2>1, RowFields DEF AccessInv
      <3>2. CASE Delete(r) \/ Restore(r)
        BY <1>7, <3>1, <3>2 DEF Delete, Restore, Change, Answer, database, Row
      <3>3. CASE Derive(r)
        BY <3>1, <3>3 DEF Derive, Row
      <3>4. CASE RenewSystemDelegate(r)
        BY <1>7, <3>1, <3>4 DEF RenewSystemDelegate, Change, Answer, database, Row
      <3>. QED
        BY <1>7, <3>2, <3>3, <3>4
    <2>. QED
      BY <1>1, <1>3, <2>1, <2>2, PutFrom, FromTheCirculation
  <1>8. CASE AddSystemDelegate(r) /\ ~UNCHANGED users
    <2>1. PICK row : Put(req[r].op.whom, row) /\ row.role = "SYSTEM_DELEGATE"
      BY <1>8 DEF AddSystemDelegate, Attach, Answer, database
    <2>2. Rank(row.role) <= Rank(req[r].me.role)
      BY <2>1 DEF Rank
    <2>. QED
      BY <1>1, <1>3, <2>1, <2>2, PutFrom, FromTheCirculation
  <1>. QED
    BY <1>4, <1>5, <1>6, <1>7, <1>8

-----------------------------------------------------------------------------
(* Self-service: whoever is no admin gets past the guards only with a delegate *)
(* to add, to renew or to remove.                                             *)

Untouched ==
  /\ \A p \in DOMAIN users :
       /\ [users'[p] EXCEPT !.expires = 0] = [users[p] EXCEPT !.expires = 0]
       /\ \A o \in OpDiv : <<p, o>> \in grants' <=> <<p, o>> \in grants
  /\ \A p \in DOMAIN users' \ DOMAIN users : IsSystemDelegate(users'[p])

LEMMA StandsStill ==
  ASSUME UNCHANGED <<users, grants>>
  PROVE  Untouched
  BY DEF Untouched

LEMMA AdminsKinds ==
  ASSUME AccessInv, NEW r \in Request, req[r].pc \in Labels, ~IsAdmin(req[r].me)
  PROVE  req[r].pc \in {"guard", "delegate", "undelegate", "renew"}
  BY DEF AccessInv, RequestsOK, Vetted

LEMMA SelfService ==
  ASSUME AccessInv, NEW r \in Request, Guard(r) \/ Write(r) \/ Fail(r), ~IsAdmin(req[r].me)
  PROVE  Untouched
  <1>1. CASE Guard(r) \/ Fail(r)
    BY <1>1, StandsStill DEF Guard, Fail, database
  <1>2. CASE Write(r)
    <2>1. req[r].pc \in Labels
      BY <1>2 DEF Write, Create, Update, Delete, Restore, Grant, Revoke, Diff, SetUserOpDivs, Derive,
        Assign, Unassign, AddSystemDelegate, RemoveSystemDelegate, RenewSystemDelegate, At, Labels, Kinds
    <2>2. req[r].pc \in {"guard", "delegate", "undelegate", "renew"}
      BY <2>1, AdminsKinds
    <2>3. RemoveSystemDelegate(r) \/ AddSystemDelegate(r) \/ RenewSystemDelegate(r)
      BY <1>2, <2>2 DEF Write, Create, Update, Delete, Restore, Grant, Revoke, Diff, SetUserOpDivs,
        Derive, Assign, Unassign, At
    <2>4. CASE UNCHANGED <<users, grants>>
      BY <2>4, StandsStill
    <2>5. CASE RenewSystemDelegate(r) /\ ~UNCHANGED <<users, grants>>
      <3>. DEFINE p == req[r].op.whom
                  row == [users[p] EXCEPT !.expires = Expiry(req[r].op.date)]
      <3>1. p \in DOMAIN users
        BY <2>1, <2>5 DEF RenewSystemDelegate, At, AccessInv, RequestsOK, Vetted, Kinds
      <3>2. Put(p, row) /\ grants' = grants
        BY <2>5 DEF RenewSystemDelegate, Answer, Change, database
      <3>3. [row EXCEPT !.expires = 0] = [users[p] EXCEPT !.expires = 0]
        BY <3>1, RowFields DEF Row, AccessInv
      <3>. HIDE DEF row
      <3>4. /\ DOMAIN users' = DOMAIN users /\ users'[p] = row
            /\ \A q \in DOMAIN users \ {p} : users'[q] = users[q]
        <4>. HIDE DEF p
        <4>1. DOMAIN users' = DOMAIN users \cup {p} /\ users'[p] = row
              /\ \A q \in DOMAIN users \ {p} : users'[q] = users[q]
          BY <3>2, Putting
        <4>. QED
          BY <3>1, <4>1
      <3>5. \A q \in DOMAIN users : [users'[q] EXCEPT !.expires = 0] = [users[q] EXCEPT !.expires = 0]
        BY <3>3, <3>4
      <3>. QED
        BY <3>2, <3>4, <3>5 DEF Untouched
    <2>6. CASE AddSystemDelegate(r) /\ ~UNCHANGED <<users, grants>>
      <3>. DEFINE p == req[r].op.whom
                  o == OpDivOf[req[r].op.system]
                  row == [role |-> "SYSTEM_DELEGATE", deleted |-> FALSE,
                          idp |-> ProviderOf({<<p, o>>}, p), expires |-> req[r].op.date]
      <3>0. /\ Put(p, row) /\ p \notin DOMAIN users
            /\ grants' = grants \cup {<<p, o>>}
        BY <2>6 DEF AddSystemDelegate, Attach, Answer, database
      <3>1. /\ Put(p, row) /\ row.role = "SYSTEM_DELEGATE" /\ p \notin DOMAIN users
            /\ grants' = grants \cup {<<p, o>>}
        BY <3>0
      <3>. HIDE DEF p, o, row
      <3>2. /\ DOMAIN users' = DOMAIN users \cup {p} /\ users'[p] = row
            /\ \A q \in DOMAIN users \ {p} : users'[q] = users[q]
        BY <3>1, Putting
      <3>3. \A q \in DOMAIN users : users'[q] = users[q]
        BY <3>1, <3>2
      <3>. QED
        BY <3>1, <3>2, <3>3 DEF Untouched, IsSystemDelegate
    <2>7. CASE RemoveSystemDelegate(r)
      BY <2>7, StandsStill DEF RemoveSystemDelegate, Detach, Answer, database
    <2>. QED
      BY <2>3, <2>4, <2>5, <2>6, <2>7
  <1>. QED
    BY <1>1, <1>2

(* Who does not move has not acted. *)
LEMMA OneActs ==
  ASSUME AccessInv, NEW r \in Request, Authenticate(r) \/ Guard(r) \/ Write(r) \/ Fail(r)
  PROVE  \A q \in Request \ {r} : req'[q] = req[q]
  <1>1. \E new : Become(r, new)
    BY DEF Authenticate, Guard, Write, Fail, Create, Update, Delete, Restore, Grant, Revoke, Diff,
      SetUserOpDivs, Regrant, Derive, Assign, Attach, Unassign, Detach, AddSystemDelegate,
      RemoveSystemDelegate, RenewSystemDelegate, Answer, Change, End
  <1>. QED
    BY <1>1 DEF Become, AccessInv, RequestsOK

LEMMA HandedOn == AccessInv /\ [Next]_vars => [TiersDoNotRise /\ SelfServiceLeavesOthersAlone]_vars
  <1>. SUFFICES ASSUME AccessInv, Next PROVE TiersDoNotRise /\ SelfServiceLeavesOthersAlone
    OBVIOUS
  <1>1. CASE Tick
    <2>1. UNCHANGED <<users, grants, req>>
      BY <1>1 DEF Tick, database
    <2>2. \A role : Rank(role) <= Rank(role)
      BY DEF Rank
    <2>. QED
      BY <2>1, <2>2 DEF TiersDoNotRise, InCirculation, Acting, SelfServiceLeavesOthersAlone, Moves
  <1>2. ASSUME NEW r \in Request, Authenticate(r) \/ Guard(r) \/ Write(r) \/ Fail(r)
        PROVE  TiersDoNotRise /\ SelfServiceLeavesOthersAlone
    <2>1. TiersDoNotRise
      BY <1>2, AuthenticateTiers, PlainTiers, WriterTiers DEF Write
    <2>2. ASSUME NEW q \in Request, Moves(q), ~At(q, "idle"), ~IsAdmin(req[q].me)
          PROVE  Untouched
      BY <1>2, <2>2, OneActs, SelfService DEF Moves, Authenticate, At
    <2>. QED
      BY <2>1, <2>2 DEF SelfServiceLeavesOthersAlone, Untouched
  <1>. QED
    BY <1>1, <1>2 DEF Next

-----------------------------------------------------------------------------
(* The rows keep the columns' types and CHECKs, and grants and assignments are *)
(* those of accounts that exist, whatever requests overlap and fail.          *)
THEOREM AccessTypesHold == Spec => []AccessTypeOK
  <1>1. AccessInv => AccessTypeOK
    BY DEF AccessInv, TablesOK, RequestsOK, Shaped, AccessTypeOK
  <1>. QED
    BY <1>1, AccessInvariant, PTL

(* Exactly the System Delegates have an expiry, however edits, re-roles and    *)
(* renewals overlap (User.Save, SetDelegateExpiry, AddSystemDelegate).        *)
THEOREM DelegatesDoExpire == Spec => []DelegatesExpire
  <1>1. AccessInv => DelegatesExpire
    BY DEF AccessInv
  <1>. QED
    BY <1>1, AccessInvariant, PTL

(* An assignment outside its user's divisions is left over from a revocation,  *)
(* never made (UserFismaSystem.Save, AddSystemDelegate).                      *)
THEOREM StrayAssignmentsWereGranted == Spec => []StrayAssignmentNeedsARevocation
  <1>1. AccessInv => StrayAssignmentNeedsARevocation
    BY DEF AccessInv
  <1>. QED
    BY <1>1, AccessInvariant, PTL

(* Whoever has no derivation pending or failed signs in with the provider that *)
(* follows from the grants (UserOpDiv.Save, SetUserOpDivs,                    *)
(* deriveIdentityProvider).                                                   *)
THEOREM ProvidersFollow == Spec => []ProviderFollowsGrants
  <1>1. AccessInv => ProviderFollowsGrants
    BY DEF AccessInv
  <1>. QED
    BY <1>1, AccessInvariant, PTL

(* The pickers offer what the guards of the writes let through, save that the  *)
(* systems' leaves out the decommissioned ones, which the guard does not       *)
(* (FindDelegateCandidatesForSystem, ListAssignableFismaSystems).              *)
THEOREM PickersDoMatch == Spec => []PickersMatchTheGuards
  <1>1. ASSUME TablesOK PROVE PickersMatchTheGuards
    <2>1. \A s \in System : OpDivOf[s] \in OpDiv
      BY AccessAssumption
    <2>2. \A s \in System :
            Candidates(s) = {p \in DOMAIN users : Attachable(Account(p), s) /\ <<p, s>> \notin assigned}
      BY <1>1, <2>1, AccountFields DEF Candidates, Attachable, IsSystemDelegate
    <2>3. ASSUME NEW a \in DOMAIN users, NEW p \in DOMAIN users,
                 CanManageUser(Account(a), Account(p)), NEW s \in System
          PROVE  s \in AssignableSystems(Account(a), Account(p)) <=>
                   s \notin OutOfUse /\ MayAssign(Account(a), s, Account(p))
      <3>1. IsAdmin(Account(a))
        BY <2>3 DEF CanManageUser
      <3>. QED
        BY <2>3, <3>1 DEF MayAssign, CanManageFismaSystem, AssignableSystems, HasUnscopedRead, IsAdmin
    <2>4. \A a, p \in DOMAIN users : AssignableSystems(Account(a), Account(p)) \subseteq System
      BY DEF AssignableSystems
    <2>. QED
      BY <2>2, <2>3, <2>4 DEF PickersMatchTheGuards
  <1>. QED
    BY <1>1, AccessInvariant, PTL DEF AccessInv

(* Authority is handed on, never made: no step raises the highest tier in      *)
(* circulation, and whoever is no admin changes nobody's account but a         *)
(* delegate's date, and makes nothing but delegates (SaveUser, Save,          *)
(* AddSystemDelegate, SetDelegateExpiry).                                     *)
THEOREM AuthorityIsNeverMade == Spec => AuthorityIsHandedOn
  BY AccessInvariant, HandedOn, PTL DEF Spec, AuthorityIsHandedOn

-----------------------------------------------------------------------------
(* The three doors together.                                                  *)

(* Whichever door a behaviour enters by, every column keeps its type, and      *)
(* what the tables refer to exists.                                           *)
THEOREM AdministrationTypesHold == MCSpec => []TypeOK
  <1>. DEFINE Inv == AccessInv /\ SystemsInv /\ MailInv
  <1>1. MCInit => Inv
    BY AccessInvInit, SystemsInvInit, MailInvInit DEF MCInit
  <1>2. Inv /\ [MCNext]_mcVars => Inv'
    <2>1. [MCNext]_mcVars => [Next]_vars /\ [SystemsNext]_systemVars /\ [MailNext]_mailVars
      BY DEF MCNext, mcVars
    <2>. QED
      BY <2>1, AccessInvStep, SystemsInvStep, MailInvStep
  <1>3. Inv => TypeOK
    <2>1. AccessInv => AccessTypeOK
      BY DEF AccessInv, TablesOK, RequestsOK, Shaped, AccessTypeOK
    <2>. QED
      BY <2>1 DEF SystemsInv, MailInv, TypeOK
  <1>. QED
    BY <1>1, <1>2, <1>3, PTL DEF MCSpec
=============================================================================
