----------------------------- MODULE MassEmail ------------------------------
(***************************************************************************)
(* Mass e-mail.  A request stores its subject, body and group in the one   *)
(* row of massemails, lists the recipients of the group and answers; a     *)
(* goroutine of its own then dials the relay and mails the recipients one  *)
(* by one.  The next request overwrites the row, whether or not the first  *)
(* has listed or mailed anybody, and a task that is replaced loses the     *)
(* goroutines.                                                             *)
(*                                                                         *)
(* A recipient is found by role in users or in a contact column of a       *)
(* system, and may be found several times, spelled differently.            *)
(***************************************************************************)
EXTENDS Naturals, Sequences, FiniteSets

CONSTANTS
  Sends,                \* requests; each is made once
  Addresses,
  Spellings, AddressOf, \* what the columns hold, and what a spelling denotes
  NoContact,            \* NULL or a blank
  Undeliverable,        \* the spellings that are no address
  Directories,          \* bound: what the columns may hold
  AskedGroups           \* bound: the groups asked for

Columns == {"isso", "issm", "delegate", "admins", "issoemail", "datacallcontact"}

(* massEmailGroups: the columns in which a group's recipients are found. *)
Sources ==
  [ISSO |-> {"isso", "issoemail"}, ISSM |-> {"issm"}, SYSTEM_DELEGATE |-> {"delegate"},
   DCC |-> {"datacallcontact"}, ADMIN |-> {"admins"},
   ALL |-> {"isso", "issm", "delegate", "issoemail", "datacallcontact"}]
Groups == DOMAIN Sources
Width == 5  \* massemails."group" is a varchar(5)

ASSUME DirectoriesAssumption ==
  /\ AddressOf \in [Spellings -> Addresses] /\ NoContact \notin Spellings
  /\ Undeliverable \subseteq Spellings
  /\ Directories \subseteq [Columns -> SUBSET (Spellings \cup {NoContact})]

VARIABLES
  directory,  \* the columns
  massemails, \* the group of the row
  send,       \* the requests and their goroutines
  addressed,  \* history: the addresses a request's group had when it listed them
  mailed      \* history: how often a request has mailed an address

mailVars == <<directory, massemails, send, addressed, mailed>>

NoGroup == "NULL"
Send ==
  [pc : {"idle", "forbidden", "invalid", "saving", "too long", "listing", "failed", "nobody",
         "dialing", "mailing", "unsent", "done", "lost"},
   group : AskedGroups \cup {NoGroup}, todo : SUBSET Spellings]
Unsent == [pc |-> "idle", group |-> NoGroup, todo |-> {}]

MailInit ==
  /\ directory \in Directories
  /\ massemails = NoGroup
  /\ send = [r \in Sends |-> Unsent]
  /\ addressed = [r \in Sends |-> {}]
  /\ mailed = [r \in Sends |-> [a \in Addresses |-> 0]]

-----------------------------------------------------------------------------
IsAt(r, pc) == send[r].pc = pc
MoveTo(r, pc) == send' = [send EXCEPT ![r].pc = pc]

(* SaveMassEmail: only unscoped admins who may write, and a valid request. *)
Submit(r, mayMail, valid, group) ==
  /\ send[r] = Unsent
  /\ send' = [send EXCEPT ![r] =
       [pc |-> IF ~mayMail THEN "forbidden"
               ELSE IF group \in Groups /\ valid THEN "saving" ELSE "invalid",
        group |-> group, todo |-> {}]]
  /\ UNCHANGED <<directory, massemails, addressed, mailed>>

(* The table has room for the name of the group, or refuses the UPDATE. *)
SaveRow(r) ==
  /\ IsAt(r, "saving")
  /\ IF Len(send[r].group) <= Width
     THEN massemails' = send[r].group /\ MoveTo(r, "listing")
     ELSE MoveTo(r, "too long") /\ UNCHANGED massemails
  /\ UNCHANGED <<directory, addressed, mailed>>

(* Variant: the group is read from the row. *)
GroupInRow(r) == massemails

(* The row as the UPDATE returned it. *)
GroupOf(r) == send[r].group

Listed(group) == (UNION {directory[c] : c \in Sources[group]}) \ {NoContact}

(* dedupeRecipients: of the spellings of an address, the one that comes first. *)
Deduped(found) ==
  {some \in SUBSET found :
     /\ {AddressOf[s] : s \in some} = {AddressOf[s] : s \in found}
     /\ \A s, t \in some : AddressOf[s] = AddressOf[t] => s = t}

(* Recipients; without any the goroutine is not started. *)
ListRecipients(r) ==
  /\ IsAt(r, "listing")
  /\ \E recipients \in Deduped(Listed(GroupOf(r))) :
       send' = [send EXCEPT ![r].pc = IF recipients = {} THEN "nobody" ELSE "dialing",
                            ![r].todo = recipients]
  /\ addressed' = [addressed EXCEPT ![r] = {AddressOf[s] : s \in Listed(send[r].group)}]
  /\ UNCHANGED <<directory, massemails, mailed>>

(* A statement of the request fails: what it has stored stays. *)
FailSend(r) ==
  /\ send[r].pc \in {"saving", "listing"}
  /\ MoveTo(r, "failed")
  /\ UNCHANGED <<directory, massemails, addressed, mailed>>

(* Send: the relay is dialed and accepts the credentials, or nobody is mailed. *)
Dial(r) ==
  /\ IsAt(r, "dialing")
  /\ \/ MoveTo(r, "mailing")
     \/ send' = [send EXCEPT ![r].pc = "unsent", ![r].todo = {}]
  /\ UNCHANGED <<directory, massemails, addressed, mailed>>

(* One recipient; a failure is logged and the next one is tried.  A        *)
(* recipient the relay rejects leaves its transaction open, and the relay  *)
(* may refuse every later one for it: any of them may go unmailed.         *)
Mail(r, s) ==
  /\ IsAt(r, "mailing") /\ s \in send[r].todo
  /\ send' = [send EXCEPT ![r].todo = @ \ {s}]
  /\ \/ s \notin Undeliverable /\ mailed' = [mailed EXCEPT ![r][AddressOf[s]] = @ + 1]
     \/ UNCHANGED mailed
  /\ UNCHANGED <<directory, massemails, addressed>>

Quit(r) ==
  /\ IsAt(r, "mailing") /\ send[r].todo = {}
  /\ MoveTo(r, "done")
  /\ UNCHANGED <<directory, massemails, addressed, mailed>>

(* Meanwhile users and contacts change, and the task is replaced. *)
Reassign ==
  /\ directory' \in Directories
  /\ UNCHANGED <<massemails, send, addressed, mailed>>

ReplaceTask ==
  /\ send' = [r \in Sends |->
       IF send[r].pc \in {"saving", "listing", "dialing", "mailing"}
       THEN [send[r] EXCEPT !.pc = "lost", !.todo = {}] ELSE send[r]]
  /\ UNCHANGED <<directory, massemails, addressed, mailed>>

MailNext ==
  \/ \E r \in Sends :
       \/ \E mayMail, valid \in BOOLEAN, g \in AskedGroups : Submit(r, mayMail, valid, g)
       \/ SaveRow(r) \/ ListRecipients(r) \/ FailSend(r) \/ Dial(r) \/ Quit(r)
       \/ \E s \in Spellings : Mail(r, s)
  \/ Reassign \/ ReplaceTask

MailSpec == MailInit /\ [][MailNext]_mailVars

-----------------------------------------------------------------------------
(* Properties. *)

(* The types. *)
MailTypeOK ==
  /\ directory \in Directories /\ massemails \in Groups \cup {NoGroup}
  /\ send \in [Sends -> Send]
  /\ addressed \in [Sends -> SUBSET Addresses] /\ mailed \in [Sends -> [Addresses -> Nat]]

(* Whichever requests share the row, and whoever joins or leaves a group   *)
(* meanwhile, a message goes to the group its own request named, as it was *)
(* when the recipients were listed, and to nobody twice, however often and *)
(* in however many spellings his address is found (Save's RETURNING,       *)
(* dedupeRecipients).                                                      *)
MailReachesItsGroupOnce ==
  \A r \in Sends, a \in Addresses : mailed[r][a] > 0 => a \in addressed[r] /\ mailed[r][a] = 1

(* A valid request for any group an admin may name is stored and listed,   *)
(* as massemails.go says of the delegates.                                 *)
EveryGroupCanBeMailed == \A r \in Sends : ~IsAt(r, "too long")
=============================================================================
