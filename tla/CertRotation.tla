---------------------------- MODULE CertRotation ----------------------------
(***************************************************************************)
(* The certificate rotation Lambda: an uploaded bundle of cert.pem,        *)
(* key.pem and chain.pem is checked, imported into ACM, backed up and      *)
(* archived.                                                               *)
(*                                                                         *)
(* The upload of chain.pem is the trigger.  S3 delivers its event at least *)
(* once, Lambda tries an invocation that returns an error again, and       *)
(* nothing keeps two invocations apart.  An invocation looks at the three  *)
(* objects one by one, reads them one by one, and later copies and deletes *)
(* whatever is there by then.                                              *)
(*                                                                         *)
(* `patient` says what the operator does and never changes; `imported`,    *)
(* `removed`, `overtaken`, `asked` and `answered` are history.             *)
(***************************************************************************)
EXTENDS Naturals, Sequences, FiniteSets, TLC

CONSTANTS
  Bundles,    \* what is uploaded: certificates with their key and chain
  PairOf,     \* the key pair of a bundle's certificate and key
  IssuerOf,   \* the issuer of a bundle's certificate, and its chain's
  Invalid,    \* the bundles refused for what they are (expired, other domain)
  Window,     \* bundleFreshnessWindow
  Invocations,\* how many may overlap
  Retries,    \* how often Lambda tries an event again
  Patience,   \* bound: whether the operator waits for the outcome of an upload
  DryRun,
  MaxUploads, \* bound: the uploads
  MaxTime,    \* bound: the clock
  Faults      \* bound: the steps that may fail, "crash", and "twice" for an
              \* event delivered twice

Files == <<"cert", "key", "chain">>
File == {"cert", "key", "chain"}
Version == 1 .. MaxUploads            \* an upload, in order of time
Object == [n : Version, of : Bundles, at : 0 .. MaxTime]
None == [n |-> 0]                     \* no such object

(* The steps of an invocation. *)
Steps == {"head", "check", "read", "import", "backup", "copy", "delete", "report"}

ASSUME CertAssumption ==
  /\ DOMAIN PairOf = Bundles /\ DOMAIN IssuerOf = Bundles /\ Invalid \subseteq Bundles
  /\ {Window, Retries, MaxUploads, MaxTime} \subseteq Nat
  /\ DryRun \in BOOLEAN /\ Patience \subseteq BOOLEAN
  /\ Faults \subseteq Steps \cup {"crash", "twice"}

VARIABLES
  patient, clock, uploads,
  source,   \* the objects at the prefix
  archive,  \* the versions copied to processed/
  acm,      \* the objects of the certificate in use, by file
  backup,   \* the versions of the backup secret
  events,   \* the undelivered events: of which upload, tries left
  inv,      \* the invocations
  imported, \* history: the versions that were ever imported
  removed,  \* history: the versions the Lambda deleted
  overtaken,\* history: the uploads of a file that an invocation had read and
            \* had still to delete
  asked,    \* history: the chain uploads that found a certificate and a key
  answered  \* history: those imported, or whose event ended in a
            \* notification or in the dead letter queue

s3 == <<source, archive>>
store == <<acm, backup>>
vars == <<patient, clock, uploads, source, archive, acm, backup, events, inv,
          imported, removed, overtaken, asked, answered>>

Nothing == [f \in File |-> None]
Event == [of : Version, copy : {1, 2}, tries : 0 .. Retries]
NoEvent == [of |-> 0]
Resting == [pc |-> "rest", at |-> 1, event |-> NoEvent, seen |-> Nothing, broke |-> FALSE]
Init ==
  /\ patient \in Patience /\ clock = 0 /\ uploads = 0
  /\ source = Nothing /\ archive = {} /\ acm = Nothing /\ backup = {}
  /\ events = {} /\ inv = [i \in Invocations |-> Resting]
  /\ imported = {} /\ removed = {} /\ overtaken = {} /\ asked = {} /\ answered = {}

Quiet == events = {} /\ \A i \in Invocations : inv[i] = Resting

-----------------------------------------------------------------------------
(* The operator. *)

(* The file's turn: an invocation takes the files in this order. *)
Place(f) == IF f = "cert" THEN 1 ELSE IF f = "key" THEN 2 ELSE 3

(* Invocation i has read file f and has still to delete it. *)
Holds(i, f) ==
  \/ inv[i].pc \in {"import", "backup", "copy"}
  \/ inv[i].pc = "read" /\ Place(f) < inv[i].at
  \/ inv[i].pc = "delete" /\ inv[i].at <= Place(f)

Upload(f, b) ==
  /\ uploads < MaxUploads
  /\ patient => Quiet
  /\ uploads' = uploads + 1
  /\ source' = [source EXCEPT ![f] = [n |-> uploads + 1, of |-> b, at |-> clock]]
  /\ IF f = "chain"
     THEN /\ \E copies \in {1} \cup (IF "twice" \in Faults THEN {2} ELSE {}) :
               events' = events \cup {[of |-> uploads + 1, copy |-> c, tries |-> Retries] : c \in 1 .. copies}
          /\ asked' = IF None \in {source.cert, source.key} THEN asked ELSE asked \cup {uploads + 1}
     ELSE UNCHANGED <<events, asked>>
  /\ overtaken' = IF \E i \in Invocations : Holds(i, f) THEN overtaken \cup {uploads + 1} ELSE overtaken
  /\ UNCHANGED <<patient, clock, archive, store, inv, imported, removed, answered>>

(* aws s3 rm, after an alert. *)
Clear ==
  /\ Quiet /\ source # Nothing /\ source' = Nothing
  /\ UNCHANGED <<patient, clock, uploads, archive, store, events, inv, imported, removed, overtaken,
                 asked, answered>>

Tick ==
  /\ clock < MaxTime /\ clock' = clock + 1
  /\ UNCHANGED <<patient, uploads, s3, store, events, inv, imported, removed, overtaken, asked, answered>>

-----------------------------------------------------------------------------
(* An invocation. *)

At(i, pc) == inv[i].pc = pc
FileOf(i) == Files[inv[i].at]

(* What only the operator and the clock change, and the events with it. *)
Calm == UNCHANGED <<patient, clock, uploads, overtaken, asked>>
Silent == Calm /\ UNCHANGED events

Start(i) ==
  /\ At(i, "rest")
  /\ \E e \in events :
       /\ events' = events \ {e}
       /\ inv' = [inv EXCEPT ![i] = [Resting EXCEPT !.pc = "head", !.event = e]]
  /\ Calm /\ UNCHANGED <<s3, store, imported, removed, answered>>

(* On to the next file, or to the next step after the third. *)
Advance(i, new, after) ==
  inv' = [inv EXCEPT ![i] = IF @.at < 3 THEN [new EXCEPT !.at = @ + 1]
                            ELSE [new EXCEPT !.at = 1, !.pc = after]]

(* How an invocation ends.  After an error Lambda tries the event again,   *)
(* and after its last try leaves it in the dead letter queue.              *)
Finish(i) == inv' = [inv EXCEPT ![i] = Resting]
Notified(i) == answered' = answered \cup {inv[i].event.of}
\* Variant: the tries are not counted to their end.
TryAgainForEver(i) ==
  LET e == inv[i].event IN events' = events \cup {[e EXCEPT !.tries = @ - 1]}
TryAgain(i) ==
  LET e == inv[i].event IN
  events' = IF e.tries = 0 THEN events ELSE events \cup {[e EXCEPT !.tries = @ - 1]}

\* notifyValidationFailure, and the success message
Report(i) ==
  Finish(i) /\ Notified(i) /\ Silent /\ UNCHANGED <<s3, store, imported, removed>>
\* notifyInfraFailure
Break(i) ==
  /\ Finish(i) /\ Notified(i) /\ TryAgain(i)
  /\ Calm /\ UNCHANGED <<s3, store, imported, removed>>

LookAt(i) ==
  /\ At(i, "head")
  /\ Advance(i, [inv[i] EXCEPT !.seen[FileOf(i)] = source[FileOf(i)]], "check")
  /\ Silent /\ UNCHANGED <<s3, store, imported, removed, answered>>

(* verifyBundleFreshness: the spread of the three dates. *)
Spread(files, fs) ==
  LET dates == {files[f].at : f \in fs} IN
  CHOOSE d \in 0 .. MaxTime : /\ \E a, b \in dates : d = b - a
                              /\ \A a, b \in dates : b - a <= d
\* Variant: the chain's date is not compared.
FreshWithoutChain(files) == Spread(files, {"cert", "key"}) <= Window
Fresh(files) == Spread(files, File) <= Window

Incomplete(files) == \E f \in File : files[f] = None
\* Variant: a stale bundle is left alone without a word.
CheckQuietly(i) ==
  /\ At(i, "check")
  /\ IF Incomplete(inv[i].seen) \/ ~Fresh(inv[i].seen)
     THEN Finish(i) /\ Silent /\ UNCHANGED <<s3, store, imported, removed, answered>>
     ELSE /\ inv' = [inv EXCEPT ![i].pc = "read"]
          /\ Silent /\ UNCHANGED <<s3, store, imported, removed, answered>>
Check(i) ==
  /\ At(i, "check")
  /\ IF Incomplete(inv[i].seen)
     THEN Finish(i) /\ Silent /\ UNCHANGED <<s3, store, imported, removed, answered>>
     ELSE IF ~Fresh(inv[i].seen) THEN Report(i)
     ELSE /\ inv' = [inv EXCEPT ![i].pc = "read"]
          /\ Silent /\ UNCHANGED <<s3, store, imported, removed, answered>>

Read(i) ==
  /\ At(i, "read")
  /\ IF source[FileOf(i)] = None THEN Break(i) ELSE
       /\ Advance(i, [inv[i] EXCEPT !.seen[FileOf(i)] = source[FileOf(i)]], "import")
       /\ Silent /\ UNCHANGED <<s3, store, imported, removed, answered>>

(* certvalidator.Validate: the certificate itself, its key, its chain. *)
Valid(files) ==
  /\ files.cert.of \notin Invalid
  /\ PairOf[files.cert.of] = PairOf[files.key.of]
  /\ IssuerOf[files.cert.of] = IssuerOf[files.chain.of]

Import(i) ==
  LET files == inv[i].seen IN
  /\ At(i, "import")
  /\ IF ~Valid(files) \/ DryRun THEN Report(i) ELSE
       /\ acm' = files
       /\ imported' = imported \cup {files[f].n : f \in File}
       /\ answered' = answered \cup {files.chain.n}
       /\ inv' = [inv EXCEPT ![i].pc = "backup"]
       /\ Silent /\ UNCHANGED <<s3, backup, removed>>

(* putBackup: the token is derived from the payload, so that a payload put  *)
(* before makes no new version, and none becomes current.                  *)
Payload(files) == [f \in File |-> files[f].of]
Backup(i) ==
  /\ At(i, "backup")
  /\ backup' = backup \cup {Payload(inv[i].seen)} /\ inv' = [inv EXCEPT ![i].pc = "copy"]
  /\ Silent /\ UNCHANGED <<s3, acm, imported, removed, answered>>

(* Copied is the object that is there now, not the one that was read. *)
Copy(i) ==
  /\ At(i, "copy")
  /\ IF source[FileOf(i)] = None THEN Break(i) ELSE
       /\ archive' = archive \cup {source[FileOf(i)].n}
       /\ Advance(i, inv[i], "delete")
       /\ Silent /\ UNCHANGED <<source, store, imported, removed, answered>>

(* Every delete is attempted; that of a missing object succeeds. *)
Delete(i) ==
  /\ At(i, "delete")
  /\ \/ /\ source' = [source EXCEPT ![FileOf(i)] = None]
        /\ removed' = removed \cup ({source[FileOf(i)].n} \ {0})
        /\ Advance(i, inv[i], "report")
     \/ /\ "delete" \in Faults
        /\ Advance(i, [inv[i] EXCEPT !.broke = TRUE], "report")
        /\ UNCHANGED <<source, removed>>
  /\ Silent /\ UNCHANGED <<archive, store, imported, answered>>

Conclude(i) == At(i, "report") /\ IF inv[i].broke THEN Break(i) ELSE Report(i)

\* Variant: a failed backup is passed over.
FailPastBackup(i) ==
  /\ inv[i].pc \in Faults \ {"delete"}
  /\ IF ~At(i, "backup") THEN Break(i) ELSE
       /\ inv' = [inv EXCEPT ![i].pc = "copy"]
       /\ Silent /\ UNCHANGED <<s3, store, imported, removed, answered>>
(* A call to AWS fails before it had an effect. *)
Fail(i) == inv[i].pc \in Faults \ {"delete"} /\ Break(i)

(* The Lambda is stopped, at its timeout for one. *)
Crash(i) ==
  /\ "crash" \in Faults /\ ~At(i, "rest")
  /\ Finish(i) /\ TryAgain(i)
  /\ answered' = IF inv[i].event.tries = 0 THEN answered \cup {inv[i].event.of} ELSE answered
  /\ Calm /\ UNCHANGED <<s3, store, imported, removed>>

handleRecord(i) ==
  \/ Start(i) \/ LookAt(i) \/ Check(i) \/ Read(i) \/ Import(i) \/ Backup(i) \/ Copy(i)
  \/ Delete(i) \/ Conclude(i) \/ Fail(i) \/ Crash(i)

Next ==
  \/ Tick \/ Clear
  \/ \E f \in File, b \in Bundles : Upload(f, b)
  \/ \E i \in Invocations : handleRecord(i)
Spec == Init /\ [][Next]_vars

-----------------------------------------------------------------------------
(* Properties. *)

Slot == Object \cup {None}
Memory == [pc : {"rest"} \cup Steps, at : 1 .. 3, event : Event \cup {NoEvent},
           seen : [File -> Slot], broke : BOOLEAN]
TypeOK ==
  /\ patient \in BOOLEAN /\ clock \in 0 .. MaxTime /\ uploads \in 0 .. MaxUploads
  /\ source \in [File -> Slot] /\ acm \in [File -> Slot] /\ backup \subseteq [File -> Bundles]
  /\ events \subseteq Event
  /\ inv \in [Invocations -> Memory]
  /\ {archive, imported, removed, overtaken, asked, answered} \subseteq SUBSET Version

(* While the operator waits for each outcome, the three files in use were  *)
(* uploaded within one window, whatever a failed archive left behind,      *)
(* whichever single file was uploaded on top of it, and however often its  *)
(* event is delivered or tried again (verifyBundleFreshness).              *)
ImportedTogether == patient /\ acm # Nothing => Spread(acm, File) <= Window

(* No success is reported, and no object archived or deleted, before the   *)
(* bundle that was imported has a version in the backup secret.            *)
SuccessIsBackedUp ==
  \A i \in Invocations : inv[i].pc \in {"copy", "delete", "report"} => Payload(inv[i].seen) \in backup

(* Nothing is lost but what overtakes an invocation, whether the operator  *)
(* waits or not and whatever fails: the Lambda deletes what it has         *)
(* imported and copied to the archive, and never before the backup; the    *)
(* exception is a file uploaded between an invocation's read of that file  *)
(* and its delete, which go by name (handleRecord, deleteSources).         *)
NothingElseIsLost == removed \subseteq (archive \cap imported) \cup overtaken /\ SuccessIsBackedUp

(* What the Lambda's README says of the uploads ("No concurrent races on   *)
(* validation, ACM import, Secrets Manager backup, or archival"): what the *)
(* Lambda removes it has imported and archived.  Not so.                   *)
NoRaceOnArchival == removed \subseteq archive \cap imported

(* Once everything is quiet, the upload of a complete bundle has been      *)
(* imported, or somebody was told why not, if the operator waits for each  *)
(* outcome.                                                                *)
NoBundleIsSwallowed == patient /\ Quiet => asked \subseteq answered
=============================================================================
