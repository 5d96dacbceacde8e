------------------------ MODULE CertRotationProofs -------------------------
(***************************************************************************)
(* Theorems of CertRotation, for any number of overlapping invocations,    *)
(* every window, number of tries and of uploads, and whatever fails.       *)
(*                                                                         *)
(* For an operator who waits: uploads come only when nothing is under way, *)
(* so that while anything is, objects only disappear.  Whatever an         *)
(* invocation has seen of a file is what is there, or what was; so all     *)
(* invocations see the same bundle, the one they judged is the one they    *)
(* import, and it is the last one uploaded.                                *)
(*                                                                         *)
(* For any operator: between an invocation's read of a file and its delete,*)
(* the object is the one it read, or has gone, or has overtaken it.        *)
(***************************************************************************)
EXTENDS CertRotation, TLAPS

Judged == Steps \ {"head", "check"}            \* complete and fresh
HasImported == Judged \ {"read", "import"}

(* Invocation i has looked at file f. *)
Looked(i, f) == inv[i].pc \in Steps /\ (inv[i].pc = "head" => Place(f) < inv[i].at)

(* A resting invocation has nothing in memory; a judged bundle is complete. *)
MemoryOK ==
  \A i \in Invocations :
    /\ inv[i].pc = "rest" => inv[i] = Resting
    /\ inv[i].pc \in Steps => inv[i].event \in Event
    /\ inv[i].pc \in Judged => ~Incomplete(inv[i].seen)

(* It stays what was judged, read again or not. *)
StaysFresh == \A i \in Invocations : inv[i].pc \in Judged => Fresh(inv[i].seen)

(* What was seen of a file is what is there, or it has gone since.           *)
OnlyDisappears ==
  \A i \in Invocations, f \in File : Looked(i, f) => source[f] \in {None, inv[i].seen[f]}

(* Two invocations have seen the same, as far as they have seen anything.    *)
SeenAlike ==
  \A i, j \in Invocations, f \in File :
    Looked(i, f) /\ Looked(j, f) /\ None \notin {inv[i].seen[f], inv[j].seen[f]}
      => inv[i].seen[f] = inv[j].seen[f]

(* Whatever is under way is about the last upload, a chain.                  *)
AboutTheLast ==
  /\ ~Quiet => source.chain = None \/ source.chain.n = uploads
  /\ \A e \in events : e.of = uploads
  /\ \A i \in Invocations : inv[i].pc \in Steps =>
       /\ inv[i].event.of = uploads
       /\ Looked(i, "chain") => inv[i].seen.chain = None \/ inv[i].seen.chain.n = uploads

(* What an invocation has imported is in use, and is answered.               *)
InOrder(i) == inv[i].pc \in HasImported => acm = inv[i].seen /\ uploads \in answered

StepsInOrder == \A i \in Invocations : InOrder(i)

(* Only the last upload may still be waiting for an answer, and then its     *)
(* bundle is there.                                                          *)
Awaited ==
  /\ \A v \in asked \ answered : v = uploads /\ ~Quiet
  /\ uploads \in asked \ answered => ~Incomplete(source)

(* The certificate in use is fresh.                                          *)
UsedTogether == acm # Nothing => Fresh(acm)

CertInv ==
  /\ TypeOK /\ MemoryOK /\ StaysFresh
  /\ OnlyDisappears /\ SeenAlike /\ AboutTheLast /\ StepsInOrder /\ Awaited
  /\ UsedTogether

-----------------------------------------------------------------------------
(* The order of the files. *)
LEMMA Places ==
  /\ \A f \in File : Place(f) \in 1 .. 3
  /\ \A f, g \in File : Place(f) = Place(g) => f = g
  BY DEF Place, File

LEMMA FileOfPlace ==
  ASSUME TypeOK, NEW i \in Invocations
  PROVE  FileOf(i) \in File /\ Place(FileOf(i)) = inv[i].at
  <1>1. inv[i].at \in 1 .. 3
    BY DEF TypeOK, Memory
  <1>. QED
    BY <1>1 DEF FileOf, Files, File, Place

(* One invocation moves on, and the others stay as they are. *)
LEMMA AdvanceEffect ==
  ASSUME TypeOK, NEW i \in Invocations, NEW new \in Memory, new.at = inv[i].at,
         NEW after \in {"rest"} \cup Steps, Advance(i, new, after)
  PROVE  /\ inv' \in [Invocations -> Memory]
         /\ \A j \in Invocations \ {i} : inv'[j] = inv[j]
         /\ inv'[i].event = new.event /\ inv'[i].seen = new.seen
         /\ IF inv[i].at < 3 THEN inv'[i].pc = new.pc /\ inv'[i].at = inv[i].at + 1
                             ELSE inv'[i].pc = after /\ inv'[i].at = 1
  <1>. DEFINE on == [new EXCEPT !.at = new.at + 1]
              over == [new EXCEPT !.at = 1, !.pc = after]
              moved == IF inv[i].at < 3 THEN on ELSE over
  <1>1. inv' = [inv EXCEPT ![i] = moved]
    BY DEF Advance
  <1>2. new.at \in 1 .. 3
    BY DEF Memory
  <1>3. /\ new.at < 3 => on \in Memory
        /\ on.pc = new.pc /\ on.at = new.at + 1
        /\ on.event = new.event /\ on.seen = new.seen
    BY <1>2 DEF Memory
  <1>4. /\ over \in Memory
        /\ over.pc = after /\ over.at = 1
        /\ over.event = new.event /\ over.seen = new.seen
    <2>. DEFINE first == [new EXCEPT !.at = 1]
    <2>1. over = [first EXCEPT !.pc = after]
      OBVIOUS
    <2>. HIDE DEF over
    <2>2. /\ first \in Memory /\ first.at = 1
          /\ first.event = new.event /\ first.seen = new.seen
      BY DEF Memory
    <2>. HIDE DEF first
    <2>. QED
      BY <2>1, <2>2 DEF Memory
  <1>. HIDE DEF on, over
  <1>5. moved \in Memory
    BY <1>2, <1>3, <1>4
  <1>6. inv' \in [Invocations -> Memory] /\ inv'[i] = moved
    BY <1>1, <1>5 DEF TypeOK
  <1>. QED
    BY <1>1, <1>3, <1>4, <1>6 DEF TypeOK

LEMMA SeeingIsTyped ==
  ASSUME TypeOK, NEW i \in Invocations,
         NEW new, new = [inv[i] EXCEPT !.seen[FileOf(i)] = source[FileOf(i)]]
  PROVE  /\ new \in Memory /\ new.at = inv[i].at /\ new.pc = inv[i].pc
         /\ new.event = inv[i].event
         /\ new.seen = [inv[i].seen EXCEPT ![FileOf(i)] = source[FileOf(i)]]
  BY FileOfPlace DEF TypeOK, Memory

LEMMA GotoEffect ==
  ASSUME TypeOK, NEW i \in Invocations, NEW label \in {"rest"} \cup Steps,
         inv' = [inv EXCEPT ![i].pc = label]
  PROVE  /\ inv' \in [Invocations -> Memory]
         /\ \A j \in Invocations \ {i} : inv'[j] = inv[j]
         /\ inv'[i].pc = label /\ inv'[i].at = inv[i].at
         /\ inv'[i].event = inv[i].event /\ inv'[i].seen = inv[i].seen
  BY DEF TypeOK, Memory

LEMMA NothingIsSlots == Nothing \in [File -> Slot] /\ Resting \in Memory /\ Resting.pc = "rest"
  BY DEF Nothing, Slot, Resting, Memory

LEMMA FinishEffect ==
  ASSUME TypeOK, NEW i \in Invocations, Finish(i)
  PROVE  /\ inv' \in [Invocations -> Memory]
         /\ \A j \in Invocations \ {i} : inv'[j] = inv[j]
         /\ inv'[i] = Resting /\ inv'[i].pc = "rest"
  BY NothingIsSlots DEF TypeOK, Finish

(* An event that is tried again is the same event, with a try less.          *)
LEMMA TryAgainEffect ==
  ASSUME TypeOK, NEW i \in Invocations, inv[i].event \in Event, TryAgain(i)
  PROVE  /\ events' \subseteq Event /\ events \subseteq events'
         /\ \A e \in events' : e \in events \/ e.of = inv[i].event.of
         /\ events' = {} => inv[i].event.tries = 0
  <1>. DEFINE e == inv[i].event
              again == [e EXCEPT !.tries = e.tries - 1]
  <1>1. e.tries # 0 => again \in Event /\ again.of = e.of
    BY CertAssumption DEF Event
  <1>2. events' = IF e.tries = 0 THEN events ELSE events \cup {again}
    BY DEF TryAgain
  <1>. HIDE DEF again
  <1>. QED
    BY <1>1, <1>2 DEF TypeOK

(* Objects and their uploads.                                                *)
LEMMA Slots ==
  ASSUME NEW o \in Slot
  PROVE  /\ o # None => o \in Object /\ o.n \in Version /\ o.n # 0 /\ o.of \in Bundles
         /\ None.n = 0
  <1>1. o \in Object => o.n \in 1 .. MaxUploads /\ o.of \in Bundles
    BY DEF Object, Version
  <1>2. None.n = 0
    BY DEF None
  <1>. QED
    BY <1>1, <1>2 DEF Slot, Version

-----------------------------------------------------------------------------
(* Types. *)
TypeInv == TypeOK /\ MemoryOK

LEMMA TypeInvInit == Init => TypeInv
  <1>. SUFFICES ASSUME Init PROVE TypeInv
    OBVIOUS
  <1>1. TypeOK
    BY NothingIsSlots, CertAssumption DEF Init, TypeOK
  <1>2. MemoryOK
    BY DEF Init, MemoryOK, Resting, Judged, Steps
  <1>. QED
    BY <1>1, <1>2 DEF TypeInv

LEMMA MemoryStays ==
  ASSUME TypeInv, NEW i \in Invocations, \A j \in Invocations \ {i} : inv'[j] = inv[j],
         inv'[i].pc = "rest" => inv'[i] = Resting,
         inv'[i].pc \in Steps => inv'[i].event \in Event,
         inv'[i].pc \in Judged => ~Incomplete(inv'[i].seen)
  PROVE  MemoryOK'
  BY DEF TypeInv, MemoryOK

LEMMA FinishKeepsMemory ==
  ASSUME TypeInv, NEW i \in Invocations, Finish(i) PROVE inv' \in [Invocations -> Memory] /\ MemoryOK'
  <1>1. inv'[i].pc = "rest" /\ inv'[i] = Resting
    BY FinishEffect DEF TypeInv
  <1>. QED
    BY <1>1, FinishEffect, MemoryStays DEF TypeInv, Steps, Judged

(* The operator and the clock.                                               *)
LEMMA TypeOutside ==
  ASSUME TypeInv, Tick \/ Clear \/ \E f \in File, b \in Bundles : Upload(f, b) PROVE TypeInv'
  <1>1. CASE Tick
    BY <1>1, CertAssumption DEF Tick, TypeInv, TypeOK, s3, store, MemoryOK
  <1>2. CASE Clear
    BY <1>2, NothingIsSlots DEF Clear, TypeInv, TypeOK, store, MemoryOK
  <1>3. ASSUME NEW f \in File, NEW b \in Bundles, Upload(f, b) PROVE TypeInv'
    <2>1. uploads + 1 \in Version /\ clock \in 0 .. MaxTime
      BY <1>3, CertAssumption DEF Upload, TypeInv, TypeOK, Version
    <2>2. [n |-> uploads + 1, of |-> b, at |-> clock] \in Slot
      BY <2>1 DEF Slot, Object
    <2>3. events' \subseteq Event
      <3>1. \A c \in {1, 2} : [of |-> uploads + 1, copy |-> c, tries |-> Retries] \in Event
        BY <2>1, CertAssumption DEF Event
      <3>2. \A copies \in {1, 2} : 1 .. copies \subseteq {1, 2}
        OBVIOUS
      <3>. QED
        BY <1>3, <3>1, <3>2 DEF Upload, TypeInv, TypeOK
    <2>4. asked' \subseteq Version /\ overtaken' \subseteq Version
      BY <1>3, <2>1 DEF Upload, TypeInv, TypeOK
    <2>5. uploads' \in 0 .. MaxUploads /\ source' \in [File -> Slot]
      BY <1>3, <2>1, <2>2 DEF Upload, TypeInv, TypeOK, Version
    <2>6. UNCHANGED <<patient, clock, archive, acm, backup, inv, imported, removed, answered>>
      BY <1>3 DEF Upload, store
    <2>. QED
      BY <2>3, <2>4, <2>5, <2>6 DEF TypeInv, TypeOK, MemoryOK
  <1>. QED
    BY <1>1, <1>2, <1>3

(* An invocation that acts has an event.                                     *)
LEMMA ActsOnAnEvent ==
  ASSUME TypeInv, NEW i \in Invocations, inv[i].pc \in Steps
  PROVE  inv[i].event \in Event /\ inv[i].event.of \in Version
  <1>1. inv[i].event \in Event
    BY DEF TypeInv, MemoryOK
  <1>. QED
    BY <1>1 DEF Event

LEMMA ReportTypes ==
  ASSUME TypeInv, NEW i \in Invocations, inv[i].pc \in Steps, Report(i) PROVE TypeInv'
  <1>1. Finish(i) /\ answered' = answered \cup {inv[i].event.of}
    BY DEF Report, Notified
  <1>2. UNCHANGED <<patient, clock, uploads, overtaken, source, archive, acm, backup, events, imported, removed, asked>>
    BY DEF Report, Silent, Calm, s3, store
  <1>. QED
    BY <1>1, <1>2, FinishKeepsMemory, ActsOnAnEvent DEF TypeInv, TypeOK

LEMMA BreakTypes ==
  ASSUME TypeInv, NEW i \in Invocations, inv[i].pc \in Steps, Break(i) PROVE TypeInv'
  <1>1. Finish(i) /\ TryAgain(i) /\ answered' = answered \cup {inv[i].event.of}
    BY DEF Break, Notified
  <1>2. UNCHANGED <<patient, clock, uploads, overtaken, source, archive, acm, backup, imported, removed, asked>>
    BY DEF Break, Calm, s3, store
  <1>3. events' \subseteq Event
    BY <1>1, TryAgainEffect, ActsOnAnEvent DEF TypeInv
  <1>. QED
    BY <1>1, <1>2, <1>3, FinishKeepsMemory, ActsOnAnEvent DEF TypeInv, TypeOK

LEMMA StartTypes ==
  ASSUME TypeInv, NEW i \in Invocations, Start(i)
  PROVE  /\ TypeInv'
         /\ \A j \in Invocations \ {i} : inv'[j] = inv[j]
         /\ inv'[i].event \in events /\ inv'[i].pc = "head" /\ inv'[i].at = 1
  <1>1. PICK e \in events :
          /\ events' = events \ {e}
          /\ inv' = [inv EXCEPT ![i] = [Resting EXCEPT !.pc = "head", !.event = e]]
    BY DEF Start
  <1>. DEFINE first == [Resting EXCEPT !.pc = "head"]
              begun == [first EXCEPT !.event = e]
  <1>2. first \in Memory /\ first.pc = "head" /\ first.at = 1
    BY NothingIsSlots DEF Memory, Resting, Steps
  <1>3. e \in Event
    BY DEF TypeInv, TypeOK
  <1>4. begun \in Memory /\ begun.pc = "head" /\ begun.at = 1 /\ begun.event = e
    <2>. HIDE DEF first
    <2>. QED
      BY <1>2, <1>3 DEF Memory
  <1>5. inv' = [inv EXCEPT ![i] = begun]
    BY <1>1
  <1>. HIDE DEF begun
  <1>6. /\ inv' \in [Invocations -> Memory] /\ inv'[i] = begun
        /\ \A j \in Invocations \ {i} : inv'[j] = inv[j]
    BY <1>4, <1>5 DEF TypeInv, TypeOK
  <1>7. MemoryOK'
    BY <1>3, <1>4, <1>6, MemoryStays DEF Judged, Steps
  <1>8. UNCHANGED <<patient, clock, uploads, overtaken, source, archive, acm, backup, imported, removed, asked, answered>>
    BY DEF Start, Calm, s3, store
  <1>. QED
    BY <1>1, <1>4, <1>6, <1>7, <1>8 DEF TypeInv, TypeOK

(* Looking at a file, and reading one.                                       *)
LEMMA LookTypes ==
  ASSUME TypeInv, NEW i \in Invocations, LookAt(i) PROVE TypeInv'
  <1>. DEFINE new == [inv[i] EXCEPT !.seen[FileOf(i)] = source[FileOf(i)]]
  <1>1. inv[i].pc = "head" /\ Advance(i, new, "check")
    BY DEF LookAt, At
  <1>2. new \in Memory /\ new.at = inv[i].at /\ new.pc = inv[i].pc /\ new.event = inv[i].event
    BY SeeingIsTyped DEF TypeInv
  <1>. HIDE DEF new
  <1>3. /\ inv' \in [Invocations -> Memory]
        /\ \A j \in Invocations \ {i} : inv'[j] = inv[j]
        /\ inv'[i].event = inv[i].event /\ inv'[i].pc \in {"head", "check"}
    BY <1>1, <1>2, AdvanceEffect DEF TypeInv, Steps
  <1>4. MemoryOK'
    BY <1>1, <1>3, MemoryStays, ActsOnAnEvent DEF Judged, Steps
  <1>5. UNCHANGED <<patient, clock, uploads, overtaken, source, archive, acm, backup, events, imported, removed, asked,
                    answered>>
    BY DEF LookAt, Silent, Calm, s3, store
  <1>. QED
    BY <1>3, <1>4, <1>5 DEF TypeInv, TypeOK

LEMMA ReadTypes ==
  ASSUME TypeInv, NEW i \in Invocations, Read(i) PROVE TypeInv'
  <1>. DEFINE new == [inv[i] EXCEPT !.seen[FileOf(i)] = source[FileOf(i)]]
  <1>1. inv[i].pc = "read"
    BY DEF Read, At
  <1>2. CASE source[FileOf(i)] = None
    BY <1>1, <1>2, BreakTypes DEF Read, Steps
  <1>3. CASE source[FileOf(i)] # None
    <2>1. Advance(i, new, "import")
      BY <1>3 DEF Read
    <2>2. /\ new \in Memory /\ new.at = inv[i].at /\ new.pc = inv[i].pc /\ new.event = inv[i].event
          /\ new.seen = [inv[i].seen EXCEPT ![FileOf(i)] = source[FileOf(i)]]
      BY SeeingIsTyped DEF TypeInv
    <2>. HIDE DEF new
    <2>3. /\ inv' \in [Invocations -> Memory]
          /\ \A j \in Invocations \ {i} : inv'[j] = inv[j]
          /\ inv'[i].event = inv[i].event /\ inv'[i].pc \in {"read", "import"}
          /\ inv'[i].seen = new.seen
      BY <1>1, <2>1, <2>2, AdvanceEffect DEF TypeInv, Steps
    <2>4. ~Incomplete(inv'[i].seen)
      <3>1. ~Incomplete(inv[i].seen)
        BY <1>1 DEF TypeInv, MemoryOK, Judged, Steps
      <3>2. inv[i].seen \in [File -> Slot]
        BY DEF TypeInv, TypeOK, Memory
      <3>. QED
        BY <1>3, <2>2, <2>3, <3>1, <3>2 DEF Incomplete
    <2>5. MemoryOK'
      BY <1>1, <2>3, <2>4, MemoryStays, ActsOnAnEvent DEF Judged, Steps
    <2>6. UNCHANGED <<patient, clock, uploads, overtaken, source, archive, acm, backup, events, imported, removed,
                      asked, answered>>
      BY <1>3 DEF Read, Silent, Calm, s3, store
    <2>. QED
      BY <2>3, <2>5, <2>6 DEF TypeInv, TypeOK
  <1>. QED
    BY <1>2, <1>3

LEMMA CheckTypes ==
  ASSUME TypeInv, NEW i \in Invocations, Check(i) PROVE TypeInv'
  <1>1. inv[i].pc = "check"
    BY DEF Check, At
  <1>2. CASE Incomplete(inv[i].seen)
    BY <1>2, FinishKeepsMemory DEF Check, Silent, Calm, s3, store, TypeInv, TypeOK
  <1>3. CASE ~Incomplete(inv[i].seen) /\ ~Fresh(inv[i].seen)
    BY <1>1, <1>3, ReportTypes DEF Check, Steps
  <1>4. CASE ~Incomplete(inv[i].seen) /\ Fresh(inv[i].seen)
    <2>1. inv' = [inv EXCEPT ![i].pc = "read"]
      BY <1>4 DEF Check
    <2>2. /\ inv' \in [Invocations -> Memory]
          /\ \A j \in Invocations \ {i} : inv'[j] = inv[j]
          /\ inv'[i].pc = "read" /\ inv'[i].event = inv[i].event /\ inv'[i].seen = inv[i].seen
      BY <2>1, GotoEffect DEF TypeInv, Steps
    <2>3. MemoryOK'
      BY <1>1, <1>4, <2>2, MemoryStays, ActsOnAnEvent DEF Judged, Steps
    <2>4. UNCHANGED <<patient, clock, uploads, overtaken, source, archive, acm, backup, events, imported, removed,
                      asked, answered>>
      BY <1>4 DEF Check, Silent, Calm, s3, store
    <2>. QED
      BY <2>2, <2>3, <2>4 DEF TypeInv, TypeOK
  <1>. QED
    BY <1>2, <1>3, <1>4

(* A complete bundle is three objects.                                       *)
LEMMA JudgedAreObjects ==
  ASSUME TypeInv, NEW i \in Invocations, inv[i].pc \in Judged, NEW f \in File
  PROVE  /\ inv[i].seen[f] # None /\ inv[i].seen[f].n \in Version
         /\ inv[i].seen[f].n # 0 /\ inv[i].seen[f].of \in Bundles
  <1>1. inv[i].seen[f] # None /\ inv[i].seen[f] \in Slot
    BY DEF TypeInv, TypeOK, MemoryOK, Incomplete, Memory
  <1>. QED
    BY <1>1, Slots

LEMMA ImportTypes ==
  ASSUME TypeInv, NEW i \in Invocations, Import(i) PROVE TypeInv'
  <1>. DEFINE files == inv[i].seen
  <1>1. inv[i].pc = "import"
    BY DEF Import, At
  <1>2. CASE ~Valid(files) \/ DryRun
    BY <1>1, <1>2, ReportTypes DEF Import, Steps
  <1>3. CASE ~(~Valid(files) \/ DryRun)
    <2>1. /\ inv' = [inv EXCEPT ![i].pc = "backup"] /\ acm' = files
          /\ imported' = imported \cup {files[f].n : f \in File}
          /\ answered' = answered \cup {files.chain.n}
          /\ UNCHANGED <<patient, clock, uploads, overtaken, source, archive, backup, events, removed, asked>>
      BY <1>3 DEF Import, Silent, Calm, s3
    <2>2. /\ inv' \in [Invocations -> Memory]
          /\ \A j \in Invocations \ {i} : inv'[j] = inv[j]
          /\ inv'[i].pc = "backup" /\ inv'[i].event = inv[i].event /\ inv'[i].seen = files
      BY <2>1, GotoEffect DEF TypeInv, Steps
    <2>3. MemoryOK'
      BY <1>1, <2>2, MemoryStays, ActsOnAnEvent DEF Judged, Steps, TypeInv, MemoryOK
    <2>4. \A f \in File : files[f].n \in Version
      BY <1>1, JudgedAreObjects DEF Judged, Steps
    <2>5. "chain" \in File /\ files \in [File -> Slot]
      BY DEF File, TypeInv, TypeOK, Memory
    <2>6. files.chain = files["chain"]
      OBVIOUS
    <2>. HIDE DEF files
    <2>. QED
      BY <2>1, <2>2, <2>3, <2>4, <2>5, <2>6 DEF TypeInv, TypeOK
  <1>. QED
    BY <1>2, <1>3

LEMMA BackupTypes ==
  ASSUME TypeInv, NEW i \in Invocations, Backup(i) PROVE TypeInv'
  <1>1. /\ inv[i].pc = "backup" /\ inv' = [inv EXCEPT ![i].pc = "copy"]
        /\ backup' = backup \cup {Payload(inv[i].seen)}
        /\ UNCHANGED <<patient, clock, uploads, overtaken, source, archive, acm, events, imported, removed, asked, answered>>
    BY DEF Backup, At, Silent, Calm, s3
  <1>2. /\ inv' \in [Invocations -> Memory]
        /\ \A j \in Invocations \ {i} : inv'[j] = inv[j]
        /\ inv'[i].pc = "copy" /\ inv'[i].event = inv[i].event /\ inv'[i].seen = inv[i].seen
    BY <1>1, GotoEffect DEF TypeInv, Steps
  <1>3. MemoryOK'
    BY <1>1, <1>2, MemoryStays, ActsOnAnEvent DEF Judged, Steps, TypeInv, MemoryOK
  <1>4. Payload(inv[i].seen) \in [File -> Bundles]
    BY <1>1, JudgedAreObjects DEF Judged, Steps, Payload
  <1>. QED
    BY <1>1, <1>2, <1>3, <1>4 DEF TypeInv, TypeOK

(* From file to file, with what it has seen.                                 *)
LEMMA WalkTypes ==
  ASSUME TypeInv, NEW i \in Invocations, inv[i].pc \in Judged, NEW new \in Memory,
         new.at = inv[i].at, new.pc = inv[i].pc, new.event = inv[i].event, new.seen = inv[i].seen,
         NEW after \in Judged, Advance(i, new, after)
  PROVE  /\ inv' \in [Invocations -> Memory] /\ MemoryOK'
         /\ \A j \in Invocations \ {i} : inv'[j] = inv[j]
         /\ inv'[i].event = inv[i].event /\ inv'[i].seen = inv[i].seen
         /\ IF inv[i].at < 3 THEN inv'[i].pc = inv[i].pc /\ inv'[i].at = inv[i].at + 1
                             ELSE inv'[i].pc = after /\ inv'[i].at = 1
  <1>1. after \in {"rest"} \cup Steps /\ inv[i].pc \in Steps
    BY DEF Judged, Steps
  <1>2. /\ inv' \in [Invocations -> Memory]
        /\ \A j \in Invocations \ {i} : inv'[j] = inv[j]
        /\ inv'[i].event = inv[i].event /\ inv'[i].seen = inv[i].seen
        /\ IF inv[i].at < 3 THEN inv'[i].pc = inv[i].pc /\ inv'[i].at = inv[i].at + 1
                            ELSE inv'[i].pc = after /\ inv'[i].at = 1
    BY <1>1, AdvanceEffect DEF TypeInv
  <1>3. inv'[i].pc \in Judged /\ "rest" \notin Judged
    BY <1>2 DEF Judged, Steps
  <1>4. ~Incomplete(inv[i].seen) /\ inv[i].event \in Event
    BY <1>1, ActsOnAnEvent DEF TypeInv, MemoryOK
  <1>5. MemoryOK'
    BY <1>2, <1>3, <1>4, MemoryStays
  <1>. QED
    BY <1>2, <1>5

LEMMA MemoryOfOne ==
  ASSUME TypeInv, NEW i \in Invocations
  PROVE  inv[i] \in Memory /\ inv[i].at = inv[i].at
  BY DEF TypeInv, TypeOK

LEMMA CopyTypes ==
  ASSUME TypeInv, NEW i \in Invocations, Copy(i) PROVE TypeInv'
  <1>1. inv[i].pc = "copy" /\ inv[i].pc \in Judged /\ inv[i].pc \in Steps /\ "delete" \in Judged
    BY DEF Copy, At, Judged, Steps
  <1>2. CASE source[FileOf(i)] = None
    BY <1>1, <1>2, BreakTypes DEF Copy
  <1>3. CASE source[FileOf(i)] # None
    <2>1. /\ archive' = archive \cup {source[FileOf(i)].n} /\ Advance(i, inv[i], "delete")
          /\ UNCHANGED <<patient, clock, uploads, overtaken, source, acm, backup, events, imported, removed, asked, answered>>
      BY <1>3 DEF Copy, Silent, Calm, store
    <2>2. source[FileOf(i)].n \in Version
      BY <1>3, FileOfPlace, Slots DEF TypeInv, TypeOK
    <2>3. inv' \in [Invocations -> Memory] /\ MemoryOK'
      BY <1>1, <2>1, MemoryOfOne, WalkTypes
    <2>. QED
      BY <2>1, <2>2, <2>3 DEF TypeInv, TypeOK
  <1>. QED
    BY <1>2, <1>3

LEMMA BrokeIsTyped ==
  ASSUME TypeInv, NEW i \in Invocations, NEW new, new = [inv[i] EXCEPT !.broke = TRUE]
  PROVE  /\ new \in Memory /\ new.at = inv[i].at /\ new.pc = inv[i].pc
         /\ new.event = inv[i].event /\ new.seen = inv[i].seen
  BY DEF TypeInv, TypeOK, Memory

LEMMA DeleteTypes ==
  ASSUME TypeInv, NEW i \in Invocations, Delete(i)
  PROVE  /\ TypeInv'
         /\ \A j \in Invocations \ {i} : inv'[j] = inv[j]
         /\ inv'[i].event = inv[i].event /\ inv'[i].seen = inv[i].seen
         /\ IF inv[i].at < 3 THEN inv'[i].pc = inv[i].pc /\ inv'[i].at = inv[i].at + 1
                             ELSE inv'[i].pc = "report" /\ inv'[i].at = 1
  <1>1. inv[i].pc = "delete" /\ inv[i].pc \in Judged /\ "report" \in Judged
    BY DEF Delete, At, Judged, Steps
  <1>. DEFINE broken == [inv[i] EXCEPT !.broke = TRUE]
  <1>2. PICK new \in {inv[i], broken} : Advance(i, new, "report")
    BY DEF Delete
  <1>3. /\ new \in Memory /\ new.at = inv[i].at /\ new.pc = inv[i].pc
        /\ new.event = inv[i].event /\ new.seen = inv[i].seen
    BY MemoryOfOne, BrokeIsTyped
  <1>4. UNCHANGED <<patient, clock, uploads, overtaken, archive, acm, backup, events, imported, asked, answered>>
    BY DEF Delete, Silent, Calm, store
  <1>5. source' \in [File -> Slot] /\ removed' \subseteq Version
    <2>1. source[FileOf(i)] \in Slot /\ None \in Slot
      BY FileOfPlace DEF TypeInv, TypeOK, Slot
    <2>2. source[FileOf(i)].n \in Version \cup {0}
      BY <2>1, Slots
    <2>3. \/ /\ source' = [source EXCEPT ![FileOf(i)] = None]
             /\ removed' = removed \cup ({source[FileOf(i)].n} \ {0})
          \/ UNCHANGED <<source, removed>>
      BY DEF Delete
    <2>. QED
      BY <2>1, <2>2, <2>3 DEF TypeInv, TypeOK
  <1>6. /\ inv' \in [Invocations -> Memory] /\ MemoryOK'
        /\ \A j \in Invocations \ {i} : inv'[j] = inv[j]
        /\ inv'[i].event = inv[i].event /\ inv'[i].seen = inv[i].seen
        /\ IF inv[i].at < 3 THEN inv'[i].pc = inv[i].pc /\ inv'[i].at = inv[i].at + 1
                            ELSE inv'[i].pc = "report" /\ inv'[i].at = 1
    BY <1>1, <1>2, <1>3, WalkTypes
  <1>. QED
    BY <1>4, <1>5, <1>6 DEF TypeInv, TypeOK

LEMMA EndTypes ==
  ASSUME TypeInv, NEW i \in Invocations, Conclude(i) \/ Fail(i) \/ Crash(i) PROVE TypeInv'
  <1>1. inv[i].pc \in {"rest"} \cup Steps
    BY DEF TypeInv, TypeOK, Memory
  <1>2. CASE Conclude(i)
    BY <1>2, ReportTypes, BreakTypes DEF Conclude, At, Steps
  <1>3. CASE Fail(i)
    <2>1. inv[i].pc \in Steps
      BY <1>1, <1>3, CertAssumption DEF Fail, Steps
    <2>. QED
      BY <1>3, <2>1, BreakTypes DEF Fail
  <1>4. CASE Crash(i)
    <2>1. inv[i].pc \in Steps
      BY <1>1, <1>4 DEF Crash, At
    <2>2. Finish(i) /\ TryAgain(i) /\ answered' \subseteq answered \cup {inv[i].event.of}
      BY <1>4 DEF Crash
    <2>3. UNCHANGED <<patient, clock, uploads, overtaken, source, archive, acm, backup, imported, removed, asked>>
      BY <1>4 DEF Crash, Calm, s3, store
    <2>4. events' \subseteq Event
      BY <2>1, <2>2, TryAgainEffect, ActsOnAnEvent DEF TypeInv
    <2>. QED
      BY <2>1, <2>2, <2>3, <2>4, FinishKeepsMemory, ActsOnAnEvent DEF TypeInv, TypeOK
  <1>. QED
    BY <1>2, <1>3, <1>4

LEMMA TypeInvStep == TypeInv /\ [Next]_vars => TypeInv'
  <1>. SUFFICES ASSUME TypeInv, [Next]_vars PROVE TypeInv'
    OBVIOUS
  <1>1. ASSUME NEW i \in Invocations, handleRecord(i) PROVE TypeInv'
    BY <1>1, StartTypes, LookTypes, CheckTypes, ReadTypes, ImportTypes, BackupTypes, CopyTypes,
       DeleteTypes, EndTypes DEF handleRecord
  <1>2. CASE UNCHANGED vars
    BY <1>2 DEF vars, TypeInv, TypeOK, MemoryOK
  <1>. QED
    BY <1>1, <1>2, TypeOutside DEF Next

LEMMA TypeInvHolds == Spec => []TypeInv
  BY TypeInvInit, TypeInvStep, PTL DEF Spec

-----------------------------------------------------------------------------
(* One bundle at a time, for an operator who waits.                          *)

LEMMA CertInvIsTyped == CertInv => TypeInv
  BY DEF CertInv, TypeInv

LEMMA CertInvInit == Init => CertInv
  <1>. SUFFICES ASSUME Init PROVE CertInv
    OBVIOUS
  <1>1. TypeOK /\ MemoryOK
    BY TypeInvInit DEF TypeInv
  <1>2. \A i \in Invocations : inv[i].pc = "rest" /\ inv[i].pc \notin Steps
    BY DEF Init, Resting, Steps
  <1>3. acm = Nothing /\ events = {} /\ asked = {} /\ removed = {}
    BY DEF Init
  <1>4. StaysFresh /\ OnlyDisappears /\ SeenAlike
    BY <1>2 DEF StaysFresh, OnlyDisappears, SeenAlike, Looked, Judged
  <1>5. Quiet
    BY DEF Init, Quiet
  <1>6. AboutTheLast
    BY <1>2, <1>3, <1>5 DEF AboutTheLast
  <1>7. StepsInOrder
    BY <1>2 DEF StepsInOrder, InOrder, HasImported, Judged, Steps
  <1>8. Awaited /\ UsedTogether
    BY <1>3 DEF Awaited, UsedTogether
  <1>. QED
    BY <1>1, <1>4, <1>6, <1>7, <1>8 DEF CertInv

LEMMA BusyIsNotQuiet ==
  ASSUME NEW i \in Invocations, inv[i].pc \in Steps PROVE ~Quiet
  BY DEF Quiet, Resting, Steps

(* Whoever has judged a bundle saw the same one.                             *)
LEMMA JudgedAlike ==
  ASSUME CertInv, NEW i \in Invocations, NEW j \in Invocations,
         inv[i].pc \in Judged, inv[j].pc \in Judged
  PROVE  inv[i].seen = inv[j].seen
  <1>1. inv[i].seen \in [File -> Slot] /\ inv[j].seen \in [File -> Slot]
    BY DEF CertInv, TypeOK, Memory
  <1>2. ASSUME NEW f \in File PROVE inv[i].seen[f] = inv[j].seen[f]
    <2>1. Looked(i, f) /\ Looked(j, f)
      BY DEF Looked, Judged, Steps
    <2>2. None \notin {inv[i].seen[f], inv[j].seen[f]}
      BY JudgedAreObjects, CertInvIsTyped
    <2>. QED
      BY <2>1, <2>2 DEF CertInv, SeenAlike
  <1>. QED
    BY <1>1, <1>2

(* What an invocation may do, whoever else is at it.                         *)
Sees(i) ==
  \A f \in File : Looked(i, f)' =>
    \/ Looked(i, f) /\ inv'[i].seen[f] = inv[i].seen[f]
    \/ inv'[i].seen[f] = source[f]

StillAnswered == answered \subseteq answered'

LEMMA SightStep ==
  ASSUME CertInv, NEW i \in Invocations, \A j \in Invocations \ {i} : inv'[j] = inv[j],
         \A f \in File : source'[f] \in {None, source[f]}, Sees(i)
  PROVE  OnlyDisappears' /\ SeenAlike'
  <1>1. ASSUME NEW j \in Invocations, NEW f \in File, Looked(j, f)'
        PROVE  \/ j # i /\ Looked(j, f) /\ inv'[j] = inv[j]
               \/ j = i /\ (Looked(i, f) /\ inv'[i].seen[f] = inv[i].seen[f])
               \/ j = i /\ inv'[i].seen[f] = source[f]
    BY <1>1 DEF Sees, Looked
  <1>2. OnlyDisappears'
    <2>1. ASSUME NEW j \in Invocations, NEW f \in File, Looked(j, f)'
          PROVE  source'[f] \in {None, inv'[j].seen[f]}
      <3>1. source'[f] = None \/ source'[f] = source[f]
        OBVIOUS
      <3>. QED
        BY <1>1, <2>1, <3>1 DEF CertInv, OnlyDisappears
    <2>. QED
      BY <2>1 DEF OnlyDisappears
  <1>3. SeenAlike'
    <2>1. ASSUME NEW j \in Invocations, NEW k \in Invocations, NEW f \in File,
                 Looked(j, f)', Looked(k, f)',
                 inv'[j].seen[f] # None, inv'[k].seen[f] # None
          PROVE  inv'[j].seen[f] = inv'[k].seen[f]
      <3>1. (Looked(j, f) /\ inv'[j].seen[f] = inv[j].seen[f]) \/ inv'[j].seen[f] = source[f]
        BY <1>1, <2>1
      <3>2. (Looked(k, f) /\ inv'[k].seen[f] = inv[k].seen[f]) \/ inv'[k].seen[f] = source[f]
        BY <1>1, <2>1
      <3>. QED
        BY <2>1, <3>1, <3>2 DEF CertInv, OnlyDisappears, SeenAlike
    <2>. QED
      BY <2>1 DEF SeenAlike
  <1>. QED
    BY <1>2, <1>3

LEMMA AboutStep ==
  ASSUME CertInv, NEW i \in Invocations, \A j \in Invocations \ {i} : inv'[j] = inv[j],
         \A f \in File : source'[f] \in {None, source[f]}, Sees(i),
         ~Quiet, uploads' = uploads, \A e \in events' : e.of = uploads,
         inv'[i].pc \in Steps => inv'[i].event.of = uploads
  PROVE  AboutTheLast'
  <1>1. "chain" \in File
    BY DEF File
  <1>2. source["chain"] = None \/ source["chain"].n = uploads
    BY DEF CertInv, AboutTheLast
  <1>3. source'["chain"] = None \/ source'["chain"].n = uploads
    BY <1>1, <1>2
  <1>4. ASSUME NEW j \in Invocations, inv'[j].pc \in Steps
        PROVE  /\ inv'[j].event.of = uploads
               /\ Looked(j, "chain")' =>
                    inv'[j].seen["chain"] = None \/ inv'[j].seen["chain"].n = uploads
    <2>1. CASE j # i
      BY <1>4, <2>1 DEF CertInv, AboutTheLast, Looked
    <2>2. CASE j = i
      <3>1. ASSUME Looked(i, "chain")'
            PROVE  inv'[i].seen["chain"] = None \/ inv'[i].seen["chain"].n = uploads
        <4>1. CASE Looked(i, "chain") /\ inv'[i].seen["chain"] = inv[i].seen["chain"]
          BY <4>1 DEF CertInv, AboutTheLast, Looked
        <4>. QED
          BY <1>1, <1>2, <3>1, <4>1 DEF Sees
      <3>. QED
        BY <1>4, <2>2, <3>1
    <2>. QED
      BY <2>1, <2>2
  <1>. QED
    BY <1>3, <1>4 DEF AboutTheLast

LEMMA OrderStep ==
  ASSUME CertInv, NEW i \in Invocations, \A j \in Invocations \ {i} : inv'[j] = inv[j],
         StillAnswered, uploads' = uploads,
         acm' = acm \/ (acm' = inv[i].seen /\ inv[i].pc \in Judged), InOrder(i)'
  PROVE  StepsInOrder'
  <1>1. ASSUME NEW j \in Invocations \ {i} PROVE InOrder(j)'
    <2>1. InOrder(j)
      BY DEF CertInv, StepsInOrder
    <2>2. inv[j].pc \in HasImported => inv[j].pc \in Judged
      BY DEF HasImported
    <2>3. inv[j].pc \in HasImported => acm' = inv[j].seen
      BY <2>1, <2>2, JudgedAlike DEF InOrder
    <2>. QED
      BY <2>1, <2>3 DEF InOrder, StillAnswered
  <1>. QED
    BY <1>1 DEF StepsInOrder

LEMMA AwaitedStep ==
  ASSUME CertInv, uploads' = uploads, asked' = asked, StillAnswered,
         Quiet' => uploads \notin asked \ answered',
         source' = source \/ uploads \in answered
  PROVE  Awaited'
  <1>1. \A v \in asked \ answered' : v = uploads
    BY DEF CertInv, Awaited, StillAnswered
  <1>2. uploads \in asked \ answered' => ~Incomplete(source')
    BY DEF CertInv, Awaited, StillAnswered
  <1>. QED
    BY <1>1, <1>2 DEF Awaited, Incomplete

LEMMA OneStep ==
  ASSUME CertInv, TypeInv', NEW i \in Invocations, ~Quiet,
         \A j \in Invocations \ {i} : inv'[j] = inv[j],
         uploads' = uploads, asked' = asked, StillAnswered,
         \A f \in File : source'[f] \in {None, source[f]}, Sees(i),
         source' = source \/ uploads \in answered,
         \A e \in events' : e.of = uploads,
         inv'[i].pc \in Steps => inv'[i].event.of = uploads,
         inv'[i].pc \in Judged => Fresh(inv'[i].seen),
         acm' = acm \/ (acm' = inv[i].seen /\ inv[i].pc \in Judged), InOrder(i)',
         Quiet' => uploads \notin asked \ answered'
  PROVE  CertInv'
  <1>1. OnlyDisappears' /\ SeenAlike'
    BY SightStep
  <1>2. AboutTheLast'
    BY AboutStep
  <1>3. StepsInOrder'
    BY OrderStep
  <1>4. Awaited'
    BY AwaitedStep
  <1>5. StaysFresh'
    BY DEF CertInv, StaysFresh
  <1>6. UsedTogether'
    BY DEF CertInv, StaysFresh, Fresh, UsedTogether
  <1>. QED
    BY <1>1, <1>2, <1>3, <1>4, <1>5, <1>6 DEF CertInv, TypeInv

(* The event an invocation handles is the last upload's.                     *)
LEMMA HandlesTheLast ==
  ASSUME CertInv, NEW i \in Invocations, inv[i].pc \in Steps
  PROVE  /\ inv[i].event.of = uploads /\ ~Quiet /\ \A e \in events : e.of = uploads
         /\ uploads \in Nat /\ InOrder(i)
  BY BusyIsNotQuiet DEF CertInv, AboutTheLast, TypeOK, StepsInOrder

(* An invocation ends: reported, broken off, stopped, or with nothing to do. *)
LEMMA Ending ==
  ASSUME CertInv, TypeInv', NEW i \in Invocations, inv[i].pc \in Steps, Finish(i),
         UNCHANGED <<patient, clock, uploads, overtaken, source, archive, acm, backup, imported, removed, asked>>,
         answered \subseteq answered', UNCHANGED events \/ TryAgain(i),
         \/ uploads \in answered'
         \/ Incomplete(source)
         \/ TryAgain(i) /\ inv[i].event.tries # 0
  PROVE  CertInv'
  <1>1. /\ inv'[i] = Resting /\ inv'[i].pc = "rest"
        /\ \A j \in Invocations \ {i} : inv'[j] = inv[j]
    BY FinishEffect, CertInvIsTyped DEF TypeInv
  <1>2. inv[i].event \in Event
    BY ActsOnAnEvent, CertInvIsTyped
  <1>3. \A e \in events' : e.of = uploads
    BY <1>2, TryAgainEffect, HandlesTheLast DEF CertInv
  <1>4. Sees(i)
    BY <1>1 DEF Sees, Looked, Steps
  <1>5. InOrder(i)'
    BY <1>1 DEF InOrder, HasImported, Judged, Steps
  <1>6. Quiet' => uploads \notin asked \ answered'
    <2>1. CASE Incomplete(source)
      BY <2>1 DEF CertInv, Awaited
    <2>2. CASE TryAgain(i) /\ inv[i].event.tries # 0
      BY <1>2, <2>2, TryAgainEffect DEF CertInv, Quiet
    <2>. QED
      BY <2>1, <2>2
  <1>7. StillAnswered
    BY DEF StillAnswered
  <1>8. inv'[i].pc \notin Steps /\ inv'[i].pc \notin Judged
    BY <1>1 DEF Steps, Judged
  <1>9. \A f \in File : source'[f] \in {None, source[f]}
    OBVIOUS
  <1>. QED
    BY <1>1, <1>3, <1>4, <1>5, <1>6, <1>7, <1>8, <1>9, HandlesTheLast, OneStep

LEMMA Reporting ==
  ASSUME CertInv, TypeInv', NEW i \in Invocations, inv[i].pc \in Steps, Report(i) \/ Break(i)
  PROVE  CertInv'
  <1>1. /\ Finish(i) /\ answered' = answered \cup {inv[i].event.of}
        /\ UNCHANGED events \/ TryAgain(i)
        /\ UNCHANGED <<patient, clock, uploads, overtaken, source, archive, acm, backup, imported, removed, asked>>
    BY DEF Report, Break, Notified, Silent, Calm, s3, store
  <1>2. uploads \in answered' /\ answered \subseteq answered'
    BY <1>1, HandlesTheLast
  <1>. QED
    BY <1>1, <1>2, Ending

LEMMA StartInv ==
  ASSUME CertInv, TypeInv', NEW i \in Invocations, Start(i) PROVE CertInv'
  <1>1. /\ \A j \in Invocations \ {i} : inv'[j] = inv[j]
        /\ inv'[i].event \in events /\ inv'[i].pc = "head" /\ inv'[i].at = 1
    BY StartTypes, CertInvIsTyped
  <1>2. /\ UNCHANGED <<patient, clock, uploads, overtaken, source, archive, acm, backup, imported, removed, asked, answered>>
        /\ events' \subseteq events
    BY DEF Start, Calm, s3, store
  <1>3. ~Quiet /\ ~Quiet'
    BY <1>1, BusyIsNotQuiet DEF Quiet, Resting
  <1>4. \A e \in events : e.of = uploads
    BY DEF CertInv, AboutTheLast
  <1>5. Sees(i)
    <2>1. \A f \in File : ~Looked(i, f)'
      BY <1>1, Places DEF Looked
    <2>. QED
      BY <2>1 DEF Sees
  <1>6. InOrder(i)'
    BY <1>1 DEF InOrder, HasImported, Judged, Steps
  <1>7. inv'[i].pc \notin Judged
    BY <1>1 DEF Steps, Judged
  <1>8. StillAnswered
    BY <1>2 DEF StillAnswered
  <1>9. \A f \in File : source'[f] \in {None, source[f]}
    BY <1>2
  <1>. QED
    BY <1>1, <1>2, <1>3, <1>4, <1>5, <1>6, <1>7, <1>8, <1>9, OneStep

LEMMA LookInv ==
  ASSUME CertInv, TypeInv', NEW i \in Invocations, LookAt(i) PROVE CertInv'
  <1>. DEFINE new == [inv[i] EXCEPT !.seen[FileOf(i)] = source[FileOf(i)]]
  <1>1. /\ inv[i].pc = "head" /\ inv[i].pc \in Steps /\ Advance(i, new, "check")
        /\ UNCHANGED <<patient, clock, uploads, overtaken, source, archive, acm, backup, events, imported, removed, asked,
                      answered>>
    BY DEF LookAt, At, Silent, Calm, s3, store, Steps
  <1>2. /\ new \in Memory /\ new.at = inv[i].at /\ new.pc = inv[i].pc /\ new.event = inv[i].event
        /\ new.seen = [inv[i].seen EXCEPT ![FileOf(i)] = source[FileOf(i)]]
    BY SeeingIsTyped DEF CertInv
  <1>. HIDE DEF new
  <1>3. /\ \A j \in Invocations \ {i} : inv'[j] = inv[j]
        /\ inv'[i].event = inv[i].event /\ inv'[i].seen = new.seen
        /\ IF inv[i].at < 3 THEN inv'[i].pc = "head" /\ inv'[i].at = inv[i].at + 1
                            ELSE inv'[i].pc = "check" /\ inv'[i].at = 1
    BY <1>1, <1>2, AdvanceEffect DEF CertInv, Steps
  <1>4. inv[i].at \in 1 .. 3 /\ inv[i].seen \in [File -> Slot]
    BY DEF CertInv, TypeOK, Memory
  <1>5. Sees(i)
    <2>1. ASSUME NEW f \in File, Looked(i, f)', f # FileOf(i) PROVE Looked(i, f)
      <3>1. Place(f) # inv[i].at /\ Place(f) \in 1 .. 3
        BY <2>1, FileOfPlace, Places DEF CertInv
      <3>. QED
        BY <1>1, <1>3, <1>4, <2>1, <3>1 DEF Looked
    <2>2. \A f \in File : inv'[i].seen[f] = IF f = FileOf(i) THEN source[f] ELSE inv[i].seen[f]
      BY <1>2, <1>3, <1>4
    <2>. QED
      BY <2>1, <2>2 DEF Sees
  <1>6. inv'[i].pc \notin Judged /\ inv'[i].pc \in Steps
    BY <1>3 DEF Steps, Judged
  <1>7. InOrder(i)'
    BY <1>3 DEF InOrder, HasImported, Judged, Steps
  <1>8. StillAnswered /\ ~Quiet'
    BY <1>1, <1>6, BusyIsNotQuiet DEF StillAnswered, Quiet, Resting, Steps
  <1>9. \A f \in File : source'[f] \in {None, source[f]}
    BY <1>1
  <1>. QED
    BY <1>1, <1>3, <1>5, <1>6, <1>7, <1>8, <1>9, HandlesTheLast, OneStep

LEMMA SeesOn ==
  ASSUME NEW i \in Invocations, inv[i].pc \in Steps \ {"head"}, inv'[i].seen = inv[i].seen
  PROVE  Sees(i)
  BY DEF Sees, Looked

LEMMA CheckInv ==
  ASSUME CertInv, TypeInv', NEW i \in Invocations, Check(i) PROVE CertInv'
  <1>1. inv[i].pc = "check" /\ inv[i].pc \in Steps \ {"head"}
    BY DEF Check, At, Steps
  <1>2. CASE Incomplete(inv[i].seen)
    <2>1. Incomplete(source)
      <3>1. PICK f \in File : inv[i].seen[f] = None
        BY <1>2 DEF Incomplete
      <3>2. Looked(i, f)
        BY <1>1 DEF Looked
      <3>. QED
        BY <3>1, <3>2 DEF CertInv, OnlyDisappears, Incomplete
    <2>2. /\ Finish(i)
          /\ UNCHANGED <<patient, clock, uploads, overtaken, source, archive, acm, backup, imported, removed, asked,
                        events, answered>>
      BY <1>2 DEF Check, Silent, Calm, s3, store, CertInv, TypeOK
    <2>. QED
      BY <1>1, <2>1, <2>2, Ending
  <1>3. CASE ~Incomplete(inv[i].seen) /\ ~Fresh(inv[i].seen)
    BY <1>1, <1>3, Reporting DEF Check
  <1>4. CASE ~Incomplete(inv[i].seen) /\ Fresh(inv[i].seen)
    <2>1. /\ inv' = [inv EXCEPT ![i].pc = "read"]
          /\ UNCHANGED <<patient, clock, uploads, overtaken, source, archive, acm, backup, events, imported, removed,
                        asked, answered>>
      BY <1>4 DEF Check, Silent, Calm, s3, store
    <2>2. /\ \A j \in Invocations \ {i} : inv'[j] = inv[j]
          /\ inv'[i].pc = "read" /\ inv'[i].event = inv[i].event /\ inv'[i].seen = inv[i].seen
      BY <2>1, GotoEffect DEF CertInv, Steps
    <2>3. Sees(i)
      BY <1>1, <2>2, SeesOn
    <2>4. InOrder(i)' /\ StillAnswered /\ ~Quiet'
      BY <2>1, <2>2 DEF InOrder, HasImported, Judged, Steps, StillAnswered, Quiet, Resting
    <2>5. \A f \in File : source'[f] \in {None, source[f]}
      BY <2>1
    <2>6. Fresh(inv'[i].seen)
      BY <1>4, <2>2
    <2>. QED
      BY <1>1, <2>1, <2>2, <2>3, <2>4, <2>5, <2>6, HandlesTheLast, OneStep
  <1>. QED
    BY <1>2, <1>3, <1>4

(* What is read is what was seen: it has not gone, and nothing else came.    *)
LEMMA ReadInv ==
  ASSUME CertInv, TypeInv', NEW i \in Invocations, Read(i) PROVE CertInv'
  <1>. DEFINE new == [inv[i] EXCEPT !.seen[FileOf(i)] = source[FileOf(i)]]
  <1>1. inv[i].pc = "read" /\ inv[i].pc \in Steps \ {"head"} /\ inv[i].pc \in Judged
    BY DEF Read, At, Steps, Judged
  <1>2. CASE source[FileOf(i)] = None
    BY <1>1, <1>2, Reporting DEF Read
  <1>3. CASE source[FileOf(i)] # None
    <2>1. /\ Advance(i, new, "import")
          /\ UNCHANGED <<patient, clock, uploads, overtaken, source, archive, acm, backup, events, imported, removed,
                        asked, answered>>
      BY <1>3 DEF Read, Silent, Calm, s3, store
    <2>2. /\ new \in Memory /\ new.at = inv[i].at /\ new.pc = inv[i].pc /\ new.event = inv[i].event
          /\ new.seen = [inv[i].seen EXCEPT ![FileOf(i)] = source[FileOf(i)]]
      BY SeeingIsTyped DEF CertInv
    <2>3. new.seen = inv[i].seen
      <3>1. FileOf(i) \in File /\ Looked(i, FileOf(i))
        BY <1>1, FileOfPlace DEF CertInv, Looked
      <3>2. source[FileOf(i)] = inv[i].seen[FileOf(i)]
        BY <1>3, <3>1 DEF CertInv, OnlyDisappears
      <3>3. inv[i].seen \in [File -> Slot]
        BY DEF CertInv, TypeOK, Memory
      <3>. HIDE DEF new
      <3>. QED
        BY <2>2, <3>1, <3>2, <3>3
    <2>. HIDE DEF new
    <2>4. /\ \A j \in Invocations \ {i} : inv'[j] = inv[j]
          /\ inv'[i].event = inv[i].event /\ inv'[i].pc \in {"read", "import"}
          /\ inv'[i].seen = inv[i].seen /\ (inv'[i].pc = "import" => inv'[i].at = 1)
      BY <1>1, <2>1, <2>2, <2>3, AdvanceEffect DEF CertInv, Steps
    <2>5. Sees(i)
      BY <1>1, <2>4, SeesOn
    <2>6. InOrder(i)' /\ StillAnswered /\ ~Quiet'
      BY <2>1, <2>4 DEF InOrder, HasImported, Judged, Steps, StillAnswered, Quiet, Resting
    <2>7. \A f \in File : source'[f] \in {None, source[f]}
      BY <2>1
    <2>8. Fresh(inv'[i].seen)
      BY <1>1, <2>4 DEF CertInv, StaysFresh
    <2>. QED
      BY <1>1, <2>1, <2>4, <2>5, <2>6, <2>7, <2>8, HandlesTheLast, OneStep
  <1>. QED
    BY <1>2, <1>3

LEMMA ImportInv ==
  ASSUME CertInv, TypeInv', NEW i \in Invocations, Import(i) PROVE CertInv'
  <1>. DEFINE files == inv[i].seen
  <1>1. inv[i].pc = "import" /\ inv[i].pc \in Steps \ {"head"} /\ inv[i].pc \in Judged
    BY DEF Import, At, Steps, Judged
  <1>2. CASE ~Valid(files) \/ DryRun
    BY <1>1, <1>2, Reporting DEF Import
  <1>3. CASE ~(~Valid(files) \/ DryRun)
    <2>1. /\ inv' = [inv EXCEPT ![i].pc = "backup"] /\ acm' = files
          /\ imported' = imported \cup {files[f].n : f \in File}
          /\ answered' = answered \cup {files.chain.n}
          /\ UNCHANGED <<patient, clock, uploads, overtaken, source, archive, backup, events, removed, asked>>
      BY <1>3 DEF Import, Silent, Calm, s3
    <2>2. /\ \A j \in Invocations \ {i} : inv'[j] = inv[j]
          /\ inv'[i].pc = "backup" /\ inv'[i].event = inv[i].event /\ inv'[i].seen = files
      BY <2>1, GotoEffect DEF CertInv, Steps
    <2>3. files.chain.n = uploads
      <3>1. "chain" \in File
        BY DEF File
      <3>2. Looked(i, "chain") /\ files["chain"] # None
        BY <1>1, <3>1, JudgedAreObjects, CertInvIsTyped DEF Looked
      <3>. QED
        BY <1>1, <3>2 DEF CertInv, AboutTheLast
    <2>4. InOrder(i)'
      BY <2>1, <2>2, <2>3 DEF InOrder
    <2>5. Sees(i) /\ StillAnswered /\ ~Quiet'
      BY <1>1, <2>1, <2>2, SeesOn DEF StillAnswered, Quiet, Resting
    <2>6. \A f \in File : source'[f] \in {None, source[f]}
      BY <2>1
    <2>7. Fresh(inv'[i].seen)
      BY <1>1, <2>2 DEF CertInv, StaysFresh
    <2>. HIDE DEF files
    <2>9. acm' = inv[i].seen /\ inv[i].pc \in Judged
      BY <1>1, <2>1 DEF files
    <2>. QED
      BY <1>1, <2>1, <2>2, <2>4, <2>5, <2>6, <2>7, <2>9, HandlesTheLast, OneStep
  <1>. QED
    BY <1>2, <1>3

LEMMA BackupInv ==
  ASSUME CertInv, TypeInv', NEW i \in Invocations, Backup(i) PROVE CertInv'
  <1>1. /\ inv[i].pc = "backup" /\ inv[i].pc \in Steps \ {"head"} /\ inv[i].pc \in HasImported
        /\ inv[i].pc \in Judged /\ inv' = [inv EXCEPT ![i].pc = "copy"]
        /\ backup' = backup \cup {Payload(inv[i].seen)}
        /\ UNCHANGED <<patient, clock, uploads, overtaken, source, archive, acm, events, imported, removed, asked, answered>>
    BY DEF Backup, At, Silent, Calm, s3, Steps, Judged, HasImported
  <1>2. /\ \A j \in Invocations \ {i} : inv'[j] = inv[j]
        /\ inv'[i].pc = "copy" /\ inv'[i].event = inv[i].event /\ inv'[i].seen = inv[i].seen
        /\ inv'[i].at = inv[i].at
    BY <1>1, GotoEffect DEF CertInv, Steps
  <1>4. InOrder(i)'
    BY <1>1, <1>2, HandlesTheLast DEF InOrder
  <1>5. Sees(i) /\ StillAnswered /\ ~Quiet'
    BY <1>1, <1>2, SeesOn DEF StillAnswered, Quiet, Resting
  <1>6. \A f \in File : source'[f] \in {None, source[f]}
    BY <1>1
  <1>7. Fresh(inv'[i].seen)
    BY <1>1, <1>2 DEF CertInv, StaysFresh
  <1>. QED
    BY <1>1, <1>2, <1>4, <1>5, <1>6, <1>7, HandlesTheLast, OneStep

LEMMA CopyInv ==
  ASSUME CertInv, TypeInv', NEW i \in Invocations, Copy(i) PROVE CertInv'
  <1>1. /\ inv[i].pc = "copy" /\ inv[i].pc \in Steps \ {"head"} /\ inv[i].pc \in HasImported
        /\ inv[i].pc \in Judged /\ "delete" \in Judged
    BY DEF Copy, At, Steps, Judged, HasImported
  <1>2. CASE source[FileOf(i)] = None
    BY <1>1, <1>2, Reporting DEF Copy
  <1>3. CASE source[FileOf(i)] # None
    <2>1. /\ archive' = archive \cup {source[FileOf(i)].n} /\ Advance(i, inv[i], "delete")
          /\ UNCHANGED <<patient, clock, uploads, overtaken, source, acm, backup, events, imported, removed, asked, answered>>
      BY <1>3 DEF Copy, Silent, Calm, store
    <2>2. /\ \A j \in Invocations \ {i} : inv'[j] = inv[j]
          /\ inv'[i].event = inv[i].event /\ inv'[i].seen = inv[i].seen
          /\ IF inv[i].at < 3 THEN inv'[i].pc = "copy" /\ inv'[i].at = inv[i].at + 1
                              ELSE inv'[i].pc = "delete" /\ inv'[i].at = 1
      BY <1>1, <2>1, MemoryOfOne, WalkTypes, CertInvIsTyped
    <2>4. InOrder(i)'
      BY <1>1, <2>1, <2>2, HandlesTheLast DEF InOrder
    <2>5. Sees(i) /\ StillAnswered /\ ~Quiet'
      BY <1>1, <2>1, <2>2, SeesOn DEF StillAnswered, Quiet, Resting
    <2>6. \A f \in File : source'[f] \in {None, source[f]}
      BY <2>1
    <2>7. Fresh(inv'[i].seen)
      BY <1>1, <2>2 DEF CertInv, StaysFresh
    <2>. QED
      BY <1>1, <2>1, <2>2, <2>4, <2>5, <2>6, <2>7, HandlesTheLast, OneStep
  <1>. QED
    BY <1>2, <1>3

LEMMA DeleteInv ==
  ASSUME CertInv, TypeInv', NEW i \in Invocations, Delete(i) PROVE CertInv'
  <1>1. /\ inv[i].pc = "delete" /\ inv[i].pc \in Steps \ {"head"} /\ inv[i].pc \in HasImported
        /\ inv[i].pc \in Judged
        /\ UNCHANGED <<patient, clock, uploads, overtaken, archive, acm, backup, events, imported, asked, answered>>
    BY DEF Delete, At, Silent, Calm, store, Steps, Judged, HasImported
  <1>2. /\ \A j \in Invocations \ {i} : inv'[j] = inv[j]
        /\ inv'[i].event = inv[i].event /\ inv'[i].seen = inv[i].seen
        /\ inv'[i].pc \in {"delete", "report"}
    BY <1>1, DeleteTypes, CertInvIsTyped
  <1>3. InOrder(i)
    BY <1>1, HandlesTheLast
  <1>4. \A f \in File : source'[f] \in {None, source[f]}
    BY DEF Delete, CertInv, TypeOK
  <1>5. InOrder(i)'
    BY <1>1, <1>2, <1>3 DEF InOrder
  <1>6. Sees(i) /\ StillAnswered /\ ~Quiet'
    BY <1>1, <1>2, <1>4, SeesOn DEF StillAnswered, Quiet, Resting
  <1>7. Fresh(inv'[i].seen)
    BY <1>1, <1>2 DEF CertInv, StaysFresh
  <1>8. uploads \in answered
    BY <1>1, <1>3 DEF InOrder
  <1>. QED
    BY <1>1, <1>2, <1>4, <1>5, <1>6, <1>7, <1>8, HandlesTheLast, OneStep

LEMMA EndInv ==
  ASSUME CertInv, TypeInv', NEW i \in Invocations, Conclude(i) \/ Fail(i) \/ Crash(i) PROVE CertInv'
  <1>1. inv[i].pc \in {"rest"} \cup Steps
    BY DEF CertInv, TypeOK, Memory
  <1>2. CASE Conclude(i)
    BY <1>2, Reporting DEF Conclude, At, Steps
  <1>3. CASE Fail(i)
    <2>1. inv[i].pc \in Steps
      BY <1>1, <1>3, CertAssumption DEF Fail, Steps
    <2>. QED
      BY <1>3, <2>1, Reporting DEF Fail
  <1>4. CASE Crash(i)
    <2>1. inv[i].pc \in Steps
      BY <1>1, <1>4 DEF Crash, At
    <2>2. /\ Finish(i) /\ TryAgain(i)
          /\ answered' = IF inv[i].event.tries = 0 THEN answered \cup {inv[i].event.of} ELSE answered
          /\ UNCHANGED <<patient, clock, uploads, overtaken, source, archive, acm, backup, imported, removed, asked>>
      BY <1>4 DEF Crash, Calm, s3, store
    <2>3. answered \subseteq answered' /\ (uploads \in answered' \/ inv[i].event.tries # 0)
      BY <2>1, <2>2, HandlesTheLast
    <2>. QED
      BY <2>1, <2>2, <2>3, Ending
  <1>. QED
    BY <1>2, <1>3, <1>4

(* The operator waits until nothing is under way.                            *)
LEMMA WhenQuiet ==
  ASSUME CertInv, Quiet
  PROVE  /\ \A i \in Invocations : inv[i].pc = "rest" /\ inv[i].pc \notin Steps
         /\ asked \subseteq answered /\ events = {}
  <1>1. \A i \in Invocations : inv[i].pc = "rest" /\ inv[i].pc \notin Steps
    BY DEF Quiet, Resting, Steps
  <1>2. asked \ answered = {}
    BY DEF CertInv, Awaited
  <1>. QED
    BY <1>1, <1>2 DEF Quiet

(* Nothing is under way but what the operator has just begun.                *)
LEMMA BeginsAnew ==
  ASSUME CertInv, TypeInv', Quiet, UNCHANGED <<archive, acm, backup, inv, imported, removed, answered>>,
         AboutTheLast', Awaited'
  PROVE  CertInv'
  <1>1. \A i \in Invocations : inv'[i].pc = "rest" /\ inv'[i].pc \notin Steps
    BY WhenQuiet
  <1>2. StaysFresh' /\ OnlyDisappears' /\ SeenAlike'
    BY <1>1 DEF StaysFresh, OnlyDisappears, SeenAlike, Looked, Judged
  <1>3. StepsInOrder'
    BY <1>1 DEF StepsInOrder, InOrder, HasImported, Judged, Steps
  <1>4. UsedTogether'
    BY DEF CertInv, UsedTogether
  <1>. QED
    BY <1>2, <1>3, <1>4 DEF CertInv, TypeInv

LEMMA ClearInv ==
  ASSUME CertInv, TypeInv', Clear PROVE CertInv'
  <1>1. /\ Quiet /\ source' = Nothing /\ events' = events /\ inv' = inv /\ asked' = asked
        /\ UNCHANGED <<archive, acm, backup, inv, imported, removed, answered>>
    BY DEF Clear, store
  <1>2. \A i \in Invocations : inv'[i].pc = "rest" /\ inv'[i].pc \notin Steps
    BY <1>1, WhenQuiet
  <1>3. events' = {} /\ asked' \subseteq answered' /\ Quiet'
    BY <1>1, WhenQuiet DEF Quiet
  <1>4. AboutTheLast'
    BY <1>2, <1>3 DEF AboutTheLast
  <1>5. Awaited'
    BY <1>3 DEF Awaited
  <1>. QED
    BY <1>1, <1>4, <1>5, BeginsAnew

LEMMA UploadInv ==
  ASSUME CertInv, TypeInv', patient, NEW f \in File, NEW b \in Bundles, Upload(f, b)
  PROVE  CertInv'
  <1>. DEFINE object == [n |-> uploads + 1, of |-> b, at |-> clock]
  <1>1. /\ Quiet /\ uploads' = uploads + 1 /\ source' = [source EXCEPT ![f] = object]
        /\ UNCHANGED <<archive, acm, backup, inv, imported, removed, answered>>
    BY DEF Upload, store
  <1>2. \A i \in Invocations : inv'[i].pc = "rest" /\ inv'[i].pc \notin Steps
    BY <1>1, WhenQuiet
  <1>3. object.n = uploads + 1 /\ object # None
    <2>1. None.n = 0 /\ uploads \in Nat
      BY DEF None, CertInv, TypeOK
    <2>. QED
      BY <2>1
  <1>. HIDE DEF object
  <1>4. source' = [g \in File |-> IF g = f THEN object ELSE source[g]]
    BY <1>1 DEF CertInv, TypeOK
  <1>5. CASE f = "chain"
    <2>1. PICK copies \in {1, 2} :
            events' = events \cup {[of |-> uploads + 1, copy |-> c, tries |-> Retries] : c \in 1 .. copies}
      BY <1>5 DEF Upload
    <2>2. \A e \in events' : e.of = uploads'
      BY <1>1, <2>1, WhenQuiet
    <2>3. events' # {}
      <3>1. 1 \in 1 .. copies
        OBVIOUS
      <3>. QED
        BY <2>1, <3>1
    <2>4. "chain" \in File /\ source'["chain"].n = uploads'
      BY <1>1, <1>3, <1>4, <1>5 DEF File
    <2>5. AboutTheLast'
      BY <1>2, <2>2, <2>4 DEF AboutTheLast
    <2>6. asked' = IF None \in {source["cert"], source["key"]} THEN asked ELSE asked \cup {uploads + 1}
      BY <1>5 DEF Upload
    <2>7. \A v \in asked' \ answered' : v = uploads' /\ None \notin {source["cert"], source["key"]}
      BY <1>1, <2>6, WhenQuiet
    <2>8. None \notin {source["cert"], source["key"]} => ~Incomplete(source')
      BY <1>3, <1>4, <1>5 DEF Incomplete, File
    <2>9. Awaited'
      BY <2>3, <2>7, <2>8 DEF Awaited, Quiet, Incomplete
    <2>. QED
      BY <1>1, <2>5, <2>9, BeginsAnew
  <1>6. CASE f # "chain"
    <2>1. events' = events /\ asked' = asked
      BY <1>6 DEF Upload
    <2>2. Quiet' /\ events' = {} /\ asked' \subseteq answered'
      BY <1>1, <2>1, WhenQuiet DEF Quiet
    <2>3. AboutTheLast' /\ Awaited'
      BY <1>2, <2>2 DEF AboutTheLast, Awaited
    <2>. QED
      BY <1>1, <2>3, BeginsAnew
  <1>. QED
    BY <1>5, <1>6

LEMMA CertInvStep == patient /\ CertInv /\ [Next]_vars => CertInv'
  <1>. SUFFICES ASSUME patient, CertInv, [Next]_vars PROVE CertInv'
    OBVIOUS
  <1>1. TypeInv'
    BY TypeInvStep, CertInvIsTyped
  <1>2. ASSUME NEW i \in Invocations, handleRecord(i) PROVE CertInv'
    BY <1>1, <1>2, StartInv, LookInv, CheckInv, ReadInv, ImportInv, BackupInv, CopyInv, DeleteInv,
       EndInv DEF handleRecord
  <1>3. CASE UNCHANGED vars \/ Tick
    <2>1. UNCHANGED <<uploads, source, archive, acm, backup, events, inv, imported, removed, asked, answered>>
      BY <1>3 DEF vars, Tick, s3, store
    <2>2. StaysFresh' /\ OnlyDisappears' /\ SeenAlike' /\ AboutTheLast' /\ Awaited'
      BY <2>1 DEF CertInv, StaysFresh, OnlyDisappears, SeenAlike, AboutTheLast, Awaited, Looked, Quiet
    <2>3. StepsInOrder' /\ UsedTogether'
      BY <2>1 DEF CertInv, StepsInOrder, InOrder, UsedTogether
    <2>. QED
      BY <1>1, <2>2, <2>3 DEF CertInv, TypeInv
  <1>. QED
    BY <1>1, <1>2, <1>3, ClearInv, UploadInv DEF Next

LEMMA PatientKept == [Next]_vars => patient' = patient
  BY DEF Next, vars, Tick, Clear, Upload, handleRecord, Start, LookAt, Check, Read, Import, Backup,
     Copy, Delete, Conclude, Fail, Crash, Report, Break, Silent, Calm

LEMMA CertInvHolds == Spec => [](patient => CertInv)
  <1>1. (patient => CertInv) /\ [Next]_vars => (patient => CertInv)'
    BY CertInvStep, PatientKept
  <1>. QED
    BY <1>1, CertInvInit, PTL DEF Spec

-----------------------------------------------------------------------------
(* What is deleted, for any operator.                                        *)

(* Invocation i has copied file f and has still to delete it. *)
Copied(i, f) == inv[i].pc = "delete" \/ (inv[i].pc = "copy" /\ Place(f) < inv[i].at)

(* An invocation keeps what it read of a file: this is what is there, and    *)
(* once copied in the archive, unless the file has gone or a later upload    *)
(* has overtaken the invocation.                                             *)
Keeps(i, f) ==
  Holds(i, f) =>
    \/ source[f] = None
    \/ source[f].n \in overtaken
    \/ source[f] = inv[i].seen[f] /\ (Copied(i, f) => source[f].n \in archive)

(* It imports and backs up what it read, and takes the files from the first. *)
Handles(i) ==
  /\ inv[i].pc \in {"check", "import", "backup"} => inv[i].at = 1
  /\ inv[i].pc \in HasImported => \A f \in File : inv[i].seen[f].n \in imported
  /\ inv[i].pc \in HasImported \ {"backup"} => Payload(inv[i].seen) \in backup
  /\ \A f \in File : Keeps(i, f)

LossInv ==
  /\ TypeInv
  /\ \A i \in Invocations : Handles(i)
  /\ removed \subseteq (archive \cap imported) \cup overtaken

LEMMA LossInvInit == Init => LossInv
  <1>. SUFFICES ASSUME Init PROVE LossInv
    OBVIOUS
  <1>1. \A i \in Invocations : inv[i].pc = "rest"
    BY DEF Init, Resting
  <1>2. \A i \in Invocations : Handles(i)
    BY <1>1 DEF Handles, Keeps, Holds, HasImported, Judged, Steps
  <1>. QED
    BY <1>2, TypeInvInit DEF Init, LossInv

(* What is archived, imported, backed up and overtaken stays so.             *)
LogsGrow ==
  /\ archive \subseteq archive' /\ imported \subseteq imported'
  /\ backup \subseteq backup' /\ overtaken \subseteq overtaken'

(* A file that changes has gone, or has overtaken whoever had read it.       *)
LEMMA OthersHandle ==
  ASSUME LossInv, LogsGrow, NEW j \in Invocations, inv'[j] = inv[j],
         \A f \in File : \/ source'[f] \in {None, source[f]}
                         \/ Holds(j, f) => source'[f].n \in overtaken'
  PROVE  Handles(j)'
  <1>1. Handles(j)
    BY DEF LossInv
  <1>2. ASSUME NEW f \in File, Holds(j, f)'
        PROVE  \/ source'[f] = None
               \/ source'[f].n \in overtaken'
               \/ source'[f] = inv'[j].seen[f] /\ (Copied(j, f)' => source'[f].n \in archive')
    <2>1. Holds(j, f) /\ (Copied(j, f)' => Copied(j, f))
      BY <1>2 DEF Holds, Copied
    <2>2. Keeps(j, f)
      BY <1>1 DEF Handles
    <2>3. CASE source'[f] = source[f]
      BY <2>1, <2>2, <2>3 DEF Keeps, LogsGrow
    <2>. QED
      BY <2>1, <2>3
  <1>3. \A f \in File : Keeps(j, f)'
    BY <1>2 DEF Keeps
  <1>. QED
    BY <1>1, <1>3 DEF Handles, LogsGrow

LEMMA LossStep ==
  ASSUME LossInv, TypeInv', LogsGrow, NEW i \in Invocations,
         \A j \in Invocations \ {i} : inv'[j] = inv[j],
         \A f \in File : source'[f] \in {None, source[f]}, Handles(i)',
         removed' \subseteq (archive' \cap imported') \cup overtaken'
  PROVE  LossInv'
  <1>1. ASSUME NEW j \in Invocations PROVE Handles(j)'
    BY OthersHandle
  <1>. QED
    BY <1>1 DEF LossInv

(* An invocation that has not begun to read, or has ended, holds nothing.    *)
LEMMA HoldsNothing ==
  ASSUME LossInv, TypeInv', NEW i \in Invocations,
         \A j \in Invocations \ {i} : inv'[j] = inv[j],
         inv'[i].pc \in {"rest", "head", "check"}, inv'[i].pc = "check" => inv'[i].at = 1,
         UNCHANGED <<source, archive, imported, backup, overtaken, removed>>
  PROVE  LossInv'
  <1>1. Handles(i)'
    BY DEF Handles, Keeps, Holds, HasImported, Judged, Steps
  <1>2. LogsGrow
    BY DEF LogsGrow
  <1>3. removed' \subseteq (archive' \cap imported') \cup overtaken'
    BY DEF LossInv
  <1>. QED
    BY <1>1, <1>2, <1>3, LossStep

LEMMA EndingLossless ==
  ASSUME LossInv, TypeInv', NEW i \in Invocations, Finish(i),
         UNCHANGED <<source, archive, imported, backup, overtaken, removed>>
  PROVE  LossInv'
  <1>1. inv'[i].pc = "rest" /\ \A j \in Invocations \ {i} : inv'[j] = inv[j]
    BY FinishEffect DEF LossInv, TypeInv
  <1>. QED
    BY <1>1, HoldsNothing

LEMMA ReportingLossless ==
  ASSUME LossInv, TypeInv', NEW i \in Invocations, Report(i) \/ Break(i) PROVE LossInv'
  BY EndingLossless DEF Report, Break, Silent, Calm, s3, store

LEMMA LookLossless ==
  ASSUME LossInv, TypeInv', NEW i \in Invocations, Start(i) \/ LookAt(i) \/ Check(i) PROVE LossInv'
  <1>1. CASE Start(i)
    <2>1. UNCHANGED <<source, archive, imported, backup, overtaken, removed>>
      BY <1>1 DEF Start, Calm, s3, store
    <2>. QED
      BY <1>1, <2>1, StartTypes, HoldsNothing DEF LossInv
  <1>2. CASE LookAt(i)
    <2>. DEFINE new == [inv[i] EXCEPT !.seen[FileOf(i)] = source[FileOf(i)]]
    <2>1. /\ inv[i].pc = "head" /\ Advance(i, new, "check")
          /\ UNCHANGED <<source, archive, imported, backup, overtaken, removed>>
      BY <1>2 DEF LookAt, At, Silent, Calm, s3, store
    <2>2. new \in Memory /\ new.at = inv[i].at /\ new.pc = inv[i].pc
      BY SeeingIsTyped DEF LossInv, TypeInv
    <2>. HIDE DEF new
    <2>3. /\ \A j \in Invocations \ {i} : inv'[j] = inv[j]
          /\ inv'[i].pc \in {"head", "check"} /\ (inv'[i].pc = "check" => inv'[i].at = 1)
      BY <2>1, <2>2, AdvanceEffect DEF LossInv, TypeInv, Steps
    <2>. QED
      BY <2>1, <2>3, HoldsNothing
  <1>3. CASE Check(i)
    <2>1. inv[i].pc = "check" /\ inv[i].at = 1
      BY <1>3 DEF Check, At, LossInv, Handles
    <2>2. CASE Incomplete(inv[i].seen)
      BY <1>3, <2>2, EndingLossless DEF Check, Silent, Calm, s3, store
    <2>3. CASE ~Incomplete(inv[i].seen) /\ ~Fresh(inv[i].seen)
      BY <1>3, <2>3, ReportingLossless DEF Check
    <2>4. CASE ~Incomplete(inv[i].seen) /\ Fresh(inv[i].seen)
      <3>1. /\ inv' = [inv EXCEPT ![i].pc = "read"]
            /\ UNCHANGED <<source, archive, imported, backup, overtaken, removed>>
        BY <1>3, <2>4 DEF Check, Silent, Calm, s3, store
      <3>2. /\ \A j \in Invocations \ {i} : inv'[j] = inv[j]
            /\ inv'[i].pc = "read" /\ inv'[i].at = 1
        BY <2>1, <3>1, GotoEffect DEF LossInv, TypeInv, Steps
      <3>3. \A f \in File : ~Holds(i, f)'
        BY <3>2, Places DEF Holds
      <3>4. Handles(i)' /\ LogsGrow
        BY <3>1, <3>2, <3>3 DEF Handles, Keeps, HasImported, Judged, Steps, LogsGrow
      <3>. QED
        BY <3>1, <3>2, <3>4, LossStep DEF LossInv
    <2>. QED
      BY <2>2, <2>3, <2>4
  <1>. QED
    BY <1>1, <1>2, <1>3

LEMMA ReadLossless ==
  ASSUME LossInv, TypeInv', NEW i \in Invocations, Read(i) PROVE LossInv'
  <1>. DEFINE new == [inv[i] EXCEPT !.seen[FileOf(i)] = source[FileOf(i)]]
  <1>1. inv[i].pc = "read" /\ inv[i].at \in 1 .. 3
    BY DEF Read, At, LossInv, TypeInv, TypeOK, Memory
  <1>2. CASE source[FileOf(i)] = None
    BY <1>2, ReportingLossless DEF Read
  <1>3. CASE source[FileOf(i)] # None
    <2>1. /\ Advance(i, new, "import")
          /\ UNCHANGED <<source, archive, imported, backup, overtaken, removed>>
      BY <1>3 DEF Read, Silent, Calm, s3, store
    <2>2. /\ new \in Memory /\ new.at = inv[i].at /\ new.pc = inv[i].pc
          /\ new.seen = [inv[i].seen EXCEPT ![FileOf(i)] = source[FileOf(i)]]
      BY SeeingIsTyped DEF LossInv, TypeInv
    <2>. HIDE DEF new
    <2>3. /\ \A j \in Invocations \ {i} : inv'[j] = inv[j]
          /\ inv'[i].seen = new.seen
          /\ IF inv[i].at < 3 THEN inv'[i].pc = "read" /\ inv'[i].at = inv[i].at + 1
                              ELSE inv'[i].pc = "import" /\ inv'[i].at = 1
      BY <1>1, <2>1, <2>2, AdvanceEffect DEF LossInv, TypeInv, Steps
    <2>4. ASSUME NEW f \in File, Holds(i, f)'
          PROVE  \/ source'[f] = None
                 \/ source'[f].n \in overtaken'
                 \/ source'[f] = inv'[i].seen[f] /\ ~Copied(i, f)'
      <3>1. inv[i].seen \in [File -> Slot] /\ ~Copied(i, f)'
        BY <2>3 DEF LossInv, TypeInv, TypeOK, Memory, Copied
      <3>2. CASE f = FileOf(i)
        BY <2>1, <2>2, <2>3, <3>1, <3>2
      <3>3. CASE f # FileOf(i)
        <4>1. Place(f) # inv[i].at /\ Place(f) \in 1 .. 3
          BY <3>3, FileOfPlace, Places DEF LossInv, TypeInv
        <4>2. Holds(i, f)
          BY <1>1, <2>3, <2>4, <4>1 DEF Holds
        <4>3. Keeps(i, f) /\ inv'[i].seen[f] = inv[i].seen[f]
          BY <2>2, <2>3, <3>1, <3>3 DEF LossInv, Handles
        <4>. QED
          BY <2>1, <3>1, <4>2, <4>3 DEF Keeps
      <3>. QED
        BY <3>2, <3>3
    <2>5. \A f \in File : Keeps(i, f)'
      BY <2>4 DEF Keeps
    <2>6. Handles(i)' /\ LogsGrow
      BY <2>1, <2>3, <2>5 DEF Handles, HasImported, Judged, Steps, LogsGrow
    <2>7. removed' \subseteq (archive' \cap imported') \cup overtaken'
      BY <2>1 DEF LossInv
    <2>. QED
      BY <2>1, <2>3, <2>6, <2>7, LossStep
  <1>. QED
    BY <1>2, <1>3

LEMMA ImportLossless ==
  ASSUME LossInv, TypeInv', NEW i \in Invocations, Import(i) PROVE LossInv'
  <1>1. inv[i].pc = "import" /\ inv[i].at = 1
    BY DEF Import, At, LossInv, Handles
  <1>2. CASE ~Valid(inv[i].seen) \/ DryRun
    BY <1>2, ReportingLossless DEF Import
  <1>3. CASE ~(~Valid(inv[i].seen) \/ DryRun)
    <2>1. /\ inv' = [inv EXCEPT ![i].pc = "backup"]
          /\ imported' = imported \cup {inv[i].seen[f].n : f \in File}
          /\ UNCHANGED <<source, archive, backup, overtaken, removed>>
      BY <1>3 DEF Import, Silent, Calm, s3
    <2>2. /\ \A j \in Invocations \ {i} : inv'[j] = inv[j]
          /\ inv'[i].pc = "backup" /\ inv'[i].at = 1 /\ inv'[i].seen = inv[i].seen
      BY <1>1, <2>1, GotoEffect DEF LossInv, TypeInv, Steps
    <2>3. \A f \in File : Keeps(i, f)'
      <3>1. \A f \in File : Holds(i, f) /\ ~Copied(i, f)'
        BY <1>1, <2>2 DEF Holds, Copied
      <3>2. \A f \in File : Keeps(i, f)
        BY DEF LossInv, Handles
      <3>. QED
        BY <2>1, <2>2, <3>1, <3>2 DEF Keeps
    <2>4. Handles(i)' /\ LogsGrow
      BY <2>1, <2>2, <2>3 DEF Handles, HasImported, LogsGrow
    <2>5. removed' \subseteq (archive' \cap imported') \cup overtaken'
      BY <2>1 DEF LossInv
    <2>6. \A f \in File : source'[f] \in {None, source[f]}
      BY <2>1
    <2>. QED
      BY <2>2, <2>4, <2>5, <2>6, LossStep
  <1>. QED
    BY <1>2, <1>3

LEMMA BackupLossless ==
  ASSUME LossInv, TypeInv', NEW i \in Invocations, Backup(i) PROVE LossInv'
  <1>1. /\ inv[i].pc = "backup" /\ inv[i].at = 1 /\ inv[i].pc \in HasImported
        /\ inv' = [inv EXCEPT ![i].pc = "copy"]
        /\ backup' = backup \cup {Payload(inv[i].seen)}
        /\ UNCHANGED <<source, archive, imported, overtaken, removed>>
    BY DEF Backup, At, Silent, Calm, s3, LossInv, Handles, HasImported, Judged, Steps
  <1>2. /\ \A j \in Invocations \ {i} : inv'[j] = inv[j]
        /\ inv'[i].pc = "copy" /\ inv'[i].at = 1 /\ inv'[i].seen = inv[i].seen
    BY <1>1, GotoEffect DEF LossInv, TypeInv, Steps
  <1>3. \A f \in File : Keeps(i, f)'
    <2>1. \A f \in File : Holds(i, f) /\ ~Copied(i, f)'
      BY <1>1, <1>2, Places DEF Holds, Copied
    <2>2. \A f \in File : Keeps(i, f)
      BY DEF LossInv, Handles
    <2>. QED
      BY <1>1, <1>2, <2>1, <2>2 DEF Keeps
  <1>4. \A f \in File : inv[i].seen[f].n \in imported
    BY <1>1 DEF LossInv, Handles
  <1>5. Handles(i)' /\ LogsGrow
    BY <1>1, <1>2, <1>3, <1>4 DEF Handles, HasImported, LogsGrow
  <1>6. removed' \subseteq (archive' \cap imported') \cup overtaken'
    BY <1>1 DEF LossInv
  <1>7. \A f \in File : source'[f] \in {None, source[f]}
    BY <1>1
  <1>. QED
    BY <1>2, <1>5, <1>6, <1>7, LossStep

(* What is copied is what is there.                                          *)
LEMMA CopyLossless ==
  ASSUME LossInv, TypeInv', NEW i \in Invocations, Copy(i) PROVE LossInv'
  <1>1. /\ inv[i].pc = "copy" /\ inv[i].pc \in Judged /\ inv[i].pc \in HasImported \ {"backup"}
        /\ inv[i].at \in 1 .. 3 /\ "delete" \in Judged
    BY DEF Copy, At, HasImported, Judged, Steps, LossInv, TypeInv, TypeOK, Memory
  <1>2. CASE source[FileOf(i)] = None
    BY <1>2, ReportingLossless DEF Copy
  <1>3. CASE source[FileOf(i)] # None
    <2>1. /\ archive' = archive \cup {source[FileOf(i)].n} /\ Advance(i, inv[i], "delete")
          /\ UNCHANGED <<source, imported, backup, overtaken, removed>>
      BY <1>3 DEF Copy, Silent, Calm, store
    <2>2. /\ \A j \in Invocations \ {i} : inv'[j] = inv[j]
          /\ inv'[i].seen = inv[i].seen
          /\ IF inv[i].at < 3 THEN inv'[i].pc = "copy" /\ inv'[i].at = inv[i].at + 1
                              ELSE inv'[i].pc = "delete" /\ inv'[i].at = 1
      BY <1>1, <2>1, MemoryOfOne, WalkTypes DEF LossInv
    <2>3. ASSUME NEW f \in File PROVE Keeps(i, f)'
      <3>1. Holds(i, f) /\ Keeps(i, f)
        BY <1>1 DEF Holds, LossInv, Handles
      <3>2. ASSUME Copied(i, f)' PROVE source'[f].n \in archive' \/ Copied(i, f)
        <4>1. CASE f = FileOf(i)
          BY <2>1, <4>1
        <4>2. CASE f # FileOf(i)
          <5>1. Place(f) # inv[i].at /\ Place(f) \in 1 .. 3
            BY <4>2, FileOfPlace, Places DEF LossInv, TypeInv
          <5>. QED
            BY <1>1, <2>2, <3>2, <5>1 DEF Copied
        <4>. QED
          BY <4>1, <4>2
      <3>. QED
        BY <2>1, <2>2, <3>1, <3>2 DEF Keeps
    <2>4. /\ inv'[i].pc \in HasImported /\ inv'[i].pc \in {"copy", "delete"}
          /\ \A f \in File : inv[i].seen[f].n \in imported
          /\ Payload(inv[i].seen) \in backup
      BY <1>1, <2>2 DEF LossInv, Handles, HasImported, Judged, Steps
    <2>5. Handles(i)' /\ LogsGrow
      BY <2>1, <2>2, <2>3, <2>4 DEF Handles, LogsGrow
    <2>6. removed' \subseteq (archive' \cap imported') \cup overtaken'
      BY <2>1 DEF LossInv
    <2>7. \A f \in File : source'[f] \in {None, source[f]}
      BY <2>1
    <2>. QED
      BY <2>2, <2>5, <2>6, <2>7, LossStep
  <1>. QED
    BY <1>2, <1>3

(* What is deleted has been imported and copied, or has overtaken.           *)
LEMMA DeleteLossless ==
  ASSUME LossInv, TypeInv', NEW i \in Invocations, Delete(i) PROVE LossInv'
  <1>1. /\ inv[i].pc = "delete" /\ inv[i].pc \in HasImported \ {"backup"}
        /\ UNCHANGED <<archive, imported, backup, overtaken>>
    BY DEF Delete, At, Silent, Calm, store, HasImported, Judged, Steps
  <1>2. /\ \A j \in Invocations \ {i} : inv'[j] = inv[j]
        /\ inv'[i].seen = inv[i].seen
        /\ IF inv[i].at < 3 THEN inv'[i].pc = "delete" /\ inv'[i].at = inv[i].at + 1
                            ELSE inv'[i].pc = "report" /\ inv'[i].at = 1
    BY <1>1, DeleteTypes DEF LossInv
  <1>3. FileOf(i) \in File /\ Place(FileOf(i)) = inv[i].at /\ inv[i].at \in 1 .. 3
    BY FileOfPlace DEF LossInv, TypeInv, TypeOK, Memory
  <1>4. \A f \in File : source'[f] \in {None, source[f]}
    BY DEF Delete, LossInv, TypeInv, TypeOK
  <1>5. ASSUME NEW f \in File PROVE Keeps(i, f)'
    <2>1. Holds(i, f)' => Holds(i, f)
      BY <1>1, <1>2, <1>3, Places DEF Holds
    <2>2. Copied(i, f)
      BY <1>1 DEF Copied
    <2>3. Keeps(i, f)
      BY DEF LossInv, Handles
    <2>. QED
      BY <1>1, <1>2, <1>4, <2>1, <2>2, <2>3 DEF Keeps
  <1>6. /\ inv'[i].pc \in {"delete", "report"}
        /\ \A f \in File : inv[i].seen[f].n \in imported
        /\ Payload(inv[i].seen) \in backup
    BY <1>1, <1>2 DEF LossInv, Handles, HasImported
  <1>7. Handles(i)' /\ LogsGrow
    BY <1>1, <1>2, <1>5, <1>6 DEF Handles, LogsGrow
  <1>8. removed' \subseteq (archive' \cap imported') \cup overtaken'
    <2>1. source[FileOf(i)].n \in {0} \cup (archive \cap imported) \cup overtaken
      <3>1. Holds(i, FileOf(i)) /\ Copied(i, FileOf(i))
        BY <1>1, <1>3 DEF Holds, Copied
      <3>2. Keeps(i, FileOf(i)) /\ None.n = 0
        BY <1>3 DEF LossInv, Handles, None
      <3>. QED
        BY <1>3, <1>6, <3>1, <3>2 DEF Keeps
    <2>2. removed' \subseteq removed \cup ({source[FileOf(i)].n} \ {0})
      BY DEF Delete
    <2>. QED
      BY <1>1, <2>1, <2>2 DEF LossInv
  <1>. QED
    BY <1>2, <1>4, <1>7, <1>8, LossStep

(* An upload overtakes the invocations that have read the file.              *)
LEMMA OperatorLossless ==
  ASSUME LossInv, TypeInv', Tick \/ Clear \/ \E f \in File, b \in Bundles : Upload(f, b)
  PROVE  LossInv'
  <1>1. CASE Tick
    BY <1>1 DEF Tick, s3, store, LossInv, Handles, Keeps, Holds, Copied
  <1>2. CASE Clear
    <2>1. /\ source' = Nothing /\ inv' = inv
          /\ UNCHANGED <<archive, imported, backup, overtaken, removed>>
      BY <1>2 DEF Clear, store
    <2>2. LogsGrow /\ \A f \in File : source'[f] = None
      BY <2>1 DEF LogsGrow, Nothing
    <2>3. \A i \in Invocations : Handles(i)'
      BY <2>1, <2>2, OthersHandle
    <2>. QED
      BY <2>1, <2>3 DEF LossInv
  <1>3. ASSUME NEW f \in File, NEW b \in Bundles, Upload(f, b) PROVE LossInv'
    <2>. DEFINE object == [n |-> uploads + 1, of |-> b, at |-> clock]
    <2>1. /\ source' = [source EXCEPT ![f] = object] /\ inv' = inv
          /\ overtaken' = IF \E i \in Invocations : Holds(i, f)
                          THEN overtaken \cup {uploads + 1} ELSE overtaken
          /\ UNCHANGED <<archive, imported, backup, removed>>
      BY <1>3 DEF Upload, store
    <2>2. object.n = uploads + 1
      OBVIOUS
    <2>. HIDE DEF object
    <2>3. LogsGrow
      BY <2>1 DEF LogsGrow
    <2>4. ASSUME NEW i \in Invocations PROVE Handles(i)'
      <3>1. ASSUME NEW g \in File
            PROVE  source'[g] \in {None, source[g]} \/ (Holds(i, g) => source'[g].n \in overtaken')
        <4>1. CASE g # f
          BY <2>1, <4>1 DEF LossInv, TypeInv, TypeOK
        <4>2. CASE g = f
          BY <2>1, <2>2, <4>2 DEF LossInv, TypeInv, TypeOK
        <4>. QED
          BY <4>1, <4>2
      <3>. QED
        BY <2>1, <2>3, <3>1, OthersHandle
    <2>. QED
      BY <2>1, <2>3, <2>4 DEF LossInv, LogsGrow
  <1>. QED
    BY <1>1, <1>2, <1>3

LEMMA LossInvStep == LossInv /\ [Next]_vars => LossInv'
  <1>. SUFFICES ASSUME LossInv, [Next]_vars PROVE LossInv'
    OBVIOUS
  <1>1. TypeInv'
    BY TypeInvStep DEF LossInv
  <1>2. ASSUME NEW i \in Invocations, handleRecord(i) PROVE LossInv'
    <2>1. CASE Conclude(i) \/ Fail(i)
      BY <1>1, <2>1, ReportingLossless DEF Conclude, Fail
    <2>2. CASE Crash(i)
      BY <1>1, <2>2, EndingLossless DEF Crash, Calm, s3, store
    <2>. QED
      BY <1>1, <1>2, <2>1, <2>2, LookLossless, ReadLossless, ImportLossless, BackupLossless, CopyLossless,
         DeleteLossless DEF handleRecord
  <1>3. CASE UNCHANGED vars
    BY <1>1, <1>3 DEF vars, LossInv, Handles, Keeps, Holds, Copied
  <1>. QED
    BY <1>1, <1>2, <1>3, OperatorLossless DEF Next

(* Whether the operator waits or not, whatever fails and however many        *)
(* invocations overlap: the Lambda deletes only what it has imported and     *)
(* copied to the archive, and never before putBackup has put the bundle;     *)
(* except for a file uploaded between an invocation's read of it and its     *)
(* delete, although copy and delete go by name and not by version.           *)
THEOREM NothingElseGetsLost == Spec => []NothingElseIsLost
  <1>1. LossInv => NothingElseIsLost
    BY DEF LossInv, Handles, HasImported, Judged, Steps, NothingElseIsLost, SuccessIsBackedUp
  <1>. QED
    BY <1>1, LossInvInit, LossInvStep, PTL DEF Spec

-----------------------------------------------------------------------------
(* The state of S3, of ACM, of the backup secret and of every invocation of  *)
(* handleRecord keeps its type, whether the operator waits or not: no step   *)
(* reads an object that is not there, and none counts its tries below zero.  *)
THEOREM CertTypesHold == Spec => []TypeOK
  <1>1. TypeInv => TypeOK
    BY DEF TypeInv
  <1>. QED
    BY <1>1, TypeInvHolds, PTL

(* For an operator who waits, the certificate, key and chain in ACM were     *)
(* uploaded within bundleFreshnessWindow of each other.  The objects are     *)
(* read again, one by one, after verifyBundleFreshness has judged their      *)
(* dates; nothing can have taken their place.                                *)
THEOREM BundlesAreImportedTogether == Spec => []ImportedTogether
  <1>1. (patient => CertInv) => ImportedTogether
    BY DEF CertInv, UsedTogether, Fresh, ImportedTogether
  <1>. QED
    BY <1>1, CertInvHolds, PTL

(* For an operator who waits, a complete bundle has been imported or its     *)
(* event has ended in a notification or in the dead letter queue, once       *)
(* nothing is under way: an invocation that finds the bundle incomplete and  *)
(* ends without a word does so only after another has dealt with it.         *)
THEOREM NoBundleGetsSwallowed == Spec => []NoBundleIsSwallowed
  <1>1. (patient => CertInv) => NoBundleIsSwallowed
    BY DEF CertInv, NoBundleIsSwallowed, Awaited
  <1>. QED
    BY <1>1, CertInvHolds, PTL

=============================================================================
