------------------------ MODULE KionKeyRotateProofs ------------------------
(***************************************************************************)
(* Theorems of KionKeyRotate, for any number of overlapping invocations,   *)
(* every threshold, lifetime and number of tries, and whatever fails.      *)
(*                                                                         *)
(* The argument: a key is issued to whoever presents the one before, and   *)
(* finds that one in the secret.  So every key but the live one has been   *)
(* stored, each by the invocation it was issued to, and a write that comes *)
(* late finds its version there already.                                   *)
(***************************************************************************)
EXTENDS KionKeyRotate, TLAPS

(* What an invocation read is a version; what it acts on was old enough. *)
ReadsVersions ==
  \A r \in Runs : pc[r] \in {"decide", "rotate"} =>
    /\ seen[r] \in versions
    /\ pc[r] = "rotate" =>
         force[r] \/ seen[r].at = Never \/ now - seen[r].at >= Threshold * PerDay

(* Versions are in the order of their keys; only the live key may be missing. *)
VersionsInOrder ==
  /\ \A v, w \in versions : v.key <= w.key => v = w \/ (v.key < w.key /\ v.at <= w.at)
  /\ \A v \in versions : v.at <= now /\ v.key <= current.key
  /\ \A k \in 0 .. live.key : k # live.key => \E v \in versions : v.key = k

(* A key in memory is one invocation's own, nobody was told of it, and a *)
(* version of it was stored by that invocation.                          *)
HeldByOne ==
  \A r \in Runs : pc[r] \in {"put", "alert"} =>
    /\ fresh[r].key \notin alerted
    /\ \A q \in Runs : HoldsKey(q, fresh[r].key) => q = r
    /\ \A v \in versions : /\ v.key = fresh[r].key => v = fresh[r]
                           /\ v.key < fresh[r].key => v.at <= fresh[r].at
    /\ fresh[r].at <= now

(* What an invocation has in memory, by its types, with the tries it has left. *)
MemoryOK ==
  /\ pc \in [Runs -> Labels]
  /\ force \in [Runs -> BOOLEAN] /\ dry \in [Runs -> BOOLEAN]
  /\ seen \in [Runs -> SecretVersion] /\ fresh \in [Runs -> SecretVersion] /\ tries \in [Runs -> Nat]
  /\ \A r \in Runs : /\ pc[r] \in {"idle", "decide"} => tries[r] = 0
                     /\ pc[r] = "rotate" => tries[r] < KionTries
                     /\ pc[r] = "put" => tries[r] < PutTries

KionInv ==
  KionTypeOK /\ MemoryOK /\ ReadsVersions /\ VersionsInOrder /\ HeldByOne /\ LiveKeyHasAHolder

-----------------------------------------------------------------------------
(* Whole days. *)
LEMMA WholeDays ==
  ASSUME NEW n \in Nat
  PROVE  /\ n \div PerDay \in Nat /\ n \div PerDay <= n
         /\ PerDay * (n \div PerDay) <= n
  BY NumbersAssumption, Z3

LEMMA WholeDaysPassed ==
  ASSUME NEW n \in Nat, n \div PerDay >= Threshold PROVE n >= Threshold * PerDay
  <1>. DEFINE d == n \div PerDay
  <1>1. d \in Nat /\ PerDay * d <= n /\ d >= Threshold
    BY WholeDays
  <1>. HIDE DEF d
  <1>2. PerDay * d >= PerDay * Threshold
    BY <1>1, NumbersAssumption, Z3
  <1>. QED
    BY <1>1, <1>2, NumbersAssumption

-----------------------------------------------------------------------------
(* The memory of the others, and what r read. *)
OthersUntouched(r) ==
  \A q \in Runs \ {r} : /\ pc'[q] = pc[q] /\ seen'[q] = seen[q] /\ fresh'[q] = fresh[q]
                        /\ force'[q] = force[q]

Holding == {"put", "alert"}

LEMMA EndStep ==
  ASSUME KionInv, NEW r \in Runs, End(r)
  PROVE  /\ MemoryOK' /\ OthersUntouched(r)
         /\ pc'[r] = "idle" /\ fresh'[r] = Seed
  <1>1. Seed \in SecretVersion /\ 0 \in Nat
    BY NumbersAssumption DEF Seed, SecretVersion, Keys, Ticks
  <1>2. /\ pc' = [pc EXCEPT ![r] = "idle"]
        /\ seen' = [seen EXCEPT ![r] = Seed] /\ fresh' = [fresh EXCEPT ![r] = Seed]
        /\ tries' = [tries EXCEPT ![r] = 0]
        /\ force' = [force EXCEPT ![r] = FALSE] /\ dry' = [dry EXCEPT ![r] = FALSE]
    BY DEF End, Goto
  <1>. HIDE DEF Seed
  <1>. QED
    BY <1>1, <1>2 DEF KionInv, KionTypeOK, MemoryOK, OthersUntouched, Labels

LEMMA ErrorsStep ==
  ASSUME KionTypeOK, NEW r \in Runs, Errors(r)
  PROVE  End(r) /\ troubled' \in [day : Ticks \cup {Never}, again : BOOLEAN]
  <1>1. Today \in Ticks
    BY WholeDays, NumbersAssumption DEF KionTypeOK, Today, Ticks
  <1>2. troubled \in [day : Ticks \cup {Never}, again : BOOLEAN]
    BY DEF KionTypeOK
  <1>. DEFINE later == troubled.again \/ troubled.day # Today
  <1>3. later \in BOOLEAN
    OBVIOUS
  <1>4. \/ troubled' = [troubled EXCEPT !.day = Today]
        \/ troubled' = [troubled EXCEPT !.again = later]
    BY <1>2 DEF Errors
  <1>. HIDE DEF later
  <1>5. troubled' \in [day : Ticks \cup {Never}, again : BOOLEAN]
    BY <1>1, <1>2, <1>3, <1>4
  <1>. QED
    BY <1>5 DEF Errors

(* The key that is stored is the newest, or is there already. *)
LEMMA StoreStep ==
  ASSUME KionInv, NEW v \in SecretVersion, Store(v), UNCHANGED <<now, live>>, v.at <= now,
         v \in versions \/ (v.key = live.key /\ \A w \in versions : w.key < v.key /\ w.at <= v.at)
  PROVE  /\ VersionsInOrder'
         /\ versions' = versions \cup {v} /\ current' \in versions' /\ versions' \subseteq SecretVersion
         /\ \A w \in versions' : w.key <= live.key
         /\ current.key <= current'.key
         /\ v.key = live.key \/ current.key = live.key => current'.key = live.key
  <1>1. /\ live.key \in Nat /\ now \in Nat /\ current \in versions
        /\ \A w \in versions \cup {v} : w.key \in Int /\ w.at \in Int
        /\ \A w \in versions : w.key <= live.key /\ w.key <= current.key
    BY NumbersAssumption DEF KionInv, KionTypeOK, VersionsInOrder, SecretVersion, Keys, Ticks, Never
  <1>2. versions' = versions \cup {v} /\ versions' \subseteq SecretVersion
    BY DEF Store, KionInv, KionTypeOK
  <1>3. CASE v \in versions
    BY <1>1, <1>2, <1>3 DEF Store, KionInv, VersionsInOrder
  <1>4. CASE v \notin versions
    <2>1. v.key = live.key /\ \A w \in versions : w.key < v.key /\ w.at <= v.at
      BY <1>4
    <2>2. current' = v
      BY <1>4 DEF Store
    <2>3. \A u, w \in versions' : u.key <= w.key => u = w \/ (u.key < w.key /\ u.at <= w.at)
      BY <1>1, <1>2, <2>1 DEF KionInv, VersionsInOrder
    <2>4. \A w \in versions' : w.at <= now' /\ w.key <= current'.key
      BY <1>1, <1>2, <2>1, <2>2 DEF KionInv, VersionsInOrder
    <2>5. \A k \in 0 .. live'.key : k # live'.key => \E w \in versions' : w.key = k
      BY <1>2 DEF KionInv, VersionsInOrder
    <2>6. VersionsInOrder'
      BY <2>3, <2>4, <2>5 DEF VersionsInOrder
    <2>. QED
      BY <1>1, <1>2, <2>1, <2>2, <2>6
  <1>. QED
    BY <1>3, <1>4

(* A key in memory is the live one, or is stored. *)
LEMMA HeldIsLiveOrStored ==
  ASSUME KionInv, NEW r \in Runs, pc[r] \in Holding
  PROVE  /\ fresh[r] \in SecretVersion /\ fresh[r].at <= now
         /\ \/ fresh[r] \in versions
            \/ /\ fresh[r].key = live.key
               /\ \A w \in versions : w.key < fresh[r].key /\ w.at <= fresh[r].at
  <1>1. /\ fresh[r] \in SecretVersion /\ fresh[r].key \in Nat /\ fresh[r].key <= live.key
        /\ live.key \in Nat /\ \A w \in versions : w.key \in Nat /\ w.key <= live.key
    BY NumbersAssumption DEF KionInv, KionTypeOK, SecretVersion, Keys
  <1>2. /\ fresh[r].at <= now
        /\ \A w \in versions : /\ w.key = fresh[r].key => w = fresh[r]
                               /\ w.key < fresh[r].key => w.at <= fresh[r].at
    BY DEF KionInv, HeldByOne, Holding
  <1>3. CASE \E w \in versions : w.key = fresh[r].key
    BY <1>1, <1>2, <1>3
  <1>4. CASE \A w \in versions : w.key # fresh[r].key
    <2>1. fresh[r].key = live.key
      BY <1>1, <1>4 DEF KionInv, VersionsInOrder
    <2>. QED
      BY <1>1, <1>2, <1>4, <2>1
  <1>. QED
    BY <1>3, <1>4

(* A step of one invocation that is left with no new key. *)
LEMMA OneInvocation ==
  ASSUME KionInv, NEW r \in Runs, MemoryOK', OthersUntouched(r), now' = now,
         live' \in [key : Keys, issued : Ticks], live.key <= live'.key,
         live' = live \/ live'.key \in dropped',
         VersionsInOrder', current' \in versions', versions' \subseteq SecretVersion,
         \A w \in versions' : w.key <= live.key,
         \/ versions' = versions
         \/ versions' = versions \cup {fresh[r]} /\ pc[r] \in Holding,
         current.key = live.key => current'.key = live.key,
         alerted \subseteq alerted', dropped \subseteq dropped', dropped' \subseteq Keys,
         alerted' = alerted \/ (pc[r] \in Holding /\ alerted' = alerted \cup {fresh[r].key}),
         ran' \in Int, troubled' \in [day : Ticks \cup {Never}, again : BOOLEAN],
         pc'[r] \in {"decide", "rotate"} =>
           /\ seen'[r] \in versions'
           /\ pc'[r] = "rotate" =>
                force'[r] \/ seen'[r].at = Never \/ now - seen'[r].at >= Threshold * PerDay,
         pc'[r] \in Holding => pc[r] \in Holding /\ fresh'[r] = fresh[r] /\ alerted' = alerted,
         fresh'[r] = fresh[r] \/ fresh'[r] = Seed,
         pc[r] \in Holding /\ fresh[r].key = live.key =>
           pc'[r] \in Holding \/ live.key \in {current'.key} \cup alerted' \cup dropped'
  PROVE  KionInv'
  <1>1. live.key \in Nat /\ \A q \in Runs : fresh[q].key \in Nat /\ fresh[q].key <= live.key
    BY NumbersAssumption DEF KionInv, KionTypeOK, SecretVersion, Keys
  <1>2. KionTypeOK'
    <2>0. live'.key \in Nat
      BY NumbersAssumption DEF Keys
    <2>1. \A q \in Runs : fresh'[q].key <= live'.key
      BY <1>1, <2>0 DEF OthersUntouched, Seed
    <2>2. alerted' \subseteq 0 .. live'.key
      BY <1>1, <2>0 DEF KionInv, KionTypeOK
    <2>3. \A w \in versions' : w.key <= live'.key
      <3>1. \A w \in versions' : w.key \in Int
        BY NumbersAssumption DEF SecretVersion, Keys
      <3>. QED
        BY <1>1, <2>0, <3>1
    <2>. QED
      BY <2>1, <2>2, <2>3 DEF KionInv, KionTypeOK, MemoryOK
  <1>3. ReadsVersions'
    <2>1. ASSUME NEW q \in Runs \ {r}, pc'[q] \in {"decide", "rotate"}
          PROVE /\ seen'[q] \in versions'
                /\ pc'[q] = "rotate" => \/ force'[q] \/ seen'[q].at = Never
                                        \/ now' - seen'[q].at >= Threshold * PerDay
      BY <2>1 DEF KionInv, ReadsVersions, OthersUntouched
    <2>. QED
      BY <2>1 DEF ReadsVersions
  <1>4. HeldByOne'
    <2>. SUFFICES ASSUME NEW q \in Runs, pc'[q] \in Holding
                  PROVE /\ fresh'[q].key \notin alerted'
                        /\ \A p \in Runs : HoldsKey(p, fresh[q].key)' => p = q
                        /\ \A v \in versions' : /\ v.key = fresh'[q].key => v = fresh'[q]
                                                /\ v.key < fresh'[q].key => v.at <= fresh'[q].at
                        /\ fresh'[q].at <= now'
      BY DEF HeldByOne, Holding
    <2>1. \A p \in Runs : pc'[p] \in Holding => pc[p] \in Holding /\ fresh'[p] = fresh[p]
      BY DEF OthersUntouched
    <2>2. pc[q] \in Holding /\ fresh'[q] = fresh[q]
      BY <2>1
    <2>3. /\ fresh[q].key \notin alerted /\ fresh[q].at <= now
          /\ \A p \in Runs : HoldsKey(p, fresh[q].key) => p = q
          /\ \A v \in versions : /\ v.key = fresh[q].key => v = fresh[q]
                                 /\ v.key < fresh[q].key => v.at <= fresh[q].at
      BY <2>2 DEF KionInv, HeldByOne, Holding
    <2>4. \A p \in Runs : HoldsKey(p, fresh[q].key)' => p = q
      BY <2>1, <2>2, <2>3 DEF HoldsKey, Holding
    <2>5. q # r /\ pc[r] \in Holding => fresh[r].key # fresh[q].key
      BY <2>3 DEF HoldsKey, Holding
    <2>6. fresh'[q].key \notin alerted'
      BY <2>2, <2>3, <2>5
    <2>7. ASSUME NEW v \in versions'
          PROVE /\ v.key = fresh'[q].key => v = fresh'[q]
                /\ v.key < fresh'[q].key => v.at <= fresh'[q].at
      <3>1. CASE v \in versions
        BY <2>2, <2>3, <3>1
      <3>2. CASE v \notin versions
        <4>1. v = fresh[r] /\ pc[r] \in Holding /\ v.key = live.key
          BY <2>7, <3>2, HeldIsLiveOrStored
        <4>. QED
          BY <1>1, <2>2, <2>5, <4>1
      <3>. QED
        BY <3>1, <3>2
    <2>. QED
      BY <2>2, <2>3, <2>4, <2>6, <2>7
  <1>5. LiveKeyHasAHolder'
    <2>1. CASE live' = live /\ live.key \in {current.key} \cup alerted \cup dropped
      BY <2>1 DEF LiveKeyHasAHolder
    <2>2. ASSUME live' = live, NEW q \in Runs, HoldsKey(q, live.key) PROVE LiveKeyHasAHolder'
      BY <2>2 DEF LiveKeyHasAHolder, HoldsKey, Holding, OthersUntouched
    <2>3. CASE live'.key \in dropped'
      BY <2>3 DEF LiveKeyHasAHolder
    <2>. QED
      BY <2>1, <2>2, <2>3 DEF KionInv, LiveKeyHasAHolder
  <1>. QED
    BY <1>2, <1>3, <1>4, <1>5 DEF KionInv

(* The steps that store nothing. *)
LEMMA SecretUntouched ==
  ASSUME KionInv, UNCHANGED <<now, live, secret>>
  PROVE  /\ VersionsInOrder' /\ current' \in versions' /\ versions' \subseteq SecretVersion
         /\ versions' = versions /\ current' = current
         /\ \A w \in versions' : w.key <= live.key
         /\ live \in [key : Keys, issued : Ticks] /\ live.key <= live.key
  BY NumbersAssumption DEF KionInv, KionTypeOK, VersionsInOrder, secret, Keys

(* An invocation ends, and nothing is lost with it. *)
LEMMA Ending ==
  ASSUME KionInv, NEW r \in Runs, End(r), UNCHANGED <<now, live, secret, ran>>,
         alerted \subseteq alerted', dropped \subseteq dropped', dropped' \subseteq Keys,
         alerted' = alerted \/ (pc[r] \in Holding /\ alerted' = alerted \cup {fresh[r].key}),
         troubled' \in [day : Ticks \cup {Never}, again : BOOLEAN],
         pc[r] \in Holding => fresh[r].key \in alerted' \cup dropped'
  PROVE  KionInv'
  <1>1. ran' \in Int
    BY DEF KionInv, KionTypeOK
  <1>2. MemoryOK' /\ OthersUntouched(r) /\ pc'[r] = "idle" /\ fresh'[r] = Seed
    BY EndStep
  <1>3. pc'[r] \notin {"decide", "rotate"} /\ pc'[r] \notin Holding
    BY <1>2 DEF Holding
  <1>. QED
    BY <1>1, <1>2, <1>3, SecretUntouched, OneInvocation

(* An invocation fails that holds no key, or goes on trying. *)
LEMMA Erring ==
  ASSUME KionInv, NEW r \in Runs, Errors(r), pc[r] \notin Holding,
         UNCHANGED <<now, live, secret, ran, alerted, dropped>>
  PROVE  KionInv'
  <1>1. KionTypeOK /\ dropped \subseteq Keys
    BY DEF KionInv, KionTypeOK
  <1>. QED
    BY <1>1, ErrorsStep, Ending

LEMMA Retrying ==
  ASSUME KionInv, NEW r \in Runs, pc[r] = "rotate", TryKionAgain(r),
         UNCHANGED <<now, live, secret, ran, alerted, dropped>>
  PROVE  KionInv'
  <1>1. CASE Errors(r)
    BY <1>1, Erring DEF Holding
  <1>2. CASE /\ tries[r] + 1 < KionTries /\ tries' = [tries EXCEPT ![r] = @ + 1]
             /\ UNCHANGED <<pc, force, dry, seen, fresh, troubled>>
    <2>1. MemoryOK' /\ OthersUntouched(r)
      BY <1>2 DEF KionInv, KionTypeOK, MemoryOK, OthersUntouched
    <2>2. /\ seen'[r] \in versions
          /\ force'[r] \/ seen'[r].at = Never \/ now - seen'[r].at >= Threshold * PerDay
      BY <1>2 DEF KionInv, ReadsVersions
    <2>3. /\ dropped \subseteq Keys /\ ran \in Int
          /\ troubled \in [day : Ticks \cup {Never}, again : BOOLEAN]
      BY DEF KionInv, KionTypeOK
    <2>4. pc'[r] = "rotate" /\ pc[r] \notin Holding /\ pc'[r] \notin Holding /\ fresh' = fresh
      BY <1>2 DEF Holding
    <2>. QED
      BY <1>2, <2>1, <2>2, <2>3, <2>4, SecretUntouched, OneInvocation
  <1>. QED
    BY <1>1, <1>2 DEF TryKionAgain

LEMMA InvokeStep == ASSUME KionInv, NEW r \in Runs, Invoke(r) PROVE KionInv'
  <1>1. /\ pc[r] = "idle" /\ pc' = [pc EXCEPT ![r] = "decide"]
        /\ seen' = [seen EXCEPT ![r] = current]
        /\ UNCHANGED <<now, live, secret, alerted, fresh, tries, dropped, troubled>>
    BY DEF Invoke, Goto, kion
  <1>2. current \in SecretVersion /\ Today \in Int
    BY WholeDays DEF KionInv, KionTypeOK, Today, Ticks
  <1>3. ran' \in Int
    BY <1>2 DEF Invoke, KionInv, KionTypeOK
  <1>4. /\ force' \in [Runs -> BOOLEAN] /\ dry' \in [Runs -> BOOLEAN]
        /\ \A q \in Runs \ {r} : force'[q] = force[q]
    BY DEF Invoke, KionInv, KionTypeOK
  <1>5. MemoryOK'
    BY <1>1, <1>2, <1>4 DEF KionInv, KionTypeOK, MemoryOK, Labels
  <1>6. OthersUntouched(r) /\ pc'[r] = "decide" /\ seen'[r] = current
    BY <1>1, <1>4 DEF KionInv, KionTypeOK, OthersUntouched
  <1>7. /\ dropped \subseteq Keys /\ current \in versions
        /\ troubled \in [day : Ticks \cup {Never}, again : BOOLEAN]
        /\ pc[r] \notin Holding /\ pc'[r] \notin Holding
    BY <1>1, <1>6 DEF KionInv, KionTypeOK, Holding
  <1>. QED
    BY <1>1, <1>3, <1>5, <1>6, <1>7, SecretUntouched, OneInvocation

LEMMA DecideStep == ASSUME KionInv, NEW r \in Runs, Decide(r) PROVE KionInv'
  <1>1. /\ pc[r] = "decide" /\ pc[r] \notin Holding
        /\ UNCHANGED <<now, live, secret, alerted, ran, dropped>>
    BY DEF Decide, Holding, kion
  <1>2. /\ dropped \subseteq Keys /\ ran \in Int
        /\ troubled \in [day : Ticks \cup {Never}, again : BOOLEAN]
    BY DEF KionInv, KionTypeOK
  <1>3. CASE Succeeds(r)
    BY <1>1, <1>2, <1>3, Ending DEF Succeeds
  <1>4. CASE Due(r) /\ Goto(r, "rotate") /\ UNCHANGED <<memory, troubled>>
    <2>1. pc' = [pc EXCEPT ![r] = "rotate"] /\ UNCHANGED <<force, dry, seen, fresh, tries>>
      BY <1>4 DEF Goto, memory
    <2>2. seen[r] \in versions /\ seen[r].at <= now /\ seen[r].at \in Ticks \cup {Never} /\ now \in Nat
      BY <1>1 DEF KionInv, KionTypeOK, ReadsVersions, VersionsInOrder, SecretVersion, Ticks
    <2>3. force[r] \/ seen[r].at = Never \/ now - seen[r].at >= Threshold * PerDay
      <3>. SUFFICES ASSUME seen[r].at # Never, DaysSince(seen[r].at) >= Threshold
                    PROVE now - seen[r].at >= Threshold * PerDay
        BY <1>4 DEF Due
      <3>1. now - seen[r].at \in Nat
        BY <2>2, NumbersAssumption DEF Ticks
      <3>. QED
        BY <3>1, WholeDaysPassed DEF DaysSince
    <2>4. MemoryOK' /\ OthersUntouched(r) /\ pc'[r] = "rotate"
      <3>1. tries[r] < KionTries
        BY <1>1, NumbersAssumption DEF KionInv, MemoryOK
      <3>. QED
        BY <2>1, <3>1 DEF KionInv, KionTypeOK, MemoryOK, OthersUntouched, Labels
    <2>5. pc'[r] \notin Holding
      BY <2>4 DEF Holding
    <2>. QED
      BY <1>1, <1>2, <1>4, <2>1, <2>2, <2>3, <2>4, <2>5, SecretUntouched, OneInvocation
  <1>. QED
    BY <1>3, <1>4 DEF Decide

(* Kion issues a key: whoever presented the last one found it in the secret. *)
LEMMA IssueStep ==
  ASSUME KionInv, NEW r \in Runs, pc[r] = "rotate", Alive(seen[r].key), live.key < MaxKey, Issue,
         UNCHANGED <<now, secret, alerted, ran>>
  PROVE  /\ live' \in [key : Keys, issued : Ticks] /\ live'.key = live.key + 1
         /\ live.key \in Nat /\ live.key + 1 \in Keys
         /\ VersionsInOrder'
         /\ \A v \in versions : v.key <= live.key
         /\ alerted \subseteq 0 .. live.key
         /\ \A q \in Runs : fresh[q].key <= live.key
         /\ \A k \in 0 .. live.key : \E v \in versions : v.key = k
  <1>1. /\ live.key \in Nat /\ live.key + 1 \in Keys /\ now \in Ticks
        /\ live' = [key |-> live.key + 1, issued |-> now]
        /\ seen[r] \in versions /\ seen[r].key = live.key
    BY NumbersAssumption DEF KionInv, KionTypeOK, Keys, Issue, ReadsVersions, Alive
  <1>2. \A k \in 0 .. live.key : \E v \in versions : v.key = k
    BY <1>1 DEF KionInv, VersionsInOrder
  <1>3. \A k \in 0 .. live'.key : k # live'.key => k \in 0 .. live.key
    BY <1>1
  <1>4. VersionsInOrder'
    BY <1>2, <1>3 DEF KionInv, VersionsInOrder, secret
  <1>. QED
    BY <1>1, <1>2, <1>4 DEF KionInv, KionTypeOK

LEMMA ExchangeStep == ASSUME KionInv, NEW r \in Runs, Exchange(r) PROVE KionInv'
  <1>. DEFINE new == [key |-> live.key + 1, at |-> now]
  <1>1. /\ pc[r] = "rotate" /\ Alive(seen[r].key) /\ live.key < MaxKey /\ Issue
        /\ fresh' = [fresh EXCEPT ![r] = new] /\ tries' = [tries EXCEPT ![r] = 0]
        /\ pc' = [pc EXCEPT ![r] = "put"]
        /\ UNCHANGED <<now, current, versions, secret, alerted, force, dry, seen, ran, dropped, troubled>>
    BY DEF Exchange, Goto, secret
  <1>2. /\ live' \in [key : Keys, issued : Ticks] /\ live'.key = live.key + 1
        /\ live.key \in Nat /\ live.key + 1 \in Keys
        /\ VersionsInOrder'
        /\ \A v \in versions : v.key <= live.key
        /\ alerted \subseteq 0 .. live.key
        /\ \A q \in Runs : fresh[q].key <= live.key
    BY <1>1, IssueStep
  <1>3. new \in SecretVersion /\ new.key = live.key + 1 /\ new.at = now /\ now \in Nat
    BY <1>2 DEF SecretVersion, KionInv, KionTypeOK, Ticks
  <1>. HIDE DEF new
  <1>4. /\ pc'[r] = "put" /\ fresh'[r] = new /\ tries'[r] = 0
        /\ \A q \in Runs \ {r} : pc'[q] = pc[q] /\ fresh'[q] = fresh[q] /\ tries'[q] = tries[q]
    BY <1>1 DEF KionInv, MemoryOK
  <1>5. MemoryOK'
    <2>1. /\ pc' \in [Runs -> Labels] /\ tries' \in [Runs -> Nat] /\ fresh' \in [Runs -> SecretVersion]
      BY <1>1, <1>3 DEF KionInv, MemoryOK, Labels
    <2>. QED
      BY <1>1, <1>4, <2>1, NumbersAssumption DEF KionInv, MemoryOK
  <1>6. KionTypeOK'
    <2>1. /\ \A v \in versions' : v.key <= live'.key
          /\ alerted' \subseteq 0 .. live'.key
      <3>1. \A v \in versions : v.key \in Int
        BY NumbersAssumption DEF KionInv, KionTypeOK, SecretVersion, Keys
      <3>. QED
        BY <1>1, <1>2, <3>1
    <2>2. \A q \in Runs : fresh'[q].key <= live'.key
      <3>1. \A q \in Runs : fresh[q].key \in Int
        BY NumbersAssumption DEF KionInv, MemoryOK, SecretVersion, Keys
      <3>. QED
        BY <1>2, <1>3, <1>4, <3>1
    <2>. QED
      BY <1>1, <1>2, <1>5, <2>1, <2>2 DEF KionInv, KionTypeOK, MemoryOK
  <1>7. ReadsVersions'
    BY <1>1, <1>4 DEF KionInv, ReadsVersions
  <1>8. HeldByOne'
    <2>1. \A q \in Runs \ {r} : fresh[q].key # new.key
      BY <1>2, <1>3
    <2>2. ASSUME NEW q \in Runs, pc'[q] \in Holding
          PROVE /\ fresh'[q].key \notin alerted'
                /\ \A p \in Runs : HoldsKey(p, fresh[q].key)' => p = q
                /\ \A v \in versions' : /\ v.key = fresh'[q].key => v = fresh'[q]
                                        /\ v.key < fresh'[q].key => v.at <= fresh'[q].at
                /\ fresh'[q].at <= now'
      <3>1. CASE q = r
        <4>1. new.key \notin alerted /\ \A v \in versions : v.key # new.key /\ v.at <= now
          BY <1>2, <1>3 DEF KionInv, VersionsInOrder
        <4>2. \A p \in Runs : fresh'[p].key = new.key => p = r
          BY <1>4, <2>1
        <4>3. \A p \in Runs : HoldsKey(p, fresh[q].key)' => p = q
          BY <1>4, <3>1, <4>2 DEF HoldsKey
        <4>. QED
          BY <1>1, <1>3, <1>4, <3>1, <4>1, <4>3
      <3>2. CASE q # r
        <4>1. pc[q] \in Holding /\ fresh'[q] = fresh[q]
          BY <1>4, <2>2, <3>2
        <4>2. \A p \in Runs : HoldsKey(p, fresh[q].key)' => p = q
          <5>1. ~HoldsKey(r, fresh[q].key)'
            BY <1>4, <2>1, <3>2, <4>1 DEF HoldsKey
          <5>2. \A p \in Runs \ {r} : HoldsKey(p, fresh[q].key)' => HoldsKey(p, fresh[q].key)
            BY <1>4, <4>1 DEF HoldsKey
          <5>. QED
            BY <4>1, <5>1, <5>2 DEF KionInv, HeldByOne, Holding
        <4>. QED
          BY <1>1, <4>1, <4>2 DEF KionInv, HeldByOne, Holding
      <3>. QED
        BY <3>1, <3>2
    <2>. QED
      BY <2>2 DEF HeldByOne, Holding
  <1>9. LiveKeyHasAHolder'
    BY <1>2, <1>3, <1>4 DEF LiveKeyHasAHolder, HoldsKey
  <1>. QED
    BY <1>2, <1>5, <1>6, <1>7, <1>8, <1>9 DEF KionInv

(* A key whose answer is lost is issued, and dropped. *)
LEMMA LoseStep == ASSUME KionInv, NEW r \in Runs, LoseAnswer(r) PROVE KionInv'
  <1>1. /\ pc[r] = "rotate" /\ Alive(seen[r].key) /\ live.key < MaxKey /\ Issue
        /\ dropped' = dropped \cup {live.key + 1} /\ (TryKionAgain(r) \/ Errors(r))
        /\ UNCHANGED <<now, secret, current, versions, alerted, ran>>
    BY DEF LoseAnswer, secret
  <1>2. /\ live' \in [key : Keys, issued : Ticks] /\ live'.key = live.key + 1
        /\ live.key \in Nat /\ live.key + 1 \in Keys
        /\ VersionsInOrder'
        /\ \A v \in versions : v.key <= live.key
    BY <1>1, IssueStep
  <1>3. /\ live'.key \in dropped' /\ live.key <= live'.key
        /\ dropped' \subseteq Keys /\ dropped \subseteq dropped'
        /\ current \in versions /\ versions \subseteq SecretVersion /\ ran \in Int
        /\ pc[r] \notin Holding
    BY <1>1, <1>2 DEF KionInv, KionTypeOK, Holding
  <1>4. CASE Errors(r)
    <2>1. End(r) /\ troubled' \in [day : Ticks \cup {Never}, again : BOOLEAN]
      BY <1>4, ErrorsStep DEF KionInv
    <2>2. MemoryOK' /\ OthersUntouched(r) /\ pc'[r] = "idle" /\ fresh'[r] = Seed
      BY <2>1, EndStep
    <2>3. pc'[r] \notin {"decide", "rotate"} /\ pc'[r] \notin Holding
      BY <2>2 DEF Holding
    <2>. QED
      BY <1>1, <1>2, <1>3, <2>1, <2>2, <2>3, OneInvocation
  <1>5. CASE /\ tries[r] + 1 < KionTries /\ tries' = [tries EXCEPT ![r] = @ + 1]
             /\ UNCHANGED <<pc, force, dry, seen, fresh, troubled>>
    <2>1. MemoryOK' /\ OthersUntouched(r)
      BY <1>1, <1>5 DEF KionInv, KionTypeOK, MemoryOK, OthersUntouched
    <2>2. /\ seen'[r] \in versions
          /\ force'[r] \/ seen'[r].at = Never \/ now - seen'[r].at >= Threshold * PerDay
      BY <1>1, <1>5 DEF KionInv, ReadsVersions
    <2>3. troubled \in [day : Ticks \cup {Never}, again : BOOLEAN] /\ pc'[r] \notin Holding
      BY <1>3, <1>5 DEF KionInv, KionTypeOK
    <2>. QED
      BY <1>1, <1>2, <1>3, <1>5, <2>1, <2>2, <2>3, OneInvocation
  <1>. QED
    BY <1>1, <1>4, <1>5 DEF TryKionAgain

LEMMA Unlucky ==
  ASSUME KionInv, NEW r \in Runs, KionUnavailable(r) \/ Reject(r) PROVE KionInv'
  <1>1. pc[r] = "rotate" /\ pc[r] \notin Holding
    BY DEF KionUnavailable, Reject, Holding
  <1>2. UNCHANGED <<now, live, secret, alerted, ran, dropped>>
    BY DEF KionUnavailable, Reject, kion
  <1>. QED
    BY <1>1, <1>2, Retrying, Erring DEF KionUnavailable, Reject

(* The key that an invocation has is written, late or not. *)
LEMMA StoreHeld ==
  ASSUME KionInv, NEW r \in Runs, pc[r] \in Holding, Store(fresh[r]), UNCHANGED <<now, live>>
  PROVE  /\ VersionsInOrder' /\ current' \in versions' /\ versions' \subseteq SecretVersion
         /\ \A w \in versions' : w.key <= live.key
         /\ versions' = versions \cup {fresh[r]}
         /\ current.key <= current'.key
         /\ fresh[r].key = live.key \/ current.key = live.key => current'.key = live.key
  BY HeldIsLiveOrStored, StoreStep

LEMMA PutStep == ASSUME KionInv, NEW r \in Runs, Put(r) PROVE KionInv'
  <1>1. /\ pc[r] \in Holding /\ Store(fresh[r]) /\ End(r)
        /\ UNCHANGED <<now, live, alerted, ran, dropped, troubled>>
    BY DEF Put, Succeeds, kion, Holding
  <1>2. MemoryOK' /\ OthersUntouched(r) /\ pc'[r] = "idle" /\ fresh'[r] = Seed
    BY <1>1, EndStep
  <1>3. /\ dropped \subseteq Keys /\ ran \in Int
        /\ troubled \in [day : Ticks \cup {Never}, again : BOOLEAN]
        /\ live \in [key : Keys, issued : Ticks] /\ live.key <= live.key
    BY NumbersAssumption DEF KionInv, KionTypeOK, Keys
  <1>4. pc'[r] \notin {"decide", "rotate"} /\ pc'[r] \notin Holding
    BY <1>2 DEF Holding
  <1>. QED
    BY <1>1, <1>2, <1>3, <1>4, StoreHeld, OneInvocation

LEMMA Persevering ==
  ASSUME KionInv, NEW r \in Runs, PutFails(r) \/ (OutOfTime(r) /\ pc[r] = "put")
  PROVE  KionInv'
  <1>1. /\ pc[r] = "put" /\ pc[r] \in Holding
        /\ UNCHANGED <<now, live, alerted, ran, dropped>>
    BY DEF PutFails, OutOfTime, kion, Holding
  <1>2. UNCHANGED secret \/ Store(fresh[r])
    BY DEF PutFails, OutOfTime
  <1>3. \/ /\ tries[r] + 1 < PutTries /\ tries' = [tries EXCEPT ![r] = @ + 1]
           /\ UNCHANGED <<pc, force, dry, seen, fresh, troubled>>
        \/ /\ pc' = [pc EXCEPT ![r] = "alert"]
           /\ UNCHANGED <<force, dry, seen, fresh, tries, troubled>>
    BY <1>1 DEF PutFails, OutOfTime, Exhausted, Goto, memory, Errors, End
  <1>4. MemoryOK' /\ OthersUntouched(r) /\ pc'[r] \in Holding
    BY <1>1, <1>3 DEF KionInv, MemoryOK, OthersUntouched, Labels, Holding
  <1>5. /\ dropped \subseteq Keys /\ ran \in Int
        /\ troubled \in [day : Ticks \cup {Never}, again : BOOLEAN] /\ troubled' = troubled
        /\ live \in [key : Keys, issued : Ticks] /\ live.key <= live.key
    BY <1>3, NumbersAssumption DEF KionInv, KionTypeOK, Keys
  <1>6. fresh' = fresh /\ pc'[r] \notin {"decide", "rotate"}
    BY <1>3, <1>4 DEF Holding
  <1>7. CASE UNCHANGED secret
    BY <1>1, <1>4, <1>5, <1>6, <1>7, SecretUntouched, OneInvocation
  <1>8. CASE Store(fresh[r])
    BY <1>1, <1>4, <1>5, <1>6, <1>8, StoreHeld, OneInvocation
  <1>. QED
    BY <1>2, <1>7, <1>8

LEMMA LeavingStep ==
  ASSUME KionInv, NEW r \in Runs,
         \/ OutOfTime(r) /\ pc[r] = "rotate"
         \/ Alert(r) \/ CutShort(r)
  PROVE  KionInv'
  <1>1. Errors(r) /\ UNCHANGED <<now, live, secret, ran>>
    BY DEF OutOfTime, Alert, CutShort, kion
  <1>2. End(r) /\ troubled' \in [day : Ticks \cup {Never}, again : BOOLEAN]
    BY <1>1, ErrorsStep DEF KionInv
  <1>3. dropped \subseteq Keys /\ fresh[r].key \in Keys
    BY DEF KionInv, KionTypeOK, SecretVersion
  <1>4. CASE OutOfTime(r) /\ pc[r] = "rotate"
    BY <1>1, <1>4, Erring DEF OutOfTime, Holding
  <1>5. CASE Alert(r) \/ CutShort(r)
    BY <1>1, <1>2, <1>3, <1>5, Ending DEF Alert, CutShort, Holding
  <1>. QED
    BY <1>4, <1>5

(* An operator stores the live key that was posted: nobody has it. *)
LEMMA RestoreStores ==
  ASSUME KionInv, Restore
  PROVE  /\ VersionsInOrder' /\ current' \in versions' /\ versions' \subseteq SecretVersion
         /\ \A w \in versions' : w.key <= live.key
         /\ versions' = versions \cup {[key |-> live.key, at |-> now]}
         /\ current.key <= current'.key /\ current'.key = live.key
  <1>. DEFINE v == [key |-> live.key, at |-> now]
  <1>1. v \in SecretVersion /\ v.key = live.key /\ v.at = now /\ v.at <= now
    BY NumbersAssumption DEF KionInv, KionTypeOK, SecretVersion, Ticks
  <1>2. /\ Store(v) /\ UNCHANGED <<now, live>> /\ current.key # live.key
    BY DEF Restore, kion
  <1>3. \A w \in versions : w.key < v.key /\ w.at <= v.at
    <2>0. current.key <= live.key /\ current.key \in Int /\ live.key \in Int
      BY NumbersAssumption DEF KionInv, KionTypeOK, SecretVersion, Keys
    <2>1. current.key < live.key
      BY <1>2, <2>0
    <2>2. \A w \in versions : w.key \in Int /\ w.key <= current.key /\ w.at <= now
      BY NumbersAssumption DEF KionInv, KionTypeOK, VersionsInOrder, SecretVersion, Keys
    <2>. QED
      BY <1>1, <2>0, <2>1, <2>2
  <1>. HIDE DEF v
  <1>4. /\ VersionsInOrder' /\ current' \in versions' /\ versions' \subseteq SecretVersion
        /\ \A w \in versions' : w.key <= live.key
        /\ versions' = versions \cup {v}
        /\ current.key <= current'.key /\ current'.key = live.key
    BY <1>1, <1>2, <1>3, StoreStep
  <1>. QED
    BY <1>4 DEF v

LEMMA RestoreStep == ASSUME KionInv, Restore PROVE KionInv'
  <1>1. /\ UNCHANGED <<now, live, alerted, pc, force, dry, seen, fresh, tries, ran, dropped, troubled>>
        /\ live.key \in alerted
    BY DEF Restore, kion, memory
  <1>2. KionTypeOK' /\ MemoryOK' /\ VersionsInOrder'
    BY <1>1, RestoreStores DEF KionInv, KionTypeOK, MemoryOK
  <1>3. ReadsVersions'
    BY <1>1, RestoreStores DEF KionInv, ReadsVersions
  <1>4. HeldByOne'
    <2>. SUFFICES ASSUME NEW q \in Runs, pc[q] \in Holding, NEW v \in versions'
                  PROVE /\ v.key = fresh[q].key => v = fresh[q]
                        /\ v.key < fresh[q].key => v.at <= fresh[q].at
      BY <1>1 DEF KionInv, HeldByOne, HoldsKey, Holding
    <2>1. fresh[q].key # live.key /\ fresh[q].key <= live.key /\ fresh[q].key \in Int /\ live.key \in Int
      BY <1>1, NumbersAssumption DEF KionInv, KionTypeOK, HeldByOne, Holding, SecretVersion, Keys
    <2>2. CASE v \in versions
      BY <2>2 DEF KionInv, HeldByOne, Holding
    <2>3. CASE v.key = live.key
      BY <2>1, <2>3
    <2>. QED
      BY <2>2, <2>3, RestoreStores
  <1>5. LiveKeyHasAHolder'
    BY <1>1 DEF LiveKeyHasAHolder
  <1>. QED
    BY <1>2, <1>3, <1>4, <1>5 DEF KionInv

LEMMA TickStep == ASSUME KionInv, ClockTicks PROVE KionInv'
  <1>1. /\ now' = now + 1 /\ now \in Nat /\ now' \in Ticks
        /\ UNCHANGED <<live, current, versions, alerted, pc, force, dry, seen, fresh, tries, ran,
                       dropped, troubled>>
    BY NumbersAssumption DEF ClockTicks, kion, secret, memory, KionInv, KionTypeOK, Ticks
  <1>2. /\ \A v \in versions : v.at \in Int
        /\ \A r \in Runs : fresh[r].at \in Int /\ seen[r].at \in Int
        /\ Threshold * PerDay \in Int
    BY NumbersAssumption DEF KionInv, KionTypeOK, SecretVersion, Ticks, Never
  <1>3. KionTypeOK' /\ MemoryOK'
    BY <1>1 DEF KionInv, KionTypeOK, MemoryOK
  <1>4. ReadsVersions'
    <2>. DEFINE window == Threshold * PerDay
    <2>1. window \in Int
      BY <1>2
    <2>2. \A r \in Runs : now - seen[r].at >= window => now' - seen[r].at >= window
      <3>. HIDE DEF window
      <3>. QED
        BY <1>1, <1>2, <2>1
    <2>. QED
      BY <1>1, <2>2 DEF KionInv, ReadsVersions
  <1>5. VersionsInOrder' /\ HeldByOne'
    BY <1>1, <1>2 DEF KionInv, VersionsInOrder, HeldByOne, HoldsKey
  <1>6. LiveKeyHasAHolder'
    BY <1>1 DEF KionInv, LiveKeyHasAHolder, HoldsKey
  <1>. QED
    BY <1>3, <1>4, <1>5, <1>6 DEF KionInv

LEMMA KionInvInit == KionInit => KionInv
  <1>. SUFFICES ASSUME KionInit PROVE KionInv
    OBVIOUS
  <1>1. /\ 0 \in Keys /\ 0 \in Ticks /\ live.key = 0 /\ now = 0 /\ alerted = {}
        /\ current.key = 0 /\ current.at \in {0, Never} /\ versions = {current}
        /\ current \in SecretVersion /\ Seed \in SecretVersion /\ Seed.key = 0
        /\ \A r \in Runs : pc[r] = "idle" /\ fresh[r] = Seed /\ tries[r] = 0
    BY NumbersAssumption DEF KionInit, Keys, Ticks, SecretVersion, Seed
  <1>2. MemoryOK
    BY <1>1 DEF KionInit, MemoryOK, Labels
  <1>3. KionTypeOK
    BY <1>1, <1>2 DEF KionInit, KionTypeOK, MemoryOK
  <1>4. VersionsInOrder
    BY <1>1 DEF VersionsInOrder, Never
  <1>5. ReadsVersions /\ HeldByOne /\ LiveKeyHasAHolder
    BY <1>1 DEF ReadsVersions, HeldByOne, LiveKeyHasAHolder
  <1>. QED
    BY <1>2, <1>3, <1>4, <1>5 DEF KionInv

LEMMA KionInvStep == KionInv /\ [KionNext]_kionVars => KionInv'
  <1>. SUFFICES ASSUME KionInv, [KionNext]_kionVars PROVE KionInv'
    OBVIOUS
  <1>1. ASSUME NEW r \in Runs,
               \/ Invoke(r) \/ Decide(r)
               \/ Exchange(r) \/ LoseAnswer(r) \/ KionUnavailable(r) \/ Reject(r)
               \/ Put(r) \/ PutFails(r) \/ OutOfTime(r) \/ Alert(r) \/ CutShort(r)
        PROVE KionInv'
    <2>1. OutOfTime(r) => pc[r] \in {"rotate", "put"}
      BY DEF OutOfTime
    <2>. QED
      BY <1>1, <2>1, InvokeStep, DecideStep, ExchangeStep, LoseStep, Unlucky, PutStep, Persevering,
         LeavingStep
  <1>2. CASE UNCHANGED kionVars
    BY <1>2 DEF kionVars, KionInv, KionTypeOK, MemoryOK, ReadsVersions, VersionsInOrder, HeldByOne, HoldsKey,
                LiveKeyHasAHolder
  <1>. QED
    BY <1>1, <1>2, RestoreStep, TickStep DEF KionNext

LEMMA KionInvariant == KionSpec => []KionInv
  BY KionInvInit, KionInvStep, PTL DEF KionSpec

-----------------------------------------------------------------------------
(* The secret, the versions, the keys and what invocations have in memory     *)
(* keep their types; no key is newer than the one Kion accepts.               *)
THEOREM KionTypesHold == KionSpec => []KionTypeOK
  <1>1. KionInv => KionTypeOK
    BY DEF KionInv
  <1>. QED
    BY <1>1, KionInvariant, PTL

(* The key Kion accepts is never lost without a trace (Orchestrator.Run,      *)
(* putWithRetries).                                                           *)
THEOREM LiveKeyIsHeld == KionSpec => []LiveKeyHasAHolder
  <1>1. KionInv => LiveKeyHasAHolder
    BY DEF KionInv
  <1>. QED
    BY <1>1, KionInvariant, PTL

(* A write that comes late does not put an older key over a newer one         *)
(* (Secret.Put, payloadRequestToken).                                         *)
LEMMA StepMovesForward == KionInv /\ [KionNext]_kionVars => [current.key <= current'.key]_kionVars
  <1>. SUFFICES ASSUME KionInv, [KionNext]_kionVars PROVE current.key <= current'.key \/ UNCHANGED kionVars
    OBVIOUS
  <1>1. current.key <= current.key
    BY NumbersAssumption DEF KionInv, KionTypeOK, SecretVersion, Keys
  <1>2. ASSUME NEW r \in Runs, Put(r) \/ PutFails(r) PROVE current.key <= current'.key
    <2>1. pc[r] \in Holding /\ UNCHANGED <<now, live>>
      BY <1>2 DEF Put, PutFails, Holding, kion
    <2>2. Store(fresh[r]) \/ UNCHANGED secret
      BY <1>2 DEF Put, PutFails
    <2>. QED
      BY <1>1, <2>1, <2>2, StoreHeld DEF secret
  <1>3. ASSUME NEW r \in Runs,
               \/ Invoke(r) \/ Decide(r)
               \/ Exchange(r) \/ LoseAnswer(r) \/ KionUnavailable(r) \/ Reject(r)
               \/ OutOfTime(r) \/ Alert(r) \/ CutShort(r)
        PROVE current.key <= current'.key
    BY <1>1, <1>3 DEF Invoke, Decide, Exchange, LoseAnswer, KionUnavailable, Reject, OutOfTime,
                      Alert, CutShort, secret
  <1>4. CASE ClockTicks
    BY <1>1, <1>4 DEF ClockTicks, secret
  <1>. QED
    BY <1>2, <1>3, <1>4, RestoreStores DEF KionNext

THEOREM SecretOnlyMovesForward == KionSpec => SecretMovesForward
  BY KionInvariant, StepMovesForward, PTL DEF KionSpec, SecretMovesForward

(* Unforced, a key is rotated only if no rotation of the last Threshold days  *)
(* was stored, by however many invocations that overlap (daysSinceRotation).  *)
LEMMA StepKeepsTheWindow ==
  KionInv /\ [KionNext]_kionVars =>
    [live' # live =>
       \E r \in Runs : pc[r] = "rotate" /\
         (force[r] \/ \A v \in versions :
                        v.at = Never \/ now - v.at >= Threshold * PerDay)]_kionVars
  <1>. SUFFICES ASSUME KionInv, KionNext, live' # live
                PROVE  \E r \in Runs : pc[r] = "rotate" /\
                         (force[r] \/ \A v \in versions :
                                        v.at = Never \/ now - v.at >= Threshold * PerDay)
    OBVIOUS
  <1>1. PICK r \in Runs : Exchange(r) \/ LoseAnswer(r)
    BY DEF KionNext, Invoke, Decide, KionUnavailable, Reject, Put, PutFails, OutOfTime, Alert, CutShort,
           Restore, ClockTicks, kion
  <1>2. pc[r] = "rotate" /\ seen[r].key = live.key
    BY <1>1 DEF Exchange, LoseAnswer, Alive
  <1>3. /\ seen[r] \in versions
        /\ force[r] \/ seen[r].at = Never \/ now - seen[r].at >= Threshold * PerDay
    BY <1>2 DEF KionInv, ReadsVersions
  <1>4. ASSUME NEW v \in versions, ~force[r]
        PROVE v.at = Never \/ now - v.at >= Threshold * PerDay
    <2>1. v.key <= seen[r].key
      BY <1>2 DEF KionInv, KionTypeOK
    <2>2. v.at <= seen[r].at \/ v = seen[r]
      BY <1>3, <2>1 DEF KionInv, VersionsInOrder
    <2>3. v.at \in Nat \cup {Never} /\ seen[r].at \in Nat \cup {Never} /\ now \in Nat
      BY <1>3 DEF KionInv, KionTypeOK, SecretVersion, Ticks
    <2>. DEFINE window == Threshold * PerDay
    <2>4. window \in Int
      BY NumbersAssumption
    <2>5. seen[r].at = Never \/ now - seen[r].at >= window
      BY <1>3, <1>4
    <2>. HIDE DEF window
    <2>6. v.at = Never \/ now - v.at >= window
      BY <2>2, <2>3, <2>4, <2>5 DEF Never
    <2>. QED
      BY <2>6 DEF window
  <1>. QED
    BY <1>2, <1>4

THEOREM WindowIsAlwaysKept == KionSpec => WindowIsKept
  BY KionInvariant, StepKeepsTheWindow, PTL DEF KionSpec, WindowIsKept

-----------------------------------------------------------------------------
(***************************************************************************)
(* One bad day.  The argument goes by days: from the day on which a stored *)
(* key is Threshold days old by every clock, each scheduled invocation     *)
(* either obtains a new one or fails, and a day on which it fails is a day *)
(* of trouble.  There are two such days before the key expires.            *)
(***************************************************************************)
Day(n) == n \div PerDay
Issued == Day(live.issued)
TroubledOn(d) == troubled.again \/ troubled.day = d

(* Today's scheduled invocation has been and gone. *)
Ended == ran = Today /\ \A r \in Daily : pc[r] = "idle"

(* The scheduled invocation is about the stored key, unless that is new. *)
OnSchedule ==
  \A r \in Daily :
    /\ ~dry[r]
    /\ pc[r] \in {"decide", "rotate"} /\ current.key = live.key /\ Issued < Today
       => seen[r] = current

(* Who holds a key was issued it today, and a key is stored on its day. *)
HeldToday ==
  \A r \in Runs : pc[r] \in Holding =>
    Issued = Today /\ (fresh[r].key = live.key => fresh[r].at = live.issued)
StoredToday ==
  \A v \in versions : v.key = live.key => v.at = Never \/ Day(v.at) = Issued

(* Every day on which the stored key was due, and is still there, was bad. *)
OverdueIsTrouble ==
  current.key = live.key =>
    \A d \in Nat : Issued + Threshold + 1 <= d /\ (d < Today \/ (d = Today /\ Ended))
                   => TroubledOn(d)

ScheduleInv ==
  live.issued <= now /\ OnSchedule /\ HeldToday /\ StoredToday /\ OverdueIsTrouble

-----------------------------------------------------------------------------
(* Days. *)
LEMMA TimesGrows ==
  ASSUME NEW a \in Nat, NEW b \in Nat, NEW k \in Nat, a <= b
  PROVE  k * a <= k * b
  BY Z3

LEMMA DayBounds ==
  ASSUME NEW n \in Nat
  PROVE  /\ Day(n) \in Nat /\ PerDay * Day(n) \in Nat
         /\ PerDay * Day(n) <= n /\ n < (PerDay * Day(n)) + PerDay
  BY NumbersAssumption, Z3 DEF Day

LEMMA DayAtLeast ==
  ASSUME NEW n \in Nat, NEW k \in Nat, PerDay * k <= n
  PROVE  k <= Day(n)
  <1>1. Day(n) \in Nat /\ n < (PerDay * Day(n)) + PerDay /\ PerDay \in Nat
    BY DayBounds, NumbersAssumption
  <1>2. SUFFICES ASSUME Day(n) + 1 <= k PROVE FALSE
    BY <1>1
  <1>3. PerDay * (Day(n) + 1) <= PerDay * k
    BY <1>1, <1>2, TimesGrows
  <1>4. PerDay * (Day(n) + 1) = (PerDay * Day(n)) + PerDay
    BY <1>1
  <1>5. PerDay * k \in Nat /\ PerDay * Day(n) \in Nat
    BY <1>1
  <1>. QED
    BY <1>1, <1>3, <1>4, <1>5

LEMMA DaysGoOn ==
  ASSUME NEW a \in Nat, NEW b \in Nat, a <= b
  PROVE  Day(a) <= Day(b)
  <1>1. Day(a) \in Nat /\ PerDay * Day(a) \in Nat /\ PerDay * Day(a) <= b
    BY DayBounds
  <1>. QED
    BY <1>1, DayAtLeast

LEMMA Midnight ==
  ASSUME NEW n \in Nat
  PROVE  Day(n + 1) = Day(n) \/ (Day(n + 1) = Day(n) + 1 /\ (n + 1) % PerDay = 0)
  <1>. DEFINE d == Day(n)  e == Day(n + 1)
  <1>1. /\ d \in Nat /\ e \in Nat /\ PerDay \in Nat /\ PerDay > 0
        /\ n < (PerDay * d) + PerDay /\ PerDay * e <= n + 1 /\ PerDay * d \in Nat
        /\ PerDay * e \in Nat /\ d <= e /\ n + 1 \in Nat
    <2>1. n + 1 \in Nat /\ n <= n + 1
      OBVIOUS
    <2>2. /\ e \in Nat /\ PerDay * e \in Nat /\ PerDay * e <= n + 1
      BY <2>1, DayBounds
    <2>3. d \in Nat /\ PerDay * d \in Nat /\ n < (PerDay * d) + PerDay
      BY DayBounds
    <2>4. d <= e
      BY <2>1, DaysGoOn
    <2>5. PerDay \in Nat /\ PerDay > 0
      BY NumbersAssumption
    <2>. QED
      BY <2>1, <2>2, <2>3, <2>4, <2>5
  <1>2. n + 1 = (PerDay * e) + ((n + 1) % PerDay)
    BY <1>1, Z3 DEF Day
  <1>3. CASE e = d
    BY <1>3
  <1>4. CASE d + 1 <= e
    <2>. HIDE DEF d, e
    <2>1. PerDay * (d + 1) <= PerDay * e
      BY <1>1, <1>4, TimesGrows
    <2>2. PerDay * (d + 1) = (PerDay * d) + PerDay
      BY <1>1
    <2>3. PerDay * e = (PerDay * d) + PerDay /\ PerDay * e = n + 1
      BY <1>1, <2>1, <2>2
    <2>4. e = d + 1
      <3>1. SUFFICES ASSUME d + 2 <= e PROVE FALSE
        BY <1>1, <1>4
      <3>2. PerDay * (d + 2) <= PerDay * e
        BY <1>1, <3>1, TimesGrows
      <3>3. PerDay * (d + 2) = (PerDay * d) + PerDay + PerDay
        BY <1>1
      <3>. QED
        BY <1>1, <2>3, <3>2, <3>3
    <2>5. (n + 1) % PerDay = 0
      <3>. DEFINE m == (n + 1) % PerDay
      <3>1. m \in Int
        BY <1>1
      <3>. HIDE DEF m
      <3>2. m = 0
        BY <1>1, <1>2, <2>3, <3>1 DEF m
      <3>. QED
        BY <3>2 DEF m
    <2>. QED
      BY <2>4, <2>5 DEF d, e
  <1>5. e = d \/ d + 1 <= e
    <2>. HIDE DEF d, e
    <2>. QED
      BY <1>1
  <1>. QED
    BY <1>3, <1>4, <1>5

(* A version of day i is old enough Threshold + 1 days later. *)
LEMMA DueByThen ==
  ASSUME NEW at \in Nat, NEW n \in Nat, Day(at) + Threshold + 1 <= Day(n)
  PROVE  Threshold <= (n - at) \div PerDay
  <1>. DEFINE d == Day(at)  e == Day(n)
  <1>1. /\ d \in Nat /\ e \in Nat /\ PerDay \in Nat /\ Threshold \in Nat
        /\ at < (PerDay * d) + PerDay /\ PerDay * e <= n
        /\ PerDay * d \in Nat /\ PerDay * e \in Nat /\ PerDay * Threshold \in Nat
    <2>1. PerDay \in Nat /\ Threshold \in Nat
      BY NumbersAssumption
    <2>2. PerDay * Threshold \in Nat
      BY <2>1
    <2>. HIDE DEF Day
    <2>. QED
      BY <2>1, <2>2, DayBounds
  <1>2. d + Threshold + 1 <= e
    OBVIOUS
  <1>. HIDE DEF d, e
  <1>3. PerDay * (d + Threshold + 1) <= PerDay * e
    BY <1>1, <1>2, TimesGrows
  <1>4. PerDay * (d + Threshold + 1) = (PerDay * d) + (PerDay * Threshold) + PerDay
    BY <1>1
  <1>5. n - at \in Nat /\ PerDay * Threshold <= n - at
    BY <1>1, <1>3, <1>4
  <1>. QED
    BY <1>1, <1>5, DayAtLeast DEF Day

(* A key that has expired is Lifetime days old. *)
LEMMA ExpiredByThen ==
  ASSUME NEW i \in Nat, NEW n \in Nat, i + Lifetime * PerDay <= n
  PROVE  Day(i) + Lifetime <= Day(n)
  <1>. DEFINE d == Day(i)
  <1>1. d \in Nat /\ PerDay \in Nat /\ Lifetime \in Nat /\ PerDay * d <= i /\ PerDay * d \in Nat
    BY DayBounds, NumbersAssumption
  <1>. HIDE DEF d
  <1>2. PerDay * (d + Lifetime) = (PerDay * d) + (Lifetime * PerDay) /\ Lifetime * PerDay \in Nat
    BY <1>1
  <1>3. PerDay * (d + Lifetime) <= n
    BY <1>1, <1>2
  <1>4. d + Lifetime <= Day(n)
    BY <1>1, <1>3, DayAtLeast
  <1>. QED
    BY <1>4 DEF d

-----------------------------------------------------------------------------
(* What errors leave on record. *)
LEMMA ErrorsAreRecorded ==
  ASSUME KionInv, NEW r \in Runs, Errors(r), UNCHANGED now
  PROVE  TroubledOn(Today)' /\ \A d \in Nat : TroubledOn(d) => TroubledOn(d)'
  <1>1. troubled \in [day : Ticks \cup {Never}, again : BOOLEAN]
    BY DEF KionInv, KionTypeOK
  <1>2. Today' = Today
    BY DEF Today
  <1>3. CASE troubled.day = Never
    <2>1. troubled' = [troubled EXCEPT !.day = Today]
      BY <1>3 DEF Errors
    <2>2. troubled'.day = Today /\ troubled'.again = troubled.again
      BY <1>1, <2>1
    <2>. QED
      BY <1>2, <1>3, <2>2 DEF TroubledOn, Never
  <1>4. CASE troubled.day # Never
    <2>. DEFINE later == troubled.again \/ troubled.day # Today
    <2>1. troubled' = [troubled EXCEPT !.again = later]
      BY <1>4 DEF Errors
    <2>2. later \in BOOLEAN
      OBVIOUS
    <2>. HIDE DEF later
    <2>3. troubled'.day = troubled.day /\ troubled'.again = later
      BY <1>1, <2>1, <2>2
    <2>. QED
      BY <1>2, <2>3 DEF TroubledOn, later
  <1>. QED
    BY <1>3, <1>4

LEMMA EndLeavesNothing ==
  ASSUME KionInv, NEW r \in Runs, End(r)
  PROVE  /\ OthersUntouched(r) /\ \A q \in Runs \ {r} : dry'[q] = dry[q]
         /\ pc'[r] = "idle" /\ dry'[r] = FALSE
  <1>1. dry \in [Runs -> BOOLEAN] /\ dry' = [dry EXCEPT ![r] = FALSE]
    BY DEF KionInv, KionTypeOK, End
  <1>. QED
    BY <1>1, EndStep

-----------------------------------------------------------------------------
(* Steps that leave the key and the secret alone. *)
LEMMA ScheduleGoesOn ==
  ASSUME KionInv, ScheduleInv, UNCHANGED <<now, live, current, versions, ran>>,
         NEW r \in Runs, OthersUntouched(r), \A q \in Runs \ {r} : dry'[q] = dry[q],
         r \in Daily => ~dry'[r],
         pc'[r] \in {"decide", "rotate"} => pc[r] \in {"decide", "rotate"} /\ seen'[r] = seen[r],
         pc'[r] \in Holding => pc[r] \in Holding /\ fresh'[r] = fresh[r],
         \A d \in Nat : TroubledOn(d) => TroubledOn(d)',
         r \in Daily /\ pc[r] # "idle" /\ pc'[r] = "idle" /\ current.key = live.key
           /\ Issued + Threshold + 1 <= Today => TroubledOn(Today)'
  PROVE  ScheduleInv'
  <1>1. Today' = Today /\ Issued' = Issued
    BY DEF Today, Issued
  <1>2. Today \in Nat
    BY WholeDays DEF KionInv, KionTypeOK, Ticks, Today
  <1>3. OnSchedule'
    BY <1>1 DEF OnSchedule, ScheduleInv, OthersUntouched, Runs
  <1>4. HeldToday'
    BY <1>1 DEF HeldToday, ScheduleInv, OthersUntouched
  <1>5. StoredToday'
    BY <1>1 DEF StoredToday, ScheduleInv
  <1>6. ASSUME Ended', current.key = live.key, Issued + Threshold + 1 <= Today
        PROVE  TroubledOn(Today)'
    <2>1. ran = Today /\ \A q \in Daily \ {r} : pc[q] = "idle"
      BY <1>1, <1>6 DEF Ended, OthersUntouched, Runs
    <2>2. CASE r \in Daily /\ pc[r] # "idle"
      BY <1>6, <2>2 DEF Ended
    <2>3. CASE r \notin Daily \/ pc[r] = "idle"
      <3>1. Ended
        BY <2>1, <2>3 DEF Ended
      <3>2. TroubledOn(Today)
        BY <1>2, <1>6, <3>1 DEF ScheduleInv, OverdueIsTrouble
      <3>. QED
        BY <1>1, <1>2, <3>2
    <2>. QED
      BY <2>2, <2>3
  <1>7. ASSUME current'.key = live'.key, NEW d \in Nat, Issued' + Threshold + 1 <= d,
               d < Today' \/ (d = Today' /\ Ended')
        PROVE  TroubledOn(d)'
    <2>1. CASE d < Today'
      BY <1>1, <1>7, <2>1 DEF ScheduleInv, OverdueIsTrouble
    <2>2. CASE d = Today' /\ Ended'
      BY <1>1, <1>6, <1>7, <2>2 DEF TroubledOn
    <2>. QED
      BY <1>7, <2>1, <2>2
  <1>8. OverdueIsTrouble'
    BY <1>7 DEF OverdueIsTrouble
  <1>. QED
    BY <1>3, <1>4, <1>5, <1>8 DEF ScheduleInv

(* On the day a key was issued nothing is due. *)
LEMMA FreshDay ==
  ASSUME KionInv, KionInv', live'.issued <= now', Issued' = Today', \A r \in Daily : ~dry'[r],
         HeldToday', StoredToday'
  PROVE  ScheduleInv'
  <1>1. Today' \in Nat
    BY WholeDays DEF KionInv, KionTypeOK, Ticks, Today
  <1>2. OnSchedule'
    BY <1>1 DEF OnSchedule
  <1>3. OverdueIsTrouble'
    BY <1>1, NumbersAssumption DEF OverdueIsTrouble
  <1>. QED
    BY <1>2, <1>3 DEF ScheduleInv

LEMMA InvokeKeepsSchedule ==
  ASSUME KionInv, ScheduleInv, NEW r \in Runs, Invoke(r)
  PROVE  ScheduleInv'
  <1>1. /\ pc' = [pc EXCEPT ![r] = "decide"] /\ seen' = [seen EXCEPT ![r] = current]
        /\ pc \in [Runs -> Labels] /\ seen \in [Runs -> SecretVersion] /\ dry \in [Runs -> BOOLEAN]
        /\ UNCHANGED <<now, live, current, versions, fresh, troubled>>
    BY DEF Invoke, Goto, KionInv, KionTypeOK, kion, secret
  <1>2. Today' = Today /\ Issued' = Issued /\ \A d : TroubledOn(d)' = TroubledOn(d)
    BY <1>1 DEF Today, Issued, TroubledOn
  <1>3. \A q \in Daily : dry'[q] = dry[q]
    <2>1. CASE UNCHANGED dry
      BY <2>1
    <2>2. CASE r \in Manual /\ \E d \in BOOLEAN : dry' = [dry EXCEPT ![r] = d]
      BY <1>1, <2>2, RunsAssumption DEF Runs
    <2>. QED
      BY <2>1, <2>2 DEF Invoke
  <1>4. OnSchedule'
    BY <1>1, <1>2, <1>3 DEF OnSchedule, ScheduleInv, Runs
  <1>5. HeldToday' /\ StoredToday'
    BY <1>1, <1>2 DEF HeldToday, StoredToday, ScheduleInv, Holding
  <1>6. Ended' => Ended
    <2>1. CASE r \in Daily
      BY <1>1, <2>1 DEF Ended
    <2>2. CASE r \notin Daily
      BY <1>1, <1>2, <2>2 DEF Ended, Invoke, Runs
    <2>. QED
      BY <2>1, <2>2
  <1>7. OverdueIsTrouble'
    BY <1>1, <1>2, <1>6 DEF OverdueIsTrouble, ScheduleInv
  <1>. QED
    BY <1>1, <1>4, <1>5, <1>7 DEF ScheduleInv

(* The scheduled invocation does not skip a key that is overdue. *)
LEMMA OverdueIsDue ==
  ASSUME KionInv, ScheduleInv, NEW r \in Daily, pc[r] = "decide", current.key = live.key,
         Issued + Threshold + 1 <= Today
  PROVE  Due(r) /\ ~dry[r]
  <1>1. /\ now \in Nat /\ live.issued \in Nat /\ current \in versions
        /\ current.at \in Nat \cup {Never}
    BY DEF KionInv, KionTypeOK, Ticks, SecretVersion
  <1>2. Issued \in Nat /\ Today \in Nat /\ Today = Day(now)
    BY <1>1, DayBounds DEF Issued, Today, Day
  <1>3. Issued < Today
    BY <1>2, NumbersAssumption
  <1>4. seen[r] = current /\ ~dry[r]
    BY <1>3 DEF ScheduleInv, OnSchedule
  <1>5. current.at = Never \/ Day(current.at) = Issued
    BY <1>1 DEF ScheduleInv, StoredToday
  <1>6. CASE current.at = Never
    BY <1>4, <1>6 DEF Due
  <1>7. CASE current.at # Never
    <2>1. current.at \in Nat /\ Day(current.at) + Threshold + 1 <= Day(now)
      BY <1>1, <1>2, <1>5, <1>7
    <2>2. Threshold <= DaysSince(current.at)
      BY <1>1, <2>1, DueByThen DEF DaysSince
    <2>3. DaysSince(current.at) >= Threshold
      <3>1. DaysSince(current.at) \in Int
        BY <1>1, <2>1, NumbersAssumption DEF DaysSince
      <3>. QED
        BY <2>2, <3>1, NumbersAssumption
    <2>. QED
      BY <1>4, <2>3 DEF Due
  <1>. QED
    BY <1>4, <1>6, <1>7

LEMMA DecideKeepsSchedule ==
  ASSUME KionInv, ScheduleInv, NEW r \in Runs, Decide(r)
  PROVE  ScheduleInv'
  <1>1. UNCHANGED <<now, live, current, versions, ran, troubled>> /\ pc[r] = "decide"
    BY DEF Decide, Succeeds, kion, secret
  <1>2. \A d : TroubledOn(d)' = TroubledOn(d)
    BY <1>1 DEF TroubledOn
  <1>3. CASE (~Due(r) \/ dry[r]) /\ End(r)
    <2>1. ~(r \in Daily /\ current.key = live.key /\ Issued + Threshold + 1 <= Today)
      BY <1>1, <1>3, OverdueIsDue
    <2>. QED
      BY <1>1, <1>2, <1>3, <2>1, EndLeavesNothing, ScheduleGoesOn DEF Holding
  <1>4. CASE Goto(r, "rotate") /\ UNCHANGED memory
    <2>1. pc' = [pc EXCEPT ![r] = "rotate"] /\ pc \in [Runs -> Labels]
      BY <1>4 DEF Goto, KionInv, KionTypeOK
    <2>2. OthersUntouched(r) /\ dry' = dry /\ seen' = seen /\ pc'[r] = "rotate"
      BY <1>4, <2>1 DEF OthersUntouched, memory
    <2>3. r \in Daily => ~dry'[r]
      BY <2>2 DEF ScheduleInv, OnSchedule
    <2>. QED
      BY <1>1, <1>2, <2>2, <2>3, ScheduleGoesOn DEF Holding
  <1>. QED
    BY <1>3, <1>4 DEF Decide, Succeeds

-----------------------------------------------------------------------------
(* Failures. *)
LEMMA FailureKeepsSchedule ==
  ASSUME KionInv, ScheduleInv, NEW r \in Runs, Errors(r), UNCHANGED <<now, live, current, versions, ran>>
  PROVE  ScheduleInv'
  <1>1. End(r)
    BY DEF Errors
  <1>. QED
    BY <1>1, EndLeavesNothing, ErrorsAreRecorded, ScheduleGoesOn DEF Holding

LEMMA NothingNew ==
  ASSUME KionInv, ScheduleInv, NEW r \in Runs, pc[r] \in {"rotate", "put"},
         UNCHANGED <<now, live, current, versions, ran, force, dry, seen, fresh, troubled>>,
         \/ UNCHANGED pc
         \/ pc[r] = "put" /\ Goto(r, "alert")
  PROVE  ScheduleInv'
  <1>1. pc \in [Runs -> Labels]
    BY DEF KionInv, KionTypeOK
  <1>2. OthersUntouched(r)
    BY <1>1 DEF Goto, OthersUntouched
  <1>3. pc'[r] = pc[r] \/ (pc[r] = "put" /\ pc'[r] = "alert")
    BY <1>1 DEF Goto
  <1>4. r \in Daily => ~dry'[r]
    BY DEF ScheduleInv, OnSchedule
  <1>5. \A d \in Nat : TroubledOn(d) => TroubledOn(d)'
    BY DEF TroubledOn
  <1>. QED
    BY <1>2, <1>3, <1>4, <1>5, ScheduleGoesOn DEF Holding

LEMMA FailingKeepsSchedule ==
  ASSUME KionInv, ScheduleInv, NEW r \in Runs,
         KionUnavailable(r) \/ Reject(r) \/ OutOfTime(r) \/ Alert(r) \/ CutShort(r)
  PROVE  ScheduleInv'
  <1>1. UNCHANGED <<now, live, current, versions, ran>>
    BY DEF KionUnavailable, Reject, OutOfTime, Alert, CutShort, kion, secret
  <1>2. CASE Errors(r)
    BY <1>1, <1>2, FailureKeepsSchedule
  <1>3. CASE KionUnavailable(r) /\ ~Errors(r)
    <2>1. pc[r] = "rotate" /\ UNCHANGED <<pc, force, dry, seen, fresh, troubled>>
      BY <1>3 DEF KionUnavailable, TryKionAgain
    <2>. QED
      BY <1>1, <2>1, NothingNew
  <1>4. CASE OutOfTime(r) /\ ~Errors(r)
    <2>1. pc[r] = "put" /\ Goto(r, "alert") /\ UNCHANGED <<force, dry, seen, fresh, troubled>>
      BY <1>4 DEF OutOfTime, Exhausted, memory
    <2>. QED
      BY <1>1, <2>1, NothingNew
  <1>. QED
    BY <1>2, <1>3, <1>4 DEF Reject, Alert, CutShort

(* A new key is today's. *)
LEMMA IssuingKeepsSchedule ==
  ASSUME KionInv, KionInv', ScheduleInv, NEW r \in Runs, Exchange(r) \/ LoseAnswer(r)
  PROVE  ScheduleInv'
  <1>1. /\ live' = [key |-> live.key + 1, issued |-> now] /\ UNCHANGED <<now, current, versions>>
        /\ pc[r] = "rotate" /\ live.key \in Nat /\ now \in Nat
    BY DEF Exchange, LoseAnswer, Issue, secret, KionInv, KionTypeOK, Keys, Ticks
  <1>2. live'.key = live.key + 1 /\ live'.issued = now /\ Issued' = Today'
    BY <1>1 DEF Issued, Today, Day
  <1>3. \A v \in versions : v.key # live'.key
    BY <1>1, <1>2 DEF KionInv, KionTypeOK, SecretVersion, Keys
  <1>4. StoredToday'
    BY <1>1, <1>3 DEF StoredToday
  <1>5. \A q \in Runs : fresh[q].key # live'.key
    BY <1>1, <1>2 DEF KionInv, KionTypeOK, SecretVersion, Keys
  <1>6. CASE Exchange(r)
    <2>1. /\ pc' = [pc EXCEPT ![r] = "put"] /\ pc \in [Runs -> Labels]
          /\ fresh' = [fresh EXCEPT ![r] = [key |-> live.key + 1, at |-> now]]
          /\ fresh \in [Runs -> SecretVersion] /\ UNCHANGED dry
      BY <1>6 DEF Exchange, Goto, KionInv, KionTypeOK
    <2>2. fresh'[r].at = now /\ \A q \in Runs \ {r} : fresh'[q] = fresh[q]
      BY <2>1
    <2>3. HeldToday'
      BY <1>2, <1>5, <2>2 DEF HeldToday
    <2>4. \A q \in Daily : ~dry'[q]
      BY <2>1 DEF ScheduleInv, OnSchedule
    <2>. QED
      BY <1>1, <1>2, <1>4, <2>3, <2>4, FreshDay
  <1>7. CASE LoseAnswer(r)
    <2>1. End(r) \/ UNCHANGED <<pc, dry, fresh>>
      BY <1>7 DEF LoseAnswer, TryKionAgain, Errors
    <2>2. CASE End(r)
      <3>1. /\ pc'[r] = "idle" /\ \A q \in Runs \ {r} : fresh'[q] = fresh[q]
            /\ \A q \in Runs : dry'[q] \in {dry[q], FALSE}
        BY <2>2, EndLeavesNothing DEF OthersUntouched
      <3>2. HeldToday'
        BY <1>2, <1>5, <3>1 DEF HeldToday, Holding
      <3>3. \A q \in Daily : ~dry'[q]
        BY <3>1 DEF ScheduleInv, OnSchedule, Runs
      <3>. QED
        BY <1>1, <1>2, <1>4, <3>2, <3>3, FreshDay
    <2>3. CASE UNCHANGED <<pc, dry, fresh>>
      <3>1. HeldToday'
        BY <1>2, <1>5, <2>3 DEF HeldToday
      <3>2. \A q \in Daily : ~dry'[q]
        BY <2>3 DEF ScheduleInv, OnSchedule
      <3>. QED
        BY <1>1, <1>2, <1>4, <3>1, <3>2, FreshDay
    <2>. QED
      BY <2>1, <2>2, <2>3
  <1>. QED
    BY <1>6, <1>7

(* A key is stored on the day it was issued. *)
LEMMA StoringToday ==
  ASSUME ScheduleInv, UNCHANGED <<now, live>>, NEW v, Store(v) \/ UNCHANGED secret,
         v.key = live.key => Day(v.at) = Issued
  PROVE  StoredToday'
  <1>1. Issued' = Issued /\ versions' \subseteq versions \cup {v}
    BY DEF Issued, Store, secret
  <1>. QED
    BY <1>1 DEF StoredToday, ScheduleInv

LEMMA PuttingKeepsSchedule ==
  ASSUME KionInv, KionInv', ScheduleInv, NEW r \in Runs, Put(r) \/ PutFails(r)
  PROVE  ScheduleInv'
  <1>1. pc[r] = "put" /\ UNCHANGED <<now, live>> /\ (Store(fresh[r]) \/ UNCHANGED secret)
    BY DEF Put, PutFails, kion
  <1>2. Issued = Today /\ (fresh[r].key = live.key => fresh[r].at = live.issued)
    BY <1>1 DEF ScheduleInv, HeldToday, Holding
  <1>3. Issued' = Issued /\ Today' = Today
    BY <1>1 DEF Issued, Today
  <1>4. StoredToday'
    BY <1>1, <1>2, StoringToday DEF Issued
  <1>5. \A q \in Runs : /\ pc'[q] \in Holding => pc[q] \in Holding /\ fresh'[q] = fresh[q]
                        /\ dry'[q] \in {dry[q], FALSE}
    <2>1. CASE End(r)
      BY <2>1, EndLeavesNothing DEF OthersUntouched, Holding
    <2>2. CASE UNCHANGED <<dry, fresh>> /\ (UNCHANGED pc \/ Goto(r, "alert"))
      <3>1. pc \in [Runs -> Labels]
        BY DEF KionInv, KionTypeOK
      <3>. QED
        BY <1>1, <2>2, <3>1 DEF Goto, Holding
    <2>. QED
      BY <2>1, <2>2 DEF Put, PutFails, Succeeds, Exhausted, memory
  <1>6. HeldToday'
    BY <1>1, <1>3, <1>5 DEF HeldToday, ScheduleInv
  <1>7. \A q \in Daily : ~dry'[q]
    BY <1>5 DEF ScheduleInv, OnSchedule, Runs
  <1>8. live'.issued <= now'
    BY <1>1 DEF ScheduleInv
  <1>. QED
    BY <1>2, <1>3, <1>4, <1>6, <1>7, <1>8, FreshDay

LEMMA RestoreKeepsSchedule ==
  ASSUME KionInv, KionInv', ScheduleInv, Restore
  PROVE  ScheduleInv'
  <1>. DEFINE v == [key |-> live.key, at |-> now]
  <1>1. /\ UNCHANGED <<now, live, pc, dry, fresh>> /\ Store(v) /\ Issued = Today
        /\ Day(v.at) = Issued
    BY DEF Restore, kion, memory, Issued, Today, Day
  <1>. HIDE DEF v
  <1>2. Issued' = Issued /\ Today' = Today
    BY <1>1 DEF Issued, Today
  <1>3. StoredToday'
    BY <1>1, StoringToday
  <1>4. HeldToday' /\ (\A q \in Daily : ~dry'[q]) /\ live'.issued <= now'
    BY <1>1, <1>2 DEF HeldToday, OnSchedule, ScheduleInv
  <1>. QED
    BY <1>1, <1>2, <1>3, <1>4, FreshDay

(* At midnight today's scheduled invocation has ended. *)
LEMMA TickKeepsSchedule ==
  ASSUME KionInv, ScheduleInv, ClockTicks
  PROVE  ScheduleInv'
  <1>1. /\ now \in Nat /\ now' = now + 1 /\ live.issued \in Nat
        /\ UNCHANGED <<live, current, versions, pc, dry, seen, fresh, ran, troubled>>
    BY DEF ClockTicks, kion, secret, memory, KionInv, KionTypeOK, Ticks
  <1>2. Issued' = Issued /\ (\A d : TroubledOn(d)' = TroubledOn(d)) /\ live'.issued <= now'
    BY <1>1 DEF Issued, TroubledOn, ScheduleInv
  <1>3. StoredToday'
    BY <1>1, <1>2 DEF StoredToday, ScheduleInv
  <1>4. Today \in Nat /\ Today' = Day(now + 1) /\ Today = Day(now)
    BY <1>1, DayBounds DEF Today, Day
  <1>5. CASE Today' = Today
    <2>1. Ended' = Ended
      BY <1>1, <1>5 DEF Ended
    <2>2. OnSchedule' /\ HeldToday' /\ OverdueIsTrouble'
      BY <1>1, <1>2, <1>5, <2>1 DEF OnSchedule, HeldToday, OverdueIsTrouble, ScheduleInv
    <2>. QED
      BY <1>2, <1>3, <2>2 DEF ScheduleInv
  <1>6. CASE Today' = Today + 1 /\ (now + 1) % PerDay = 0
    <2>1. ran = Today /\ \A r \in Runs : pc[r] = "idle"
      BY <1>6 DEF ClockTicks
    <2>2. OnSchedule' /\ HeldToday'
      BY <1>1, <2>1 DEF OnSchedule, HeldToday, Holding, ScheduleInv, Runs
    <2>3. Ended /\ ~Ended'
      BY <1>1, <1>4, <1>6, <2>1 DEF Ended, Runs
    <2>4. OverdueIsTrouble'
      BY <1>1, <1>2, <1>4, <1>6, <2>3 DEF OverdueIsTrouble, ScheduleInv
    <2>. QED
      BY <1>2, <1>3, <2>2, <2>4 DEF ScheduleInv
  <1>. QED
    BY <1>1, <1>4, <1>5, <1>6, Midnight

LEMMA ScheduleInit == KionInit => ScheduleInv
  <1>. SUFFICES ASSUME KionInit PROVE ScheduleInv
    OBVIOUS
  <1>1. now = 0 /\ live.issued = 0 /\ live.key = 0 /\ Today = Day(0) /\ Issued = Day(0)
    BY DEF KionInit, Issued, Today, Day
  <1>2. Day(0) \in Nat
    BY DayBounds
  <1>3. OnSchedule /\ HeldToday
    BY DEF KionInit, OnSchedule, HeldToday, Holding, Runs
  <1>4. StoredToday
    BY <1>1 DEF KionInit, StoredToday
  <1>5. OverdueIsTrouble
    BY <1>1, <1>2, NumbersAssumption DEF OverdueIsTrouble
  <1>. QED
    BY <1>1, <1>3, <1>4, <1>5 DEF ScheduleInv

LEMMA ScheduleStep == KionInv /\ KionInv' /\ ScheduleInv /\ [KionNext]_kionVars => ScheduleInv'
  <1>. SUFFICES ASSUME KionInv, KionInv', ScheduleInv, [KionNext]_kionVars PROVE ScheduleInv'
    OBVIOUS
  <1>1. CASE UNCHANGED kionVars
    BY <1>1 DEF kionVars, ScheduleInv, OnSchedule, HeldToday, StoredToday, OverdueIsTrouble, Issued,
                Today, TroubledOn, Ended
  <1>. QED
    BY <1>1, InvokeKeepsSchedule, DecideKeepsSchedule, IssuingKeepsSchedule, FailingKeepsSchedule,
       PuttingKeepsSchedule, RestoreKeepsSchedule, TickKeepsSchedule DEF KionNext

(* One bad day is survived, with any number of invocations beside the         *)
(* schedule's, if the key lives three days longer than it is left alone: the  *)
(* day of issue may not count, and there must be room for two attempts        *)
(* (Orchestrator.Run, ROTATE_AFTER_DAYS; four days and seven).                *)
THEOREM OneBadDaySurvived ==
  ASSUME Lifetime >= Threshold + 3
  PROVE  KionSpec => []OneBadDayIsSurvived
  <1>1. ASSUME KionInv, ScheduleInv PROVE OneBadDayIsSurvived
    <2>1. SUFFICES ASSUME current.key = live.key, ~troubled.again,
                          ~(now < live.issued + Lifetime * PerDay)
                   PROVE  FALSE
      BY DEF OneBadDayIsSurvived
    <2>2. now \in Nat /\ live.issued \in Nat /\ Lifetime * PerDay \in Nat
      BY <1>1, NumbersAssumption DEF KionInv, KionTypeOK, Ticks
    <2>3. Issued \in Nat /\ Today \in Nat /\ Issued + Lifetime <= Today
      <3>1. live.issued + Lifetime * PerDay <= now
        BY <2>1, <2>2
      <3>2. Day(live.issued) + Lifetime <= Day(now)
        BY <2>2, <3>1, ExpiredByThen
      <3>. QED
        BY <2>2, <3>2, DayBounds DEF Issued, Today, Day
    <2>. DEFINE first == Issued + Threshold + 1
    <2>4. /\ first \in Nat /\ first + 1 \in Nat /\ first < Today /\ first + 1 < Today
          /\ Issued + Threshold + 1 <= first /\ Issued + Threshold + 1 <= first + 1
      BY <2>3, NumbersAssumption
    <2>5. troubled.day = first /\ troubled.day = first + 1
      BY <1>1, <2>1, <2>4 DEF ScheduleInv, OverdueIsTrouble, TroubledOn
    <2>. QED
      BY <2>4, <2>5
  <1>. QED
    BY <1>1, KionInvariant, ScheduleInit, ScheduleStep, PTL DEF KionSpec
=============================================================================
