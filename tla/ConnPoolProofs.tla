--------------------------- MODULE ConnPoolProofs ---------------------------
(* Theorems of ConnPool, for every number of callers and of connections. *)
EXTENDS ConnPool, FiniteSets, FiniteSetTheorems, TLAPS

(* What caller c holds besides the connection it is about to use. *)
Spare(c) ==
  {k \in Conns : owner[k] = c /\ ~(pc[c] \in Using /\ k = slot[c])}

(* Only the statement's connection of a write whose event is being recorded
   is held besides, and it is one connection. *)
SparesOne(c) ==
  \A k \in Spare(c) :
    /\ pc[c] # "idle" /\ role[c] = "event" /\ c \in Writers
    /\ \A j \in Spare(c) : j = k

(* Secret.mu is held from a fetch to the assignment that follows it. *)
LockHeld == \A c \in Callers : pc[c] \in Fetching <=> mutex = c

(* As long as no rotation is under way, what a caller has fetched since Conn
   was entered is the current version, and nobody replaces it by another. *)
Current(c) ==
  calm[c] =>
    /\ Settled
    /\ pc[c] = "refreshing" => fetched = secret
    /\ attempt[c] = 2 => cached = secret /\ (mutex # Free => fetched = secret)
    /\ attempt[c] = 2 /\ pc[c] = "dial" => creds[c] = secret
    /\ result[c] \notin {"auth", "unrecorded_auth"}

Pending == \A c \in Callers : pc[c] # "idle" => result[c] = "none"

IInv ==
  /\ TypeOK /\ LockHeld /\ Pending
  /\ \A c \in Callers : SparesOne(c) /\ Current(c)

(* Callers other than c are not disturbed by c. *)
LEMMA OthersKept ==
  ASSUME NEW c \in Callers, \A d \in Callers \ {c} : SparesOne(d),
         \A d \in Callers \ {c} :
           /\ pc'[d] = pc[d] /\ slot'[d] = slot[d] /\ role'[d] = role[d]
           /\ \A k \in Conns : owner'[k] = d => owner[k] = d
  PROVE  \A d \in Callers \ {c} : SparesOne(d)'
  <1>. SUFFICES ASSUME NEW d \in Callers \ {c} PROVE SparesOne(d)'
    OBVIOUS
  <1>1. pc'[d] = pc[d] /\ slot'[d] = slot[d] /\ role'[d] = role[d]
    OBVIOUS
  <1>2. Spare(d)' \subseteq Spare(d)
    BY <1>1 DEF Spare
  <1>. QED
    BY <1>1, <1>2 DEF SparesOne

LEMMA InvInit == Init => IInv
  BY CallersAssumption, RotationsAssumption
     DEF Init, IInv, TypeOK, LockHeld, Pending, Current, SparesOne, Spare, Labels, Using,
         Fetching, Results, Settled

(* Every step keeps the types, and nobody uses a connection of another's. *)
LEMMA TypeStep == TypeOK /\ [Next]_vars => TypeOK'
  <1>. SUFFICES ASSUME TypeOK, [Next]_vars PROVE TypeOK'
    OBVIOUS
  <1>. USE CallersAssumption, RotationsAssumption DEF TypeOK, rotation, cache
  <1>1. ASSUME NEW c \in Callers, Call(c) PROVE TypeOK'
    BY <1>1 DEF Call, Enter, Goto, Settled, Labels, Using, Results
  <1>2. ASSUME NEW c \in Callers, TakeIdle(c) PROVE TypeOK'
    <2>1. PICK k \in Conns : /\ owner[k] = Free
                             /\ owner' = [owner EXCEPT ![k] = c]
                             /\ slot' = [slot EXCEPT ![c] = k]
      BY <1>2 DEF TakeIdle
    <2>2. pc' = [pc EXCEPT ![c] = "query"]
      BY <1>2 DEF TakeIdle, Goto
    <2>3. \A d \in Callers : pc'[d] \in Using => slot'[d] \in Conns /\ owner'[slot'[d]] = d
      BY <2>1, <2>2
    <2>. QED
      BY <1>2, <2>1, <2>2, <2>3 DEF TakeIdle, Labels, Using
  <1>3. ASSUME NEW c \in Callers, Construct(c) PROVE TypeOK'
    <2>1. PICK k \in Conns : /\ owner[k] = Closed
                             /\ owner' = [owner EXCEPT ![k] = c]
                             /\ slot' = [slot EXCEPT ![c] = k]
      BY <1>3 DEF Construct
    <2>2. pc' = [pc EXCEPT ![c] = "connect"]
      BY <1>3 DEF Construct, Goto
    <2>3. \A d \in Callers : pc'[d] \in Using => slot'[d] \in Conns /\ owner'[slot'[d]] = d
      BY <2>1, <2>2
    <2>. QED
      BY <1>3, <2>1, <2>2, <2>3 DEF Construct, Labels, Using
  <1>4. ASSUME NEW c \in Callers, Connect(c) PROVE TypeOK'
    <2>1. pc' \in [Callers -> Labels] /\ pc[c] \in Using
      BY <1>4 DEF Connect, Fetch, Goto, Labels, Using
    <2>2. /\ mutex' \in Callers \cup {Free} /\ fetched' \in 0..secret
          /\ creds' \in [Callers -> 0..secret]
      BY <1>4 DEF Connect, Fetch, Lock
    <2>3. \A d \in Callers : pc'[d] \in Using => pc[d] \in Using
      BY <1>4, <2>1 DEF Connect, Fetch, Goto
    <2>. QED
      BY <1>4, <2>1, <2>2, <2>3 DEF Connect
  <1>5. ASSUME NEW c \in Callers, Refresh(c) PROVE TypeOK'
    BY <1>5 DEF Refresh, Fetch, Lock, Goto, Labels, Using
  <1>6. ASSUME NEW c \in Callers, Replace(c) PROVE TypeOK'
    <2>1. pc' \in [Callers -> Labels] /\ attempt' \in [Callers -> {1, 2}]
      BY <1>6 DEF Replace, Goto, Labels, Using
    <2>2. cached' \in 0..secret /\ mutex' = Free /\ fetched' \in 0..secret
          /\ creds' \in [Callers -> 0..secret]
      BY <1>6 DEF Replace
    <2>3. \A d \in Callers : pc'[d] \in Using => pc[d] \in Using
      BY <1>6 DEF Replace, Goto, Using
    <2>. QED
      BY <1>6, <2>1, <2>2, <2>3 DEF Replace
  <1>7. ASSUME NEW c \in Callers, Authenticate(c) PROVE TypeOK'
    <2>0. /\ pc[c] = "dial" /\ slot' = slot /\ slot[c] \in Conns /\ owner[slot[c]] = c
          /\ creds' \in [Callers -> 0..secret]
      BY <1>7 DEF Authenticate, Using
    <2>1. pc' \in [Callers -> Labels] /\ result' \in [Callers -> Results]
      BY <1>7 DEF Authenticate, Goto, Return, Labels, Using, Results
    <2>2. owner' \in [Conns -> Callers \cup {Free, Closed}]
      BY <1>7 DEF Authenticate, BrokenBy
    <2>3. \A d \in Callers : pc'[d] \in Using => slot'[d] \in Conns /\ owner'[slot'[d]] = d
      BY <1>7, <2>0 DEF Authenticate, Goto, Return, BrokenBy, Using
    <2>. QED
      BY <1>7, <2>0, <2>1, <2>2, <2>3 DEF Authenticate
  <1>8. ASSUME NEW c \in Callers, Query(c) PROVE TypeOK'
    <2>1. pc' \in [Callers -> Labels] /\ result' \in [Callers -> Results]
      BY <1>8 DEF Query, Enter, Goto, Labels, Results
    <2>2. owner' \in [Conns -> Callers \cup {Free, Closed}]
      BY <1>8 DEF Query, ReleasedBy
    <2>3. /\ role' \in [Callers -> {"statement", "event"}] /\ attempt' \in [Callers -> {1, 2}]
          /\ calm' \in [Callers -> BOOLEAN]
      BY <1>8 DEF Query, Enter, Settled
    <2>4. \A d \in Callers : pc'[d] \in Using => slot'[d] \in Conns /\ owner'[slot'[d]] = d
      BY <1>8 DEF Query, Enter, Goto, ReleasedBy, Using
    <2>. QED
      BY <1>8, <2>1, <2>2, <2>3, <2>4 DEF Query
  <1>9. ASSUME NEW c \in Callers, Fail(c) PROVE TypeOK'
    <2>1. pc' \in [Callers -> Labels] /\ result' \in [Callers -> Results]
      BY <1>9 DEF Fail, Return, Goto, Labels, Results
    <2>2. owner' \in [Conns -> Callers \cup {Free, Closed}]
      BY <1>9 DEF Fail, ReleasedBy, BrokenBy
    <2>3. \A d \in Callers : pc'[d] \in Using => slot'[d] \in Conns /\ owner'[slot'[d]] = d
      BY <1>9 DEF Fail, Return, Goto, ReleasedBy, BrokenBy, Using
    <2>4. mutex' \in Callers \cup {Free} /\ fetched' \in 0..secret /\ creds' \in [Callers -> 0..secret]
      BY <1>9 DEF Fail
    <2>. QED
      BY <1>9, <2>1, <2>2, <2>3, <2>4 DEF Fail
  <1>10. ASSUME NEW k \in Conns, Recycle(k) PROVE TypeOK'
    BY <1>10 DEF Recycle
  <1>11. ASSUME NEW k \in Conns, Open(k) PROVE TypeOK'
    <2>1. cached' \in 0..secret
      BY <1>11 DEF Open
    <2>. QED
      BY <1>11, <2>1 DEF Open
  <1>12. CASE RotatePassword
    <2>1. /\ password' \in 0..Rotations /\ secret' \in 0..password'
          /\ secret' = secret
      BY <1>12 DEF RotatePassword, Settled
    <2>. QED
      BY <1>12, <2>1 DEF RotatePassword
  <1>13. CASE PublishSecret
    <2>1. /\ secret' \in 0..password /\ \A v \in 0..secret : v \in 0..secret'
      BY <1>13 DEF PublishSecret, Settled
    <2>. QED
      BY <1>13, <2>1 DEF PublishSecret
  <1>14. CASE UNCHANGED vars
    BY <1>14 DEF vars
  <1>. QED
    BY <1>1, <1>2, <1>3, <1>4, <1>5, <1>6, <1>7, <1>8, <1>9, <1>10, <1>11, <1>12, <1>13, <1>14
       DEF Next, Advance

(* Every step keeps the connections that callers hold besides. *)
LEMMA SparesStep == IInv /\ [Next]_vars => \A c \in Callers : SparesOne(c)'
  <1>. SUFFICES ASSUME IInv, [Next]_vars PROVE \A c \in Callers : SparesOne(c)'
    OBVIOUS
  <1>0. TypeOK /\ TypeOK' /\ \A c \in Callers : SparesOne(c)
    BY TypeStep DEF IInv
  <1>. USE CallersAssumption DEF rotation, cache
  <1>a. /\ owner \in [Conns -> Callers \cup {Free, Closed}]
        /\ pc \in [Callers -> Labels] /\ role \in [Callers -> {"statement", "event"}]
        /\ slot \in [Callers -> Conns \cup {Closed}]
        /\ \A c \in Callers : pc[c] \in Using => slot[c] \in Conns /\ owner[slot[c]] = c
    BY <1>0 DEF TypeOK
  <1>1. ASSUME NEW c \in Callers, Call(c) \/ Advance(c) \/ Fail(c)
        PROVE  \A d \in Callers : SparesOne(d)'
    <2>. USE DEF Advance
    <2>1. \A d \in Callers \ {c} :
            pc'[d] = pc[d] /\ slot'[d] = slot[d] /\ role'[d] = role[d]
      BY <1>1, <1>a DEF Call, TakeIdle, Construct, Connect, Refresh, Replace, Authenticate,
                        Query, Fail, Fetch, Enter, Return, Goto
    <2>2. \A d \in Callers \ {c} : \A k \in Conns : owner'[k] = d => owner[k] = d
      BY <1>1, <1>a DEF Call, TakeIdle, Construct, Connect, Refresh, Replace, Authenticate,
                        Query, Fail, ReleasedBy, BrokenBy
    <2>3. SparesOne(c)'
      <3>1. CASE Call(c)
        BY <1>0, <1>a, <3>1 DEF Call, Enter, Goto, SparesOne, Spare, Using
      <3>2. CASE TakeIdle(c) \/ Construct(c)
        <4>1. PICK k \in Conns : /\ owner' = [owner EXCEPT ![k] = c]
                                 /\ slot' = [slot EXCEPT ![c] = k]
          BY <3>2 DEF TakeIdle, Construct
        <4>2. /\ pc[c] = "acquire" /\ pc'[c] \in Using /\ role' = role
          BY <1>a, <3>2 DEF TakeIdle, Construct, Goto, Using
        <4>3. Spare(c)' \subseteq Spare(c)
          BY <1>a, <4>1, <4>2 DEF Spare, Using
        <4>. QED
          BY <1>0, <4>2, <4>3 DEF SparesOne, Using
      <3>3. CASE Connect(c) \/ Refresh(c) \/ Replace(c)
        <4>1. /\ owner' = owner /\ slot' = slot /\ role' = role
              /\ pc[c] # "idle" /\ pc'[c] # "idle"
              /\ pc[c] \in Using <=> pc'[c] \in Using
          BY <1>a, <3>3 DEF Connect, Refresh, Replace, Fetch, Goto, Using, Fetching
        <4>2. Spare(c)' = Spare(c)
          BY <4>1 DEF Spare
        <4>. QED
          BY <1>0, <4>1, <4>2 DEF SparesOne
      <3>4. CASE Authenticate(c)
        <4>1. CASE pc'[c] = "idle"
          <5>1. \A k \in Conns : owner'[k] # c
            BY <1>a, <3>4, <4>1 DEF Authenticate, Goto, Return, BrokenBy
          <5>. QED
            BY <5>1 DEF SparesOne, Spare
        <4>2. CASE pc'[c] # "idle"
          <5>1. Spare(c)' \subseteq Spare(c)
            BY <1>a, <3>4, <4>2 DEF Authenticate, Goto, Return, Spare, Using
          <5>2. role' = role /\ pc[c] # "idle"
            BY <3>4 DEF Authenticate
          <5>. QED
            BY <1>0, <4>2, <5>1, <5>2 DEF SparesOne
        <4>. QED
          BY <4>1, <4>2
      <3>5. CASE Query(c)
        <4>1. CASE role[c] = "statement" /\ c \in Writers
          <5>1. /\ pc[c] = "query" /\ pc'[c] = "acquire" /\ role'[c] = "event"
                /\ owner' = owner
            BY <1>a, <3>5, <4>1 DEF Query, Enter, Goto
          <5>2. Spare(c) = {}
            BY <1>0, <4>1 DEF SparesOne
          <5>3. \A k \in Spare(c)' : k = slot[c]
            BY <1>a, <5>1, <5>2 DEF Spare
          <5>. QED
            BY <4>1, <5>1, <5>3 DEF SparesOne
        <4>2. CASE ~(role[c] = "statement" /\ c \in Writers)
          <5>1. \A k \in Conns : owner'[k] # c
            BY <1>a, <3>5, <4>2 DEF Query, ReleasedBy
          <5>. QED
            BY <5>1 DEF SparesOne, Spare
        <4>. QED
          BY <4>1, <4>2
      <3>6. CASE Fail(c)
        <4>1. \A k \in Conns : owner'[k] # c
          BY <1>a, <3>6 DEF Fail, ReleasedBy, BrokenBy
        <4>. QED
          BY <4>1 DEF SparesOne, Spare
      <3>. QED
        BY <1>1, <3>1, <3>2, <3>3, <3>4, <3>5, <3>6
    <2>4. \A d \in Callers \ {c} : SparesOne(d)'
      BY <1>0, <2>1, <2>2, OthersKept
    <2>. QED
      BY <2>3, <2>4
  <1>2. CASE \/ \E k \in Conns : Recycle(k) \/ Open(k)
             \/ RotatePassword \/ PublishSecret \/ UNCHANGED vars
    <2>1. /\ pc' = pc /\ slot' = slot /\ role' = role
          /\ \A d \in Callers : \A k \in Conns : owner'[k] = d => owner[k] = d
      BY <1>2, <1>a DEF Recycle, Open, RotatePassword, PublishSecret, vars
    <2>2. \A d \in Callers : Spare(d)' \subseteq Spare(d)
      BY <2>1 DEF Spare
    <2>. QED
      BY <1>0, <2>1, <2>2 DEF SparesOne
  <1>. QED
    BY <1>1, <1>2 DEF Next

(* The mutex is held from each fetch to its assignment, and a call that is
   under way has no result yet. *)
LEMMA LockStep == TypeOK /\ LockHeld /\ Pending /\ [Next]_vars => LockHeld' /\ Pending'
  <1>. SUFFICES ASSUME TypeOK, LockHeld, Pending, [Next]_vars PROVE LockHeld' /\ Pending'
    OBVIOUS
  <1>. USE CallersAssumption DEF rotation, cache
  <1>0. /\ pc \in [Callers -> Labels] /\ result \in [Callers -> Results]
        /\ mutex \in Callers \cup {Free}
    BY DEF TypeOK
  <1>1. ASSUME NEW c \in Callers,
               Call(c) \/ TakeIdle(c) \/ Construct(c) \/ Authenticate(c) \/ Query(c)
        PROVE  LockHeld' /\ Pending'
    <2>1. /\ mutex' = mutex /\ pc[c] \notin Fetching /\ pc'[c] \notin Fetching
          /\ \A d \in Callers \ {c} : pc'[d] = pc[d] /\ result'[d] = result[d]
      BY <1>0, <1>1 DEF Call, TakeIdle, Construct, Authenticate, Query, Enter, Return, Goto, Fetching
    <2>2. pc'[c] # "idle" => result'[c] = "none"
      BY <1>0, <1>1 DEF Call, TakeIdle, Construct, Authenticate, Query, Enter, Return, Goto, Pending
    <2>. QED
      BY <2>1, <2>2 DEF LockHeld, Pending
  <1>2. ASSUME NEW c \in Callers, Connect(c) \/ Refresh(c) PROVE LockHeld' /\ Pending'
    BY <1>0, <1>2 DEF Connect, Refresh, Fetch, Lock, Goto, Fetching, LockHeld, Pending
  <1>3. ASSUME NEW c \in Callers, Replace(c) PROVE LockHeld' /\ Pending'
    BY <1>0, <1>3 DEF Replace, Goto, Fetching, LockHeld, Pending
  <1>4. ASSUME NEW c \in Callers, Fail(c) PROVE LockHeld' /\ Pending'
    <2>1. /\ pc'[c] = "idle" /\ mutex' = IF mutex = c THEN Free ELSE mutex
          /\ \A d \in Callers \ {c} : pc'[d] = pc[d] /\ result'[d] = result[d]
      BY <1>0, <1>4 DEF Fail, Return, Goto
    <2>. QED
      BY <2>1 DEF LockHeld, Pending, Fetching
  <1>5. CASE \/ \E k \in Conns : Recycle(k) \/ Open(k)
             \/ RotatePassword \/ PublishSecret \/ UNCHANGED vars
    BY <1>5 DEF Recycle, Open, RotatePassword, PublishSecret, vars, LockHeld, Pending
  <1>. QED
    BY <1>1, <1>2, <1>3, <1>4, <1>5 DEF Next, Advance

(* Every step keeps what callers know of the current version. *)
LEMMA CurrentStep == IInv /\ [Next]_vars => \A c \in Callers : Current(c)'
  <1>. SUFFICES ASSUME IInv, [Next]_vars, NEW c \in Callers PROVE Current(c)'
    BY DEF IInv
  <1>. USE CallersAssumption DEF rotation, cache
  <1>0. /\ TypeOK /\ LockHeld /\ Pending
        /\ pc \in [Callers -> Labels] /\ attempt \in [Callers -> {1, 2}]
        /\ result \in [Callers -> Results] /\ calm \in [Callers -> BOOLEAN]
        /\ mutex \in Callers \cup {Free} /\ creds \in [Callers -> 0..secret]
        /\ role \in [Callers -> {"statement", "event"}]
    BY DEF IInv, TypeOK
  <1>1. Current(c)
    BY DEF IInv
  <1>2. ASSUME NEW d \in Callers, Call(d) \/ Advance(d) \/ Fail(d) PROVE Current(c)'
    <2>. USE DEF Advance
    <2>0. password' = password /\ secret' = secret
      BY <1>2 DEF Call, TakeIdle, Construct, Connect, Refresh, Replace, Authenticate, Query, Fail
    <2>1. CASE d # c
      <3>1. /\ pc'[c] = pc[c] /\ attempt'[c] = attempt[c] /\ creds'[c] = creds[c]
            /\ result'[c] = result[c] /\ calm'[c] = calm[c]
        BY <1>0, <1>2, <2>1 DEF Call, TakeIdle, Construct, Connect, Refresh, Replace,
             Authenticate, Query, Fail, Fetch, Enter, Return, Goto
      <3>2. CASE Connect(d) \/ Refresh(d)
        <4>1. \/ mutex' = mutex /\ fetched' = fetched
              \/ mutex = Free /\ fetched' = secret
          BY <3>2 DEF Connect, Refresh, Fetch, Lock
        <4>2. cached' = cached
          BY <3>2 DEF Connect, Refresh
        <4>3. pc[c] = "refreshing" => mutex # Free
          BY <1>0 DEF LockHeld, Fetching
        <4>. QED
          BY <1>1, <2>0, <3>1, <4>1, <4>2, <4>3 DEF Current, Settled
      <3>3. CASE Replace(d)
        <4>1. pc[c] # "refreshing" /\ mutex = d
          BY <1>0, <2>1, <3>3 DEF Replace, LockHeld, Fetching
        <4>2. cached' = fetched /\ mutex' = Free
          BY <3>3 DEF Replace
        <4>. QED
          BY <1>1, <2>0, <3>1, <4>1, <4>2 DEF Current, Settled
      <3>4. CASE Fail(d)
        <4>1. cached' = cached /\ ((mutex' = mutex /\ fetched' = fetched) \/ (mutex = d /\ mutex' = Free))
          BY <3>4 DEF Fail
        <4>2. mutex = d => pc[c] # "refreshing"
          BY <1>0, <2>1 DEF LockHeld, Fetching
        <4>. QED
          BY <1>1, <2>0, <3>1, <4>1, <4>2 DEF Current, Settled
      <3>5. CASE Call(d) \/ TakeIdle(d) \/ Construct(d) \/ Authenticate(d) \/ Query(d)
        <4>1. cached' = cached /\ mutex' = mutex /\ fetched' = fetched
          BY <3>5 DEF Call, TakeIdle, Construct, Authenticate, Query
        <4>. QED
          BY <1>1, <2>0, <3>1, <4>1 DEF Current, Settled
      <3>. QED
        BY <1>2, <3>2, <3>3, <3>4, <3>5
    <2>2. CASE d = c
      <3>1. CASE Call(c) \/ (Query(c) /\ role[c] = "statement" /\ c \in Writers)
        <4>1. /\ attempt'[c] = 1 /\ pc'[c] = "acquire" /\ (calm'[c] => Settled)
          BY <1>0, <3>1 DEF Call, Query, Enter, Goto
        <4>2. result'[c] = "none"
          BY <1>0, <3>1 DEF Call, Query, Pending
        <4>. QED
          BY <2>0, <4>1, <4>2 DEF Current, Settled
      <3>2. CASE TakeIdle(c) \/ Construct(c) \/ (Query(c) /\ ~(role[c] = "statement" /\ c \in Writers))
        <4>1. /\ attempt' = attempt /\ calm' = calm /\ pc'[c] \notin {"refreshing", "dial"}
              /\ cached' = cached /\ mutex' = mutex /\ fetched' = fetched
              /\ result'[c] \in {result[c], "ok"}
          BY <1>0, <3>2 DEF TakeIdle, Construct, Query, Goto
        <4>. QED
          BY <1>1, <2>0, <4>1 DEF Current, Settled
      <3>3. CASE Connect(c)
        <4>1. /\ attempt' = attempt /\ calm' = calm /\ cached' = cached /\ result' = result
              /\ pc'[c] # "refreshing"
              /\ \/ mutex = Free /\ mutex' = Free /\ creds'[c] = cached
                 \/ pc'[c] = "overdue" /\ fetched' = secret
          BY <1>0, <3>3 DEF Connect, Fetch, Lock, Goto
        <4>. QED
          BY <1>1, <2>0, <4>1 DEF Current, Settled
      <3>4. CASE Refresh(c)
        <4>1. /\ attempt' = attempt /\ calm' = calm /\ cached' = cached /\ result' = result
              /\ pc'[c] = "refreshing" /\ fetched' = secret
          BY <1>0, <3>4 DEF Refresh, Fetch, Goto
        <4>. QED
          BY <1>1, <2>0, <4>1 DEF Current, Settled
      <3>5. CASE Replace(c)
        <4>1. /\ calm' = calm /\ cached' = fetched /\ mutex' = Free /\ result' = result
              /\ pc'[c] # "refreshing" /\ mutex # Free
          BY <1>0, <3>5 DEF Replace, Goto, LockHeld, Fetching
        <4>2. \/ pc[c] = "overdue" /\ attempt' = attempt /\ creds'[c] = fetched
              \/ pc[c] = "refreshing" /\ pc'[c] = "acquire"
          BY <1>0, <3>5 DEF Replace, Goto
        <4>. QED
          BY <1>0, <1>1, <2>0, <4>1, <4>2 DEF Current, Settled
      <3>6. CASE Authenticate(c)
        <4>1. /\ attempt' = attempt /\ calm' = calm /\ cached' = cached
              /\ mutex' = mutex /\ fetched' = fetched
              /\ pc[c] = "dial" /\ pc'[c] \notin {"refreshing", "dial"}
          BY <1>0, <3>6 DEF Authenticate, Goto, Return
        <4>2. result'[c] \in {"auth", "unrecorded_auth"} =>
                result'[c] = result[c] \/ (creds[c] # password /\ attempt[c] = 2)
          BY <1>0, <3>6 DEF Authenticate, Return
        <4>. QED
          BY <1>1, <2>0, <4>1, <4>2 DEF Current, Settled
      <3>7. CASE Fail(c)
        <4>1. /\ attempt' = attempt /\ calm' = calm /\ cached' = cached
              /\ pc'[c] = "idle" /\ result'[c] \in {"failed", "unrecorded"}
              /\ (mutex' = mutex /\ fetched' = fetched) \/ mutex' = Free
          BY <1>0, <3>7 DEF Fail, Return, Goto
        <4>. QED
          BY <1>1, <2>0, <4>1 DEF Current, Settled
      <3>. QED
        BY <1>2, <2>2, <3>1, <3>2, <3>3, <3>4, <3>5, <3>6, <3>7
    <2>. QED
      BY <2>1, <2>2
  <1>3. ASSUME NEW k \in Conns, Recycle(k) \/ Open(k) PROVE Current(c)'
    <2>1. /\ cached' = cached \/ cached' \in cached..secret
          /\ password' = password /\ secret' = secret /\ mutex' = mutex /\ fetched' = fetched
          /\ pc' = pc /\ attempt' = attempt /\ creds' = creds /\ result' = result /\ calm' = calm
      BY <1>3 DEF Recycle, Open
    <2>2. secret \in Nat /\ (cached = secret /\ cached' \in cached..secret => cached' = secret)
      BY RotationsAssumption, <1>0 DEF TypeOK
    <2>. QED
      BY <1>1, <2>1, <2>2 DEF Current, Settled
  <1>4. CASE RotatePassword
    BY <1>4 DEF RotatePassword, Current
  <1>5. CASE PublishSecret
    BY <1>1, <1>5 DEF PublishSecret, Current
  <1>6. CASE UNCHANGED vars
    BY <1>1, <1>6 DEF vars, Current, Settled
  <1>. QED
    BY <1>2, <1>3, <1>4, <1>5, <1>6 DEF Next

(* Every step keeps the invariant. *)
LEMMA InvStep == IInv /\ [Next]_vars => IInv'
  <1>. SUFFICES ASSUME IInv, [Next]_vars PROVE IInv'
    OBVIOUS
  <1>1. TypeOK' /\ LockHeld' /\ Pending'
    BY TypeStep, LockStep DEF IInv
  <1>2. \A c \in Callers : SparesOne(c)' /\ Current(c)'
    BY SparesStep, CurrentStep
  <1>. QED
    BY <1>1, <1>2 DEF IInv

(* The invariant holds in every reachable state. *)
THEOREM Invariance == Spec => []IInv
  BY InvInit, InvStep, PTL DEF Spec

(* Every variable keeps its type, and a caller only ever uses a connection
   that is its own: none is handed to two callers. *)
THEOREM TypeCorrect == Spec => []TypeOK
  <1>1. IInv => TypeOK
    BY DEF IInv
  <1>. QED
    BY <1>1, Invariance, PTL

(* A settled rotation never reaches a caller, for every number of callers,
   connections and rotations. *)
THEOREM RotationsArePickedUp == Spec => []RotationIsPickedUp
  <1>1. IInv => RotationIsPickedUp
    BY DEF IInv, Current, RotationIsPickedUp
  <1>. QED
    BY <1>1, Invariance, PTL

(* With more connections than concurrent writers the pool never runs dry on
   callers that all wait for another connection: one per writer is all that
   recording events can withhold. *)
LEMMA SpareConnection ==
  ASSUME IsFiniteSet(Conns), IsFiniteSet(Writers),
         Cardinality(Writers) < Cardinality(Conns), IInv
  PROVE  NotExhausted
  <1>. SUFFICES ASSUME \A k \in Conns : owner[k] \in Callers,
                       \A k \in Conns : pc[owner[k]] = "acquire"
                PROVE  FALSE
    BY DEF NotExhausted
  <1>. DEFINE f == [k \in Conns |-> owner[k]]
  <1>1. ASSUME NEW k \in Conns
        PROVE  owner[k] \in Writers /\ \A j \in Conns : owner[j] = owner[k] => j = k
    <2>1. SparesOne(owner[k])
      BY DEF IInv
    <2>2. \A j \in Conns : owner[j] = owner[k] => j \in Spare(owner[k])
      BY DEF Spare, Using
    <2>. QED
      BY <2>1, <2>2 DEF SparesOne
  <1>2. f \in [Conns -> Writers]
    BY <1>1
  <1>3. \E x, y \in Conns : x # y /\ f[x] = f[y]
    <2>. HIDE DEF f
    <2>. QED
      BY <1>2, FS_PigeonHole
  <1>. QED
    BY <1>1, <1>3

(* So it stays for the whole run. *)
THEOREM SparePoolIsNotExhausted ==
  ASSUME IsFiniteSet(Conns), IsFiniteSet(Writers),
         Cardinality(Writers) < Cardinality(Conns)
  PROVE  Spec => []NotExhausted
  <1>1. IInv => NotExhausted
    BY SpareConnection
  <1>. QED
    BY <1>1, Invariance, PTL
=============================================================================
