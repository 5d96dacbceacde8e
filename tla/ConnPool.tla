------------------------------ MODULE ConnPool ------------------------------
(***************************************************************************)
(* The shared database pool and the calls that go through it: query and    *)
(* queryRow acquire a connection, queryRow records an audit event for a    *)
(* write BEFORE it releases that connection, and the event's own queryRow  *)
(* acquires a second one.  RDS rotates the password meanwhile: a           *)
(* connection opened with a stale secret fails authentication, and Conn    *)
(* refreshes the secret and tries once more.                               *)
(*                                                                         *)
(* The secret's cache is read and replaced under a mutex that is held over *)
(* the calls to Secrets Manager: GetSecretValue at one moment, then        *)
(* DescribeSecret, then the assignment.  Whether a read finds the rotation *)
(* date overdue is left open: the date that DescribeSecret returned may be *)
(* newer than the value, and Value waits 23 hours past it.                 *)
(*                                                                         *)
(* A caller is a request's goroutine; it makes calls one after another.    *)
(* The process has read the secret once, at startup: migrations run before *)
(* the first request.                                                      *)
(***************************************************************************)
EXTENDS Naturals

CONSTANTS
  Callers, Writers,  \* goroutines, and those whose calls write
  Conns,             \* the pool's slots: as many as maxConns
  Free, Closed,      \* "owners" of a slot whose connection is idle, or that has
                     \* none; Free is the mutex's when nobody holds it
  Rotations          \* bound: how often the password is rotated

ASSUME CallersAssumption ==
  Writers \subseteq Callers /\ {Free, Closed} \cap Callers = {} /\ Free # Closed
ASSUME RotationsAssumption == Rotations \in Nat

VARIABLES
  owner,    \* who has each slot
  pc,       \* per caller
  role,     \* what the caller acquires for: its statement, or the audit event
  attempt,  \* Conn's first or second Acquire
  slot,     \* the slot the caller's last Acquire was given
  result,   \* how its last call ended
  password, \* the database's password, by version
  secret,   \* the version in Secrets Manager
  cached,   \* the version this process has read
  mutex,    \* who holds Secret.mu
  fetched,  \* the version that its holder got from Secrets Manager
  creds,    \* per caller, the version it opens its connection with
  calm      \* history: no rotation was under way since Conn was entered

rotation == <<password, secret>>
cache == <<cached, mutex, fetched>>
vars == <<owner, pc, role, attempt, slot, result, rotation, cache, creds, calm>>

Fetching == {"overdue", "refreshing"}
Using == {"connect", "overdue", "dial", "query"}
Labels == {"idle", "acquire", "refresh", "refreshing"} \cup Using
Results == {"none", "ok", "auth", "failed", "unrecorded_auth", "unrecorded"}

(* The types, and that a connection in use by a statement is held by exactly
   its caller (pgxpool's Conn, from Acquire to Release). *)
TypeOK ==
  /\ owner \in [Conns -> Callers \cup {Free, Closed}]
  /\ pc \in [Callers -> Labels]
  /\ role \in [Callers -> {"statement", "event"}]
  /\ attempt \in [Callers -> {1, 2}]
  /\ slot \in [Callers -> Conns \cup {Closed}]
  /\ \A c \in Callers : pc[c] \in Using =>
       slot[c] \in Conns /\ owner[slot[c]] = c
  /\ result \in [Callers -> Results]
  /\ password \in 0..Rotations /\ secret \in 0..password /\ cached \in 0..secret
  /\ mutex \in Callers \cup {Free} /\ fetched \in 0..secret
  /\ creds \in [Callers -> 0..secret]
  /\ calm \in [Callers -> BOOLEAN]

Init ==
  /\ owner = [k \in Conns |-> Closed]
  /\ pc = [c \in Callers |-> "idle"]
  /\ role = [c \in Callers |-> "statement"]
  /\ attempt = [c \in Callers |-> 1]
  /\ slot = [c \in Callers |-> Closed]
  /\ result = [c \in Callers |-> "none"]
  /\ password = 0 /\ secret = 0 /\ cached = 0
  /\ mutex = Free /\ fetched = 0
  /\ creds = [c \in Callers |-> 0]
  /\ calm = [c \in Callers |-> FALSE]

-----------------------------------------------------------------------------
Goto(c, label) == pc' = [pc EXCEPT ![c] = label]
Held(c) == {k \in Conns : owner[k] = c}
Settled == password = secret

(* Conn is entered: by query and queryRow for the statement, and again by
   recordEvent's queryRow for the event. *)
Enter(c, purpose) ==
  /\ Goto(c, "acquire")
  /\ role' = [role EXCEPT ![c] = purpose]
  /\ attempt' = [attempt EXCEPT ![c] = 1]
  /\ calm' = [calm EXCEPT ![c] = Settled]

(* Variant: no deferred Release. *)
KeptBy(c) == UNCHANGED owner

(* Variant: a second Release of a connection that was returned before. *)
ReleasedAgainBy(c) ==
  owner' = [k \in Conns |-> IF owner[k] = c \/ k = slot[c] THEN Free ELSE owner[k]]

(* The deferred Release of every connection the call holds. *)
ReleasedBy(c) == owner' = [k \in Conns |-> IF owner[k] = c THEN Free ELSE owner[k]]

(* The connection last acquired is broken: it is closed, the other released. *)
BrokenBy(c) ==
  owner' = [k \in Conns |-> IF k = slot[c] THEN Closed
                            ELSE IF owner[k] = c THEN Free ELSE owner[k]]

(* The call returns.  An event that could not be recorded is no error of the
   statement it describes. *)
Return(c, outcome) ==
  /\ Goto(c, "idle")
  /\ result' = [result EXCEPT ![c] =
       IF role[c] = "event"
       THEN IF outcome = "auth" THEN "unrecorded_auth" ELSE "unrecorded"
       ELSE outcome]

-----------------------------------------------------------------------------
Call(c) ==
  /\ pc[c] = "idle"
  /\ Enter(c, "statement")
  /\ result' = [result EXCEPT ![c] = "none"]
  /\ UNCHANGED <<owner, slot, rotation, cache, creds>>

(* Acquire: an idle connection if there is one, else a new one if the pool is
   not full, else wait. *)
TakeIdle(c) ==
  /\ pc[c] = "acquire"
  /\ \E k \in Conns : /\ owner[k] = Free
                      /\ owner' = [owner EXCEPT ![k] = c]
                      /\ slot' = [slot EXCEPT ![c] = k]
  /\ Goto(c, "query")
  /\ UNCHANGED <<role, attempt, result, rotation, cache, creds, calm>>

Construct(c) ==
  /\ pc[c] = "acquire"
  /\ \A k \in Conns : owner[k] # Free
  /\ \E k \in Conns : /\ owner[k] = Closed
                      /\ owner' = [owner EXCEPT ![k] = c]
                      /\ slot' = [slot EXCEPT ![c] = k]
  /\ Goto(c, "connect")
  /\ UNCHANGED <<role, attempt, result, rotation, cache, creds, calm>>

(* Variant: nobody waits for the mutex. *)
LockIgnored(c) == mutex' = c

Lock(c) == mutex = Free /\ mutex' = c

(* GetSecretValue, with the mutex held. *)
Fetch(c, label) ==
  /\ Lock(c)
  /\ fetched' = secret
  /\ Goto(c, label)

(* BeforeConnect reads the cached secret, or finds it overdue. *)
Connect(c) ==
  /\ pc[c] = "connect"
  /\ \/ /\ mutex = Free
        /\ creds' = [creds EXCEPT ![c] = cached]
        /\ Goto(c, "dial")
        /\ UNCHANGED <<mutex, fetched>>
     \/ /\ Fetch(c, "overdue")
        /\ UNCHANGED creds
  /\ UNCHANGED <<owner, role, attempt, slot, result, rotation, cached, calm>>

(* RefreshDbCreds, after the first Acquire failed authentication. *)
Refresh(c) ==
  /\ pc[c] = "refresh"
  /\ Fetch(c, "refreshing")
  /\ UNCHANGED <<owner, role, attempt, slot, result, rotation, cached, creds, calm>>

(* DescribeSecret has answered as well: the cache is replaced.  BeforeConnect
   goes on with the new value, Conn with its second Acquire. *)
Replace(c) ==
  /\ pc[c] \in Fetching
  /\ cached' = fetched
  /\ mutex' = Free /\ fetched' = 0
  /\ \/ /\ pc[c] = "overdue"
        /\ creds' = [creds EXCEPT ![c] = fetched]
        /\ Goto(c, "dial")
        /\ UNCHANGED attempt
     \/ /\ pc[c] = "refreshing"
        /\ attempt' = [attempt EXCEPT ![c] = 2]
        /\ Goto(c, "acquire")
        /\ UNCHANGED creds
  /\ UNCHANGED <<owner, role, slot, result, rotation, calm>>

(* The database accepts the password or refuses it; Conn goes on to refresh
   the secret once. *)
Authenticate(c) ==
  /\ pc[c] = "dial"
  /\ creds' = [creds EXCEPT ![c] = 0]
  /\ \/ /\ creds[c] = password
        /\ Goto(c, "query")
        /\ UNCHANGED <<owner, result>>
     \/ /\ creds[c] # password /\ attempt[c] = 1
        /\ Goto(c, "refresh")
        /\ owner' = [owner EXCEPT ![slot[c]] = Closed]
        /\ UNCHANGED result
     \/ /\ creds[c] # password /\ attempt[c] = 2
        /\ BrokenBy(c)
        /\ Return(c, "auth")
  /\ UNCHANGED <<role, attempt, slot, rotation, cache, calm>>

(* The statement succeeds.  queryRow of a write goes on to record the event
   with the statement's connection in hand; every other call returns. *)
Query(c) ==
  /\ pc[c] = "query"
  /\ IF role[c] = "statement" /\ c \in Writers
     THEN /\ Enter(c, "event")
          /\ UNCHANGED <<owner, result>>
     ELSE /\ ReleasedBy(c)
          /\ Goto(c, "idle")
          /\ result' = [result EXCEPT ![c] = "ok"]
          /\ UNCHANGED <<role, attempt, calm>>
  /\ UNCHANGED <<slot, rotation, cache, creds>>

(* The client disconnects, or a statement, the network or Secrets Manager
   fails; the mutex is unlocked by its defer. *)
Fail(c) ==
  /\ pc[c] # "idle"
  /\ \/ ReleasedBy(c) /\ pc[c] \notin Using \ {"query"}
     \/ BrokenBy(c) /\ pc[c] \in Using
  /\ Return(c, "failed")
  /\ IF mutex = c THEN mutex' = Free /\ fetched' = 0 ELSE UNCHANGED <<mutex, fetched>>
  /\ creds' = [creds EXCEPT ![c] = 0]
  /\ UNCHANGED <<role, attempt, slot, rotation, cached, calm>>

(* The pool closes a connection that is too old or idle for too long. *)
Recycle(k) ==
  /\ owner[k] = Free
  /\ owner' = [owner EXCEPT ![k] = Closed]
  /\ UNCHANGED <<pc, role, attempt, slot, result, rotation, cache, creds, calm>>

(* The health check opens a connection, or an abandoned construction completes:
   with the cached secret, or with one it fetched because that was overdue. *)
Open(k) ==
  /\ owner[k] = Closed /\ mutex = Free
  /\ cached' \in cached..secret
  /\ owner' = [owner EXCEPT ![k] = IF cached' = password THEN Free ELSE Closed]
  /\ UNCHANGED <<pc, role, attempt, slot, result, rotation, mutex, fetched, creds, calm>>

(* RDS sets the new password, then publishes it. *)
RotatePassword ==
  /\ Settled /\ password < Rotations
  /\ password' = password + 1
  /\ calm' = [c \in Callers |-> FALSE]
  /\ UNCHANGED <<owner, pc, role, attempt, slot, result, secret, cache, creds>>

PublishSecret ==
  /\ ~Settled
  /\ secret' = password
  /\ UNCHANGED <<owner, pc, role, attempt, slot, result, password, cache, creds, calm>>

(* The caller's own next step. *)
Advance(c) ==
  \/ TakeIdle(c) \/ Construct(c) \/ Connect(c) \/ Refresh(c)
  \/ Replace(c) \/ Authenticate(c) \/ Query(c)

Next ==
  \/ \E c \in Callers : Call(c) \/ Advance(c) \/ Fail(c)
  \/ \E k \in Conns : Recycle(k) \/ Open(k)
  \/ RotatePassword \/ PublishSecret

Spec == Init /\ [][Next]_vars

(* The pool serves its waiters first come, first served, and so does Go's
   mutex once they starve; everything else that a call does ends.  Nobody is
   bound to call, to fail or to rotate. *)
Fairness == \A c \in Callers : SF_vars(Advance(c))

FairSpec == Spec /\ Fairness

-----------------------------------------------------------------------------
(* Properties. *)

(* A rotated password never reaches a caller: authentication fails for good,
   for a statement or for an audit event, only if a rotation was under way
   after Conn was entered.  Conn's single retry is enough, whether or not
   Value finds the secret overdue and however many callers refresh it at once:
   an older answer of Secrets Manager never replaces a newer one, because the
   mutex is held over the fetch (Conn, Secret.Value, Secret.Refresh). *)
RotationIsPickedUp ==
  \A c \in Callers : result[c] \in {"auth", "unrecorded_auth"} => ~calm[c]

(* Somebody can always move: the pool is never held by callers that all wait
   for another connection of it. *)
NotExhausted ==
  (\A k \in Conns : owner[k] \in Callers) =>
    \E k \in Conns : pc[owner[k]] # "acquire"

(* What the comment on query says of Release: a call that has a connection
   gives it back, so the pool is not exhausted under concurrency. *)
EveryCallReturns ==
  \A c \in Callers : pc[c] # "idle" ~> pc[c] = "idle" /\ Held(c) = {}
=============================================================================
