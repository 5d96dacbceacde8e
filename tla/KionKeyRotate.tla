---------------------------- MODULE KionKeyRotate ----------------------------
(***************************************************************************)
(* The Lambda that rotates the Kion API key once a day: it reads the       *)
(* secret, decides whether the key is old enough, exchanges it at Kion (up *)
(* to KionTries times), writes the new one back (up to PutTries times) and, *)
(* when that fails, posts the new key to Slack.                            *)
(*                                                                         *)
(* Kion invalidates the old key when it accepts a rotation, so between the *)
(* exchange and the write the new key exists in memory only.  An           *)
(* invocation may overlap another one: an operator's, or Lambda's retry.   *)
(*                                                                         *)
(* The clock counts ticks, PerDay to a day; a scheduled invocation starts  *)
(* in a day's first tick.  `dropped` and `troubled` are history.           *)
(***************************************************************************)
EXTENDS Integers

CONSTANTS
  Daily, Manual,      \* the invocations of the schedule and of operators
  Threshold,          \* ROTATE_AFTER_DAYS
  Lifetime,           \* days after which Kion no longer accepts a key
  KionTries, PutTries,
  PerDay,
  Horizon,            \* bound: the last tick
  MaxKey,             \* bound: Kion issues no key past this one
  KionFaults              \* bound: what may fail

Runs == Daily \cup Manual
Never == -1           \* rotated_at of a secret that was never rotated
FaultKinds == {"kion", "answer", "put", "refresh", "deadline", "slack", "crash"}

ASSUME NumbersAssumption ==
  /\ {Threshold, Lifetime, KionTries, PutTries, PerDay} \subseteq Nat \ {0}
  /\ Horizon \in Nat /\ MaxKey \in Nat
ASSUME FaultsAssumption == KionFaults \subseteq FaultKinds
ASSUME RunsAssumption == Daily \cap Manual = {}

VARIABLES
  now,
  live,      \* the key Kion accepts, and when it was issued
  current,   \* the secret's AWSCURRENT version
  versions,  \* every version ever written
  alerted,   \* the keys posted to Slack
  pc, force, dry, seen, fresh, tries, \* per invocation
  ran,       \* the day of the last scheduled invocation
  dropped,   \* history: the keys a lost answer, a killed invocation or a
             \* failed alert left without a holder
  troubled   \* history: the day on which an invocation first failed, and
             \* whether one has failed on another day

kion == live
secret == <<current, versions>>
memory == <<force, dry, seen, fresh, tries>>
kionVars == <<now, live, current, versions, alerted, pc, force, dry, seen, fresh,
          tries, ran, dropped, troubled>>

Keys == 0..MaxKey
Ticks == 0..Horizon
SecretVersion == [key : Keys, at : Ticks \cup {Never}]
Labels == {"idle", "decide", "rotate", "put", "alert"}

(* Every version of the secret and every key in memory was issued by Kion,
   none is newer than the one it accepts, and no retry loop overruns. *)
KionTypeOK ==
  /\ now \in Ticks
  /\ live \in [key : Keys, issued : Ticks]
  /\ current \in versions /\ versions \subseteq SecretVersion
  /\ \A v \in versions : v.key <= live.key
  /\ alerted \subseteq 0..live.key
  /\ pc \in [Runs -> Labels]
  /\ force \in [Runs -> BOOLEAN] /\ dry \in [Runs -> BOOLEAN]
  /\ seen \in [Runs -> SecretVersion] /\ fresh \in [Runs -> SecretVersion]
  /\ tries \in [Runs -> Nat]
  /\ \A r \in Runs : /\ fresh[r].key <= live.key
                     /\ pc[r] = "rotate" => tries[r] < KionTries
                     /\ pc[r] = "put" => tries[r] < PutTries
  /\ ran \in Int
  /\ dropped \subseteq Keys
  /\ troubled \in [day : Ticks \cup {Never}, again : BOOLEAN]

Seed == [key |-> 0, at |-> 0]

KionInit ==
  /\ now = 0
  /\ live = [key |-> 0, issued |-> 0]
  /\ \E at \in {0, Never} : current = [key |-> 0, at |-> at]
  /\ versions = {current}
  /\ alerted = {}
  /\ pc = [r \in Runs |-> "idle"]
  /\ force = [r \in Runs |-> FALSE] /\ dry = [r \in Runs |-> FALSE]
  /\ seen = [r \in Runs |-> Seed] /\ fresh = [r \in Runs |-> Seed]
  /\ tries = [r \in Runs |-> 0]
  /\ ran = 0
  /\ dropped = {}
  /\ troubled = [day |-> Never, again |-> FALSE]

-----------------------------------------------------------------------------
Today == now \div PerDay
Fails(kind) == kind \in KionFaults
Goto(r, label) == pc' = [pc EXCEPT ![r] = label]

(* An invocation ends and what it held in memory is gone. *)
End(r) ==
  /\ Goto(r, "idle")
  /\ seen' = [seen EXCEPT ![r] = Seed] /\ fresh' = [fresh EXCEPT ![r] = Seed]
  /\ tries' = [tries EXCEPT ![r] = 0]
  /\ force' = [force EXCEPT ![r] = FALSE] /\ dry' = [dry EXCEPT ![r] = FALSE]

Succeeds(r) == End(r) /\ UNCHANGED troubled
Errors(r) ==
  /\ End(r)
  /\ troubled' = IF troubled.day = Never THEN [troubled EXCEPT !.day = Today]
                 ELSE [troubled EXCEPT !.again = @ \/ troubled.day # Today]

(* Variant: days are rounded up. *)
DaysRoundedUp(at) == (now - at + PerDay - 1) \div PerDay

(* daysSinceRotation: whole days. *)
DaysSince(at) == (now - at) \div PerDay

(* Variant: the key is left alone on the day the threshold is reached. *)
DueAfterThreshold(r) ==
  force[r] \/ seen[r].at = Never \/ DaysSince(seen[r].at) > Threshold

Due(r) ==
  force[r] \/ seen[r].at = Never \/ DaysSince(seen[r].at) >= Threshold

-----------------------------------------------------------------------------
(* NewSecret: the invocation reads the secret.  The schedule neither forces
   nor dries; operators choose. *)
Invoke(r) ==
  /\ pc[r] = "idle"
  /\ \/ /\ r \in Daily /\ ran < Today /\ now % PerDay = 0
        /\ ran' = Today /\ UNCHANGED <<force, dry>>
     \/ /\ r \in Manual
        /\ \E f, d \in BOOLEAN : force' = [force EXCEPT ![r] = f] /\ dry' = [dry EXCEPT ![r] = d]
        /\ UNCHANGED ran
  /\ seen' = [seen EXCEPT ![r] = current]
  /\ Goto(r, "decide")
  /\ UNCHANGED <<now, kion, secret, alerted, fresh, tries, dropped, troubled>>

(* Skipped and dry runs end here. *)
Decide(r) ==
  /\ pc[r] = "decide"
  /\ \/ /\ ~Due(r) \/ dry[r]
        /\ Succeeds(r)
     \/ /\ Due(r) /\ ~dry[r]
        /\ Goto(r, "rotate")
        /\ UNCHANGED <<memory, troubled>>
  /\ UNCHANGED <<now, kion, secret, alerted, ran, dropped>>

(* Kion accepts the key it issued last, until that expires. *)
Alive(key) == key = live.key /\ now < live.issued + Lifetime * PerDay
Issue == live' = [key |-> live.key + 1, issued |-> now]

(* Variant: one attempt too many. *)
TryKionOnceMore(r) ==
  IF tries[r] + 1 <= KionTries
  THEN tries' = [tries EXCEPT ![r] = @ + 1] /\ UNCHANGED <<pc, force, dry, seen, fresh, troubled>>
  ELSE Errors(r)

(* A transport error or a 5xx: another attempt, if one is left. *)
TryKionAgain(r) ==
  IF tries[r] + 1 < KionTries
  THEN tries' = [tries EXCEPT ![r] = @ + 1] /\ UNCHANGED <<pc, force, dry, seen, fresh, troubled>>
  ELSE Errors(r)

(* Kion answers with the new key. *)
Exchange(r) ==
  /\ pc[r] = "rotate" /\ Alive(seen[r].key) /\ live.key < MaxKey
  /\ Issue
  /\ fresh' = [fresh EXCEPT ![r] = [key |-> live.key + 1, at |-> now]]
  /\ tries' = [tries EXCEPT ![r] = 0]
  /\ Goto(r, "put")
  /\ UNCHANGED <<now, secret, alerted, force, dry, seen, ran, dropped, troubled>>

(* Kion accepts the rotation and the answer is lost (a timeout, a reset), or
   there is no key in it. *)
LoseAnswer(r) ==
  /\ pc[r] = "rotate" /\ Alive(seen[r].key) /\ live.key < MaxKey /\ Fails("answer")
  /\ Issue
  /\ dropped' = dropped \cup {live.key + 1}
  /\ TryKionAgain(r) \/ Errors(r)
  /\ UNCHANGED <<now, secret, alerted, ran>>

KionUnavailable(r) ==
  /\ pc[r] = "rotate" /\ Fails("kion")
  /\ TryKionAgain(r)
  /\ UNCHANGED <<now, kion, secret, alerted, ran, dropped>>

(* 4xx: the key is dead.  No retry. *)
Reject(r) ==
  /\ pc[r] = "rotate" /\ ~Alive(seen[r].key)
  /\ Errors(r)
  /\ UNCHANGED <<now, kion, secret, alerted, ran, dropped>>

(* Variant: a random request token, as the SDK would generate. *)
StoreAnew(v) == current' = v /\ versions' = versions \cup {v}

(* PutSecretValue: the token is derived from the payload, so a version that
   was written before is left where it is. *)
Store(v) ==
  /\ versions' = versions \cup {v}
  /\ current' = IF v \in versions THEN current ELSE v

Put(r) ==
  /\ pc[r] = "put"
  /\ Store(fresh[r])
  /\ Succeeds(r)
  /\ UNCHANGED <<now, kion, alerted, ran, dropped>>

(* Variant: the new key is given up without an alert. *)
GivenUp(r) == Errors(r)

(* Five attempts have failed. *)
Exhausted(r) == Goto(r, "alert") /\ UNCHANGED <<memory, troubled>>

(* Put fails, before the write or, in its read-back, after it. *)
PutFails(r) ==
  /\ pc[r] = "put"
  /\ \/ Fails("put") /\ UNCHANGED secret
     \/ Fails("refresh") /\ Store(fresh[r])
  /\ IF tries[r] + 1 < PutTries
     THEN tries' = [tries EXCEPT ![r] = @ + 1] /\ UNCHANGED <<pc, force, dry, seen, fresh, troubled>>
     ELSE Exhausted(r)
  /\ UNCHANGED <<now, kion, alerted, ran, dropped>>

(* The invocation's context ends during a backoff. *)
OutOfTime(r) ==
  /\ tries[r] > 0 /\ Fails("deadline")
  /\ \/ pc[r] = "rotate" /\ Errors(r)
     \/ pc[r] = "put" /\ Exhausted(r)
  /\ UNCHANGED <<now, kion, secret, alerted, ran, dropped>>

(* The recovery alert is posted once. *)
Alert(r) ==
  /\ pc[r] = "alert"
  /\ \/ alerted' = alerted \cup {fresh[r].key} /\ UNCHANGED dropped
     \/ /\ Fails("slack")
        /\ dropped' = dropped \cup {fresh[r].key}
        /\ UNCHANGED alerted
  /\ Errors(r)
  /\ UNCHANGED <<now, kion, secret, ran>>

(* Lambda stops the invocation, or it cannot read its secret. *)
CutShort(r) ==
  /\ pc[r] # "idle" /\ Fails("crash")
  /\ dropped' = IF pc[r] \in {"put", "alert"} THEN dropped \cup {fresh[r].key} ELSE dropped
  /\ Errors(r)
  /\ UNCHANGED <<now, kion, secret, alerted, ran>>

(* The runbook: an operator pastes the alerted key, with the current time, on
   the day it was issued. *)
Restore ==
  /\ live.key \in alerted /\ current.key # live.key
  /\ live.issued \div PerDay = Today
  /\ Store([key |-> live.key, at |-> now])
  /\ UNCHANGED <<now, kion, alerted, pc, memory, ran, dropped, troubled>>

(* Time passes.  The schedule does not skip a day, and an invocation does not
   outlive the day it started on. *)
ClockTicks ==
  /\ now < Horizon
  /\ ran = Today
  /\ (now + 1) % PerDay = 0 => \A r \in Runs : pc[r] = "idle"
  /\ now' = now + 1
  /\ UNCHANGED <<kion, secret, alerted, pc, memory, ran, dropped, troubled>>

KionNext ==
  \/ \E r \in Runs :
       \/ Invoke(r) \/ Decide(r)
       \/ Exchange(r) \/ LoseAnswer(r) \/ KionUnavailable(r) \/ Reject(r)
       \/ Put(r) \/ PutFails(r) \/ OutOfTime(r) \/ Alert(r) \/ CutShort(r)
  \/ Restore \/ ClockTicks

KionSpec == KionInit /\ [][KionNext]_kionVars

-----------------------------------------------------------------------------
(* Properties. *)

HoldsKey(r, key) == pc[r] \in {"put", "alert"} /\ fresh[r].key = key

(* The key Kion accepts is never lost, however invocations overlap and the
   writes fail: it is the stored one, or an invocation still has it, or it was
   posted to Slack.  The exceptions are a lost answer, a killed invocation and
   a failed alert (Orchestrator.Run, putWithRetries). *)
LiveKeyHasAHolder ==
  \/ live.key \in {current.key} \cup alerted \cup dropped
  \/ \E r \in Runs : HoldsKey(r, live.key)

(* A late retry never puts an older key back over a newer one: the request
   token makes it a no-op (Secret.Put, payloadRequestToken). *)
SecretMovesForward == [][current.key <= current'.key]_kionVars

(* A daily schedule does not burn a key a day: Kion accepts an unforced
   rotation only when no rotation of the last Threshold whole days was stored,
   also when invocations overlap (the idempotency window). *)
WindowIsKept ==
  [][live' # live =>
       \E r \in Runs : pc[r] = "rotate" /\
         (force[r] \/ \A v \in versions :
                        v.at = Never \/ now - v.at >= Threshold * PerDay)]_kionVars

(* One bad day is survived: while the stored key is the live one and
   invocations failed on one day at most, the key has not expired. *)
OneBadDayIsSurvived ==
  current.key = live.key /\ ~troubled.again
  => now < live.issued + Lifetime * PerDay

(* What the Lambda's README says of the threshold ("a 4-day window leaves a
   3-day recovery margin"): a scheduled invocation that sets out to rotate
   finds the key good for the days of its lifetime past the threshold.  Not
   so, even if nothing ever fails. *)
RecoveryMarginIsLeft ==
  \A r \in Daily : pc[r] = "rotate" /\ now % PerDay = 0 =>
    now + (Lifetime - Threshold) * PerDay <= live.issued + Lifetime * PerDay
=============================================================================
