---------------------------- MODULE RateLimiter ----------------------------
(***************************************************************************)
(* The in-process limiter before the pre-auth lookup: one token bucket per *)
(* client, computed when it is asked, in a map from which the buckets that *)
(* nobody has touched for longer than TTL are swept, at most once per TTL  *)
(* and only by a request.  A client whose bucket was swept gets a new one, *)
(* which is full.                                                          *)
(*                                                                         *)
(* limiterFor runs under the limiter's mutex and Allow under the bucket's; *)
(* nothing that one of them reads is used by the other, so that a request  *)
(* is one step.  The unit of time is one in which Rate tokens arrive.      *)
(***************************************************************************)
EXTENDS Clock

CONSTANTS
  Clients,      \* client addresses
  Rate, Burst,  \* r and b
  TTL,
  NoVerdict

(* router.go: 5 tokens a second, 10 at most, 10 minutes. *)
ASSUME RatesAssumption ==
  /\ Rate \in Nat /\ Burst \in Nat \ {0} /\ TTL \in Nat \ {0}
  /\ TTL * Rate >= Burst

VARIABLES
  buckets,     \* clients: [tokens, at, seen] of those that have a bucket
  lastCleanup,
  verdict      \* what the last request was told

limiterVars == <<buckets, lastCleanup, verdict>>

Bucket == [tokens : 0 .. Burst, at : 0 .. now, seen : 0 .. now]

LimiterTypeOK ==
  /\ now \in Nat
  /\ DOMAIN buckets \subseteq Clients
  /\ \A c \in DOMAIN buckets : buckets[c] \in Bucket
  /\ lastCleanup \in Int /\ lastCleanup <= now
  /\ verdict \in [client : Clients, admitted : BOOLEAN] \cup {NoVerdict}

LimiterInit ==
  /\ buckets = [c \in {} |-> 0]
  /\ lastCleanup = -TTL  \* the zero time
  /\ verdict = NoVerdict

-----------------------------------------------------------------------------
(* The sweep is due. *)
SweepDue == now - lastCleanup >= TTL

(* Variant: the stamp is set whether or not the sweep ran. *)
StampAlways == now

Stamp == IF SweepDue THEN now ELSE lastCleanup

(* cleanup: the clients whose buckets stay. *)
Kept == {c \in DOMAIN buckets : ~(SweepDue /\ now - buckets[c].seen > TTL)}

Capped(n) == IF n < Burst THEN n ELSE Burst

(* The tokens a client has now (x/time/rate). *)
Available(c) == Capped(buckets[c].tokens + Rate * (now - buckets[c].at))

(* Variant: lastSeen is set when the bucket is made. *)
SeenOnce(c) == IF c \in Kept THEN buckets[c].seen ELSE now

Seen(c) == now

(* limiterFor and Allow: a refusal takes nothing. *)
Ask(c) ==
  LET have == IF c \in Kept THEN Available(c) ELSE Burst
      admitted == have >= 1
      asked == IF admitted THEN [tokens |-> have - 1, at |-> now, seen |-> Seen(c)]
               ELSE [buckets[c] EXCEPT !.seen = Seen(c)]
  IN /\ buckets' = [d \in Kept \cup {c} |-> IF d = c THEN asked ELSE buckets[d]]
     /\ lastCleanup' = Stamp
     /\ verdict' = [client |-> c, admitted |-> admitted]
     /\ UNCHANGED now

LimiterTick == Tick /\ verdict' = NoVerdict /\ UNCHANGED <<buckets, lastCleanup>>

LimiterNext == LimiterTick \/ \E c \in Clients : Ask(c)

LimiterSpec == now = 0 /\ LimiterInit /\ [][LimiterNext]_<<now, limiterVars>>

-----------------------------------------------------------------------------
(* Properties. *)

Level(c) == IF c \in DOMAIN buckets THEN Available(c) ELSE Burst

Levels == [c \in Clients |-> Level(c)]

Ideal == INSTANCE TokenBucket WITH level <- Levels

(* The sweep neither gives nor takes: every request is admitted or refused as
   if its client's bucket had been kept for ever (RateLimiter.Middleware,
   limiterFor, cleanup). *)
LimiterIsIdeal == Ideal!BucketSpec

(* The map stays small however many addresses come by: while anybody asks,
   a bucket that nobody touched for twice the TTL is gone (cleanup). *)
IdleBucketsLeave ==
  \A c, d \in DOMAIN buckets : buckets[c].seen < buckets[d].seen + 2 * TTL
=============================================================================
