---------------------------- MODULE TokenBucket ----------------------------
(***************************************************************************)
(* What the rate limiter promises: as if every client had its own bucket   *)
(* for ever, full at first, filled at Rate and holding Burst tokens at     *)
(* most.  A request is admitted if and only if there is a token to take.   *)
(***************************************************************************)
EXTENDS Naturals

CONSTANTS Clients, Rate, Burst, NoVerdict  \* Rate and Burst are natural numbers

VARIABLES level, verdict

bucketVars == <<level, verdict>>

Capped(n) == IF n < Burst THEN n ELSE Burst

BucketInit ==
  /\ level = [c \in Clients |-> Burst]
  /\ verdict = NoVerdict

Admit(c) ==
  /\ level[c] >= 1
  /\ level' = [level EXCEPT ![c] = level[c] - 1]
  /\ verdict' = [client |-> c, admitted |-> TRUE]

Reject(c) ==
  /\ level[c] < 1
  /\ verdict' = [client |-> c, admitted |-> FALSE]
  /\ UNCHANGED level

Fill ==
  /\ level' = [c \in Clients |-> Capped(level[c] + Rate)]
  /\ verdict' = NoVerdict

BucketNext == Fill \/ \E c \in Clients : Admit(c) \/ Reject(c)

BucketSpec == BucketInit /\ [][BucketNext]_bucketVars
=============================================================================
