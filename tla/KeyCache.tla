----------------------------- MODULE KeyCache ------------------------------
(***************************************************************************)
(* The keys with which tokens of the identity providers are verified.      *)
(* Entra publishes all of its keys in one document and Okta serves each    *)
(* under its key id; both change their keys while requests look them up.   *)
(* The API caches them: an unknown Entra key has the whole document        *)
(* fetched, but not again within Interval of the last refresh, and the     *)
(* cache is replaced by what the document held; an Okta key is fetched by  *)
(* every request that misses it and kept.                                  *)
(*                                                                         *)
(* A request looks at the cache under a lock, fetches without one, and     *)
(* stores under a lock: answers may be stored in another order than they   *)
(* were given.  A fetch, up to the assignment of what it brought, takes    *)
(* less than Timeout or fails.                                             *)
(***************************************************************************)
EXTENDS Clock

CONSTANTS
  Requests,
  EntraKeys, OktaKeys,  \* key ids, of real and of invented keys
  Interval,             \* minEntraRefreshInterval
  Timeout,              \* keyFetchClient.Timeout
  NoKey

Keys == EntraKeys \cup OktaKeys

ASSUME KeysAssumption == EntraKeys \cap OktaKeys = {} /\ NoKey \notin Keys
ASSUME DurationsAssumption == Interval \in Nat \ {0} /\ Timeout \in Nat

VARIABLES
  published,    \* the keys that the providers serve
  since,        \* per key, when it was published last
  entra,        \* entraKeys
  lastRefresh,  \* entraLastRefresh
  okta,         \* keys
  look          \* per request, its last look-up of a key

provider == <<published, since>>
keyCache == <<entra, lastRefresh, okta>>
keyVars == <<now, provider, keyCache, look>>

(* Entra publishes a key well ahead of its use: this far, at least, the code
   counts on. *)
Lead == Interval + Timeout

Fetching == {"asking", "storing"}

(* pc, the key, when the fetch began, what it brought; and, as history,
   whether the key was genuine at the look-up and served ever since, and
   whether the request's own fetch failed. *)
LookUp ==
  [pc : Fetching \cup {"idle", "reading", "accepted", "refused"},
   key : Keys \cup {NoKey}, asked : Nat, doc : SUBSET Keys,
   genuine : BOOLEAN, failed : BOOLEAN]

NoLookUp ==
  [pc |-> "idle", key |-> NoKey, asked |-> 0, doc |-> {},
   genuine |-> FALSE, failed |-> FALSE]

(* The types; a key that is served was published, and a fetch under way is
   not older than its timeout. *)
KeyTypeOK ==
  /\ now \in Nat
  /\ published \subseteq Keys
  /\ since \in [Keys -> Nat] /\ \A k \in published : since[k] <= now
  /\ entra \subseteq EntraKeys /\ okta \subseteq OktaKeys
  /\ lastRefresh \in Int /\ lastRefresh <= now
  /\ look \in [Requests -> LookUp]
  /\ \A r \in Requests : look[r].pc # "idle" => look[r].key \in Keys
  /\ \A r \in Requests : look[r].pc \in Fetching =>
       look[r].asked <= now /\ now <= look[r].asked + Timeout

Cold == entra = {} /\ okta = {} /\ lastRefresh = -Interval
Warm == entra = published \cap EntraKeys /\ okta = published \cap OktaKeys /\ lastRefresh = 0

(* A process that has just been started, or has just read all the keys. *)
KeyInit ==
  /\ now = 0
  /\ published \in SUBSET Keys
  /\ since = [k \in Keys |-> 0]
  /\ Cold \/ Warm
  /\ look = [r \in Requests |-> NoLookUp]

-----------------------------------------------------------------------------
Ended(r) == look[r].pc \in {"idle", "accepted", "refused"}

(* A key that a token may rely on: Okta's are served one by one, a document of
   Entra's may have been fetched just before the key was added to it. *)
Genuine(k) == k \in published /\ (k \in EntraKeys => now >= since[k] + Lead)

(* What a request makes of an unknown Entra key. *)
Fresh == now - lastRefresh < Interval

(* getKey: the cached key, a refusal, or a fetch. *)
Look(r, k) ==
  /\ Ended(r)
  /\ look' = [look EXCEPT ![r] =
       [pc |-> IF k \in entra \cup okta THEN "accepted"
               ELSE IF k \in EntraKeys /\ Fresh THEN "refused"
               ELSE "asking",
        key |-> k, asked |-> now, doc |-> {}, genuine |-> Genuine(k), failed |-> FALSE]]
  /\ UNCHANGED <<now, provider, keyCache>>

(* The provider answers with the document, or with the key.  A document
   without a key, and a status other than 200, are errors. *)
Answer(r) ==
  LET k == look[r].key
      doc == published \cap (IF k \in EntraKeys THEN EntraKeys ELSE {k})
  IN /\ look[r].pc = "asking"
     /\ look' = [look EXCEPT ![r].doc = doc,
                             ![r].pc = IF doc = {} THEN "refused" ELSE "storing"]
     /\ UNCHANGED <<now, provider, keyCache>>

(* Variant: the attempt is stamped, so that failures are throttled as well. *)
FailFetchStamped(r) ==
  /\ look[r].pc = "asking"
  /\ look' = [look EXCEPT ![r].pc = "refused", ![r].failed = TRUE]
  /\ lastRefresh' = now
  /\ UNCHANGED <<now, provider, entra, okta>>

(* No answer within the timeout, or an unreadable one: nothing is stored. *)
FailFetch(r) ==
  /\ look[r].pc = "asking"
  /\ look' = [look EXCEPT ![r].pc = "refused", ![r].failed = TRUE]
  /\ UNCHANGED <<now, provider, keyCache>>

(* refreshEntraKeys replaces the cache; oktaKey adds the key. *)
Store(r) ==
  /\ look[r].pc = "storing"
  /\ IF look[r].key \in EntraKeys
     THEN entra' = look[r].doc /\ lastRefresh' = now /\ UNCHANGED okta
     ELSE okta' = okta \cup look[r].doc /\ UNCHANGED <<entra, lastRefresh>>
  /\ look' = [look EXCEPT ![r].asked = 0, ![r].doc = {},
       ![r].pc = IF look[r].key \in EntraKeys THEN "reading" ELSE "accepted"]
  /\ UNCHANGED <<now, provider>>

(* entraKey reads the cache again, which another request may have replaced. *)
Reread(r) ==
  /\ look[r].pc = "reading"
  /\ look' = [look EXCEPT ![r].pc = IF look[r].key \in entra THEN "accepted" ELSE "refused"]
  /\ UNCHANGED <<now, provider, keyCache>>

(* The request goes on with the outcome. *)
Forget(r) ==
  /\ Ended(r)
  /\ look' = [look EXCEPT ![r] = NoLookUp]
  /\ UNCHANGED <<now, provider, keyCache>>

(* A provider publishes a key, or withdraws one. *)
Publish(k) ==
  /\ k \notin published
  /\ published' = published \cup {k}
  /\ since' = [since EXCEPT ![k] = now]
  /\ UNCHANGED <<now, keyCache, look>>

Withdraw(k) ==
  /\ k \in published
  /\ published' = published \ {k}
  /\ look' = [r \in Requests |->
       [look[r] EXCEPT !.genuine = look[r].genuine /\ look[r].key # k]]
  /\ UNCHANGED <<now, since, keyCache>>

(* The task is replaced: its memory and its requests are gone. *)
RestartCache ==
  /\ entra' = {} /\ okta' = {} /\ lastRefresh' = now - Interval
  /\ look' = [r \in Requests |-> NoLookUp]
  /\ UNCHANGED <<now, provider>>

PassTime ==
  /\ Tick
  /\ \A r \in Requests : look[r].pc \in Fetching => now < look[r].asked + Timeout
  /\ UNCHANGED <<provider, keyCache, look>>

Continue(r) == Answer(r) \/ FailFetch(r) \/ Store(r) \/ Reread(r)

KeyNext ==
  \/ \E r \in Requests : Continue(r) \/ Forget(r) \/ \E k \in Keys : Look(r, k)
  \/ \E k \in Keys : Publish(k) \/ Withdraw(k)
  \/ RestartCache \/ PassTime

KeySpec == KeyInit /\ [][KeyNext]_keyVars

-----------------------------------------------------------------------------
(* Properties. *)

(* Nobody is turned away because of the cache: a request with a key that its
   provider has published long enough ago, and still serves, is refused only
   if its own fetch failed - whatever the throttle skipped, however requests
   refresh at once, and although an older document may be stored last and
   stamped as the newest (entraKey, refreshEntraKeys, oktaKey). *)
GenuineKeyIsAccepted ==
  \A r \in Requests : look[r].pc = "refused" /\ look[r].genuine => look[r].failed
=============================================================================
