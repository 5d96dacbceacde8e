----------------------------- MODULE AuthProofs -----------------------------
(***************************************************************************)
(* Theorems of KeyCache, AuthSession and RateLimiter, and of the three     *)
(* together as MCAuth composes them.                                       *)
(***************************************************************************)
EXTENDS MCAuth, TLAPS

-----------------------------------------------------------------------------
(***************************************************************************)
(* The key cache.  For every set of requests and keys, every throttling    *)
(* interval but zero and every timeout: a genuine key is not refused.      *)
(*                                                                         *)
(* The argument is about age.  A document that lacks a key the provider    *)
(* serves was fetched before the key was published, at the latest; it is   *)
(* stored within Timeout, and throttles others for Interval after that.    *)
(* Whoever looks for a genuine key comes later than both.                  *)
(***************************************************************************)

(* What is fetched, and not yet stored, lacks only keys that were published
   after the fetch had begun. *)
DocsAreRecent ==
  \A r \in Requests : look[r].pc = "storing" /\ look[r].key \in EntraKeys =>
    \A k \in published \cap EntraKeys : k \in look[r].doc \/ since[k] >= look[r].asked

(* A document holds Entra's keys or one of Okta's. *)
DocsOfEntra ==
  \A r \in Requests : look[r].pc = "storing" =>
    look[r].doc \subseteq (IF look[r].key \in EntraKeys THEN EntraKeys ELSE {look[r].key})

(* So does the cache, by a timeout, unless anybody may refresh it. *)
CacheIsRecent ==
  \A k \in published \cap EntraKeys :
    k \in entra \/ lastRefresh <= since[k] + Timeout \/ ~Fresh

(* A genuine key is still served, and was published long before it was looked
   for; what is fetched for it brings it. *)
LooksAreGenuine ==
  \A r \in Requests : look[r].genuine =>
    LET k == look[r].key IN
    /\ k \in published
    /\ k \in EntraKeys => now >= since[k] + Lead
    /\ look[r].pc \in Fetching /\ k \in EntraKeys => look[r].asked >= since[k] + Lead
    /\ look[r].pc = "reading" => k \in entra

KeyInv ==
  /\ KeyTypeOK /\ DocsAreRecent /\ DocsOfEntra /\ CacheIsRecent /\ LooksAreGenuine
  /\ GenuineKeyIsAccepted

-----------------------------------------------------------------------------
LEMMA KeyInvInit == KeyInit => KeyInv
  <1>. SUFFICES ASSUME KeyInit PROVE KeyInv
    OBVIOUS
  <1>. USE HorizonAssumption, KeysAssumption, DurationsAssumption
  <1>1. KeyTypeOK
    BY DEF KeyInit, Cold, Warm, KeyTypeOK, LookUp, NoLookUp, Keys, Fetching
  <1>2. DocsAreRecent /\ DocsOfEntra /\ LooksAreGenuine /\ GenuineKeyIsAccepted
    BY DEF KeyInit, NoLookUp, DocsAreRecent, DocsOfEntra, LooksAreGenuine, GenuineKeyIsAccepted
  <1>3. CacheIsRecent
    BY DEF KeyInit, Cold, Warm, CacheIsRecent, Fresh, Keys
  <1>. QED
    BY <1>1, <1>2, <1>3 DEF KeyInv

(* The record of a request, by its fields. *)
LEMMA LookFields ==
  ASSUME KeyTypeOK, NEW r \in Requests
  PROVE /\ look[r] \in LookUp
        /\ look[r].pc \in Fetching \cup {"idle", "reading", "accepted", "refused"}
        /\ look[r].key \in Keys \cup {NoKey}
        /\ look[r].asked \in Nat /\ look[r].doc \in SUBSET Keys
        /\ look[r].genuine \in BOOLEAN /\ look[r].failed \in BOOLEAN
  BY DEF KeyTypeOK, LookUp

(* What a step of one request must leave true of the types. *)
LEMMA OneLookIsTyped ==
  ASSUME KeyTypeOK, NEW r \in Requests, NEW new \in LookUp,
         look' = [look EXCEPT ![r] = new],
         new.pc # "idle" => new.key \in Keys,
         new.pc \in Fetching => new.asked <= now /\ now <= new.asked + Timeout,
         UNCHANGED <<now, provider>>,
         entra' \subseteq EntraKeys, okta' \subseteq OktaKeys,
         lastRefresh' \in Int, lastRefresh' <= now
  PROVE KeyTypeOK'
  <1>. USE DurationsAssumption
  <1>1. look' \in [Requests -> LookUp]
    BY DEF KeyTypeOK
  <1>2. \A q \in Requests : look'[q].pc # "idle" => look'[q].key \in Keys
    BY DEF KeyTypeOK
  <1>3. \A q \in Requests : look'[q].pc \in Fetching =>
          look'[q].asked <= now' /\ now' <= look'[q].asked + Timeout
    BY DEF KeyTypeOK, provider
  <1>. QED
    BY <1>1, <1>2, <1>3 DEF KeyTypeOK, provider

(* A look-up: what is refused at once is not genuine. *)
LEMMA LookStep ==
  ASSUME KeyInv, NEW r \in Requests, NEW k \in Keys, Look(r, k)
  PROVE KeyInv'
  <1>. USE HorizonAssumption, KeysAssumption, DurationsAssumption
  <1>. DEFINE new == look'[r]
  <1>1. /\ new = [pc |-> IF k \in entra \cup okta THEN "accepted"
                         ELSE IF k \in EntraKeys /\ Fresh THEN "refused" ELSE "asking",
                  key |-> k, asked |-> now, doc |-> {}, genuine |-> Genuine(k),
                  failed |-> FALSE]
        /\ \A q \in Requests : q # r => look'[q] = look[q]
        /\ look' = [look EXCEPT ![r] = new]
        /\ UNCHANGED <<now, provider, published, since, entra, lastRefresh, okta>>
    BY DEF Look, KeyInv, KeyTypeOK, provider, keyCache
  <1>2. /\ new.key = k /\ new.asked = now /\ new.genuine = Genuine(k) /\ new.doc = {}
        /\ new.failed = FALSE
        /\ new.pc = (IF k \in entra \cup okta THEN "accepted"
                     ELSE IF k \in EntraKeys /\ Fresh THEN "refused" ELSE "asking")
    BY <1>1
  <1>3. new \in LookUp
    BY <1>1, <1>2 DEF LookUp, Genuine, Fetching, KeyInv, KeyTypeOK
  <1>4. KeyTypeOK'
    <2>1. /\ KeyTypeOK /\ now \in Nat
          /\ entra' \subseteq EntraKeys /\ okta' \subseteq OktaKeys
          /\ lastRefresh' \in Int /\ lastRefresh' <= now
      BY <1>1 DEF KeyInv, KeyTypeOK
    <2>2. new.key \in Keys /\ new.asked <= now /\ now <= new.asked + Timeout
      BY <1>2, <2>1
    <2>. HIDE DEF new
    <2>. QED
      BY <1>1, <1>3, <2>1, <2>2, OneLookIsTyped
  <1>5. DocsAreRecent' /\ DocsOfEntra' /\ CacheIsRecent'
    BY <1>1, <1>2 DEF KeyInv, DocsAreRecent, DocsOfEntra, CacheIsRecent, Fresh
  <1>6. LooksAreGenuine'
    BY <1>1, <1>2 DEF KeyInv, LooksAreGenuine, Genuine, Fetching
  <1>7. ASSUME Genuine(k) PROVE ~(k \in EntraKeys /\ Fresh /\ k \notin entra)
    BY <1>7 DEF KeyInv, KeyTypeOK, CacheIsRecent, Genuine, Fresh, Lead
  <1>8. GenuineKeyIsAccepted'
    BY <1>1, <1>2, <1>7 DEF KeyInv, GenuineKeyIsAccepted
  <1>. QED
    BY <1>4, <1>5, <1>6, <1>8 DEF KeyInv

(* An answer: it is as recent as the key is old, and brings a genuine one. *)
LEMMA AnswerStep ==
  ASSUME KeyInv, NEW r \in Requests, Answer(r)
  PROVE KeyInv'
  <1>. USE HorizonAssumption, KeysAssumption, DurationsAssumption
  <1>. DEFINE new == look'[r]
              k == look[r].key
              doc == published \cap (IF k \in EntraKeys THEN EntraKeys ELSE {k})
  <1>1. /\ look[r].pc = "asking"
        /\ look' = [look EXCEPT ![r] = new]
        /\ \A q \in Requests : q # r => look'[q] = look[q]
        /\ UNCHANGED <<now, provider, published, since, entra, lastRefresh, okta>>
    BY DEF Answer, KeyInv, KeyTypeOK, provider, keyCache
  <1>2. /\ new.key = k /\ new.asked = look[r].asked /\ new.genuine = look[r].genuine
        /\ new.failed = look[r].failed /\ new.doc = doc
        /\ new.pc = (IF doc = {} THEN "refused" ELSE "storing")
        /\ new \in LookUp
    BY LookFields DEF Answer, KeyInv, KeyTypeOK, LookUp, Fetching
  <1>3. k \in Keys /\ look[r].asked <= now /\ now <= look[r].asked + Timeout
    BY <1>1 DEF KeyInv, KeyTypeOK, Fetching
  <1>4. KeyTypeOK'
    BY <1>1, <1>2, <1>3, OneLookIsTyped DEF KeyInv, KeyTypeOK, Fetching
  <1>5. DocsAreRecent' /\ DocsOfEntra' /\ CacheIsRecent'
    BY <1>1, <1>2 DEF KeyInv, DocsAreRecent, DocsOfEntra, CacheIsRecent, Fresh
  <1>6. LooksAreGenuine'
    BY <1>1, <1>2 DEF KeyInv, LooksAreGenuine, Fetching
  <1>7. GenuineKeyIsAccepted'
    <2>1. look[r].genuine => doc # {}
      BY DEF KeyInv, LooksAreGenuine
    <2>. QED
      BY <1>1, <1>2, <2>1 DEF KeyInv, GenuineKeyIsAccepted
  <1>. QED
    BY <1>4, <1>5, <1>6, <1>7 DEF KeyInv

(* A failed fetch: the refusal is the request's own. *)
LEMMA FailFetchStep ==
  ASSUME KeyInv, NEW r \in Requests, FailFetch(r)
  PROVE KeyInv'
  <1>. USE HorizonAssumption, KeysAssumption, DurationsAssumption
  <1>. DEFINE new == look'[r]
  <1>1. /\ look[r].pc = "asking"
        /\ look' = [look EXCEPT ![r] = new]
        /\ \A q \in Requests : q # r => look'[q] = look[q]
        /\ UNCHANGED <<now, provider, published, since, entra, lastRefresh, okta>>
    BY DEF FailFetch, KeyInv, KeyTypeOK, provider, keyCache
  <1>2. /\ new.key = look[r].key /\ new.genuine = look[r].genuine
        /\ new.failed = TRUE /\ new.pc = "refused" /\ new \in LookUp
    BY LookFields DEF FailFetch, KeyInv, KeyTypeOK, LookUp, Fetching
  <1>3. look[r].key \in Keys
    BY <1>1 DEF KeyInv, KeyTypeOK
  <1>4. KeyTypeOK'
    BY <1>1, <1>2, <1>3, OneLookIsTyped DEF KeyInv, KeyTypeOK, Fetching
  <1>5. DocsAreRecent' /\ DocsOfEntra' /\ CacheIsRecent'
    BY <1>1, <1>2 DEF KeyInv, DocsAreRecent, DocsOfEntra, CacheIsRecent, Fresh
  <1>6. LooksAreGenuine' /\ GenuineKeyIsAccepted'
    BY <1>1, <1>2 DEF KeyInv, LooksAreGenuine, GenuineKeyIsAccepted, Fetching
  <1>. QED
    BY <1>4, <1>5, <1>6 DEF KeyInv

(* A stored document: no genuine key is lost by it, the request's own as little
   as one that another request is about to read. *)
LEMMA StoreStep ==
  ASSUME KeyInv, NEW r \in Requests, Store(r)
  PROVE KeyInv'
  <1>. USE HorizonAssumption, KeysAssumption, DurationsAssumption
  <1>. DEFINE new == look'[r]
  <1>1. /\ look[r].pc = "storing"
        /\ look' = [look EXCEPT ![r] = new]
        /\ \A q \in Requests : q # r => look'[q] = look[q]
        /\ UNCHANGED <<now, provider, published, since>>
    BY DEF Store, KeyInv, KeyTypeOK, provider
  <1>2. /\ new.key = look[r].key /\ new.genuine = look[r].genuine
        /\ new.failed = look[r].failed
        /\ new.pc = (IF look[r].key \in EntraKeys THEN "reading" ELSE "accepted")
        /\ new \in LookUp
    BY LookFields DEF Store, KeyInv, KeyTypeOK, LookUp, Fetching
  <1>3. /\ look[r].key \in Keys /\ look[r].doc \subseteq Keys /\ look[r].asked \in Nat
        /\ look[r].asked <= now /\ now <= look[r].asked + Timeout
    BY <1>1, LookFields DEF KeyInv, KeyTypeOK, Fetching
  <1>4. /\ now \in Nat /\ lastRefresh \in Int /\ lastRefresh <= now
        /\ \A k \in published : k \in Keys /\ since[k] \in Nat /\ since[k] <= now
    BY DEF KeyInv, KeyTypeOK
  <1>5. CASE look[r].key \in EntraKeys
    <2>1. entra' = look[r].doc /\ lastRefresh' = now /\ okta' = okta
      BY <1>5 DEF Store
    <2>2. \A k \in published \cap EntraKeys :
            k \in entra' \/ since[k] >= look[r].asked
      BY <1>1, <1>5, <2>1 DEF KeyInv, DocsAreRecent
    <2>3. CacheIsRecent'
      BY <1>1, <1>3, <1>4, <2>1, <2>2 DEF CacheIsRecent
    <2>4. \A k \in published \cap EntraKeys : now >= since[k] + Lead => k \in entra'
      BY <1>3, <1>4, <2>2 DEF Lead
    <2>5. LooksAreGenuine'
      <3>. SUFFICES ASSUME NEW q \in Requests, look'[q].genuine
           PROVE LET k == look'[q].key IN
                 /\ k \in published'
                 /\ k \in EntraKeys => now' >= since'[k] + Lead
                 /\ look'[q].pc \in Fetching /\ k \in EntraKeys =>
                      look'[q].asked >= since'[k] + Lead
                 /\ look'[q].pc = "reading" => k \in entra'
        BY DEF LooksAreGenuine
      <3>1. CASE q = r
        BY <1>1, <1>2, <1>5, <2>4, <3>1 DEF KeyInv, LooksAreGenuine, Fetching
      <3>2. CASE q # r
        BY <1>1, <2>4, <3>2 DEF KeyInv, KeyTypeOK, LooksAreGenuine
      <3>. QED
        BY <3>1, <3>2
    <2>6. entra' \subseteq EntraKeys
      BY <1>1, <1>5, <2>1 DEF KeyInv, DocsOfEntra
    <2>7. KeyTypeOK'
      BY <1>1, <1>2, <1>3, <1>4, <1>5, <2>1, <2>6, OneLookIsTyped
        DEF KeyInv, KeyTypeOK, Fetching
    <2>8. DocsAreRecent' /\ DocsOfEntra' /\ GenuineKeyIsAccepted'
      BY <1>1, <1>2, <1>5 DEF KeyInv, DocsAreRecent, DocsOfEntra, GenuineKeyIsAccepted
    <2>. QED
      BY <2>3, <2>5, <2>7, <2>8 DEF KeyInv
  <1>6. CASE look[r].key \notin EntraKeys
    <2>1. entra' = entra /\ lastRefresh' = lastRefresh /\ okta' = okta \cup look[r].doc
      BY <1>6 DEF Store
    <2>2. okta' \subseteq OktaKeys
      <3>1. look[r].key \in OktaKeys
        BY <1>3, <1>6 DEF Keys
      <3>2. look[r].doc \subseteq {look[r].key}
        BY <1>1, <1>6 DEF KeyInv, DocsOfEntra
      <3>. QED
        BY <2>1, <3>1, <3>2 DEF KeyInv, KeyTypeOK
    <2>3. KeyTypeOK'
      BY <1>1, <1>2, <1>3, <1>4, <1>6, <2>1, <2>2, OneLookIsTyped
        DEF KeyInv, KeyTypeOK, Fetching
    <2>4. DocsAreRecent' /\ DocsOfEntra' /\ CacheIsRecent'
      BY <1>1, <1>2, <1>6, <2>1 DEF KeyInv, DocsAreRecent, DocsOfEntra, CacheIsRecent, Fresh
    <2>5. LooksAreGenuine' /\ GenuineKeyIsAccepted'
      BY <1>1, <1>2, <1>6, <2>1 DEF KeyInv, LooksAreGenuine, GenuineKeyIsAccepted, Fetching
    <2>. QED
      BY <2>3, <2>4, <2>5 DEF KeyInv
  <1>. QED
    BY <1>5, <1>6

(* The second look at the cache finds a genuine key. *)
LEMMA RereadStep ==
  ASSUME KeyInv, NEW r \in Requests, Reread(r)
  PROVE KeyInv'
  <1>. USE HorizonAssumption, KeysAssumption, DurationsAssumption
  <1>. DEFINE new == look'[r]
  <1>1. /\ look[r].pc = "reading"
        /\ look' = [look EXCEPT ![r] = new]
        /\ \A q \in Requests : q # r => look'[q] = look[q]
        /\ UNCHANGED <<now, provider, published, since, entra, lastRefresh, okta>>
    BY DEF Reread, KeyInv, KeyTypeOK, provider, keyCache
  <1>2. /\ new.key = look[r].key /\ new.genuine = look[r].genuine
        /\ new.pc = (IF look[r].key \in entra THEN "accepted" ELSE "refused")
        /\ new \in LookUp
    BY LookFields DEF Reread, KeyInv, KeyTypeOK, LookUp, Fetching
  <1>3. look[r].key \in Keys
    BY <1>1 DEF KeyInv, KeyTypeOK
  <1>4. KeyTypeOK'
    BY <1>1, <1>2, <1>3, OneLookIsTyped DEF KeyInv, KeyTypeOK, Fetching
  <1>5. DocsAreRecent' /\ DocsOfEntra' /\ CacheIsRecent'
    BY <1>1, <1>2 DEF KeyInv, DocsAreRecent, DocsOfEntra, CacheIsRecent, Fresh
  <1>6. LooksAreGenuine' /\ GenuineKeyIsAccepted'
    BY <1>1, <1>2 DEF KeyInv, LooksAreGenuine, GenuineKeyIsAccepted, Fetching
  <1>. QED
    BY <1>4, <1>5, <1>6 DEF KeyInv

LEMMA ForgetStep ==
  ASSUME KeyInv, NEW r \in Requests, Forget(r)
  PROVE KeyInv'
  <1>. USE HorizonAssumption, KeysAssumption, DurationsAssumption
  <1>1. /\ look' = [look EXCEPT ![r] = NoLookUp]
        /\ look'[r] = NoLookUp
        /\ \A q \in Requests : q # r => look'[q] = look[q]
        /\ UNCHANGED <<now, provider, published, since, entra, lastRefresh, okta>>
    BY DEF Forget, KeyInv, KeyTypeOK, provider, keyCache
  <1>2. NoLookUp \in LookUp
    BY DEF NoLookUp, LookUp
  <1>3. KeyTypeOK'
    BY <1>1, <1>2, OneLookIsTyped DEF NoLookUp, KeyInv, KeyTypeOK, Fetching
  <1>4. DocsAreRecent' /\ DocsOfEntra' /\ CacheIsRecent'
    BY <1>1 DEF NoLookUp, KeyInv, DocsAreRecent, DocsOfEntra, CacheIsRecent, Fresh
  <1>5. LooksAreGenuine' /\ GenuineKeyIsAccepted'
    BY <1>1 DEF NoLookUp, KeyInv, LooksAreGenuine, GenuineKeyIsAccepted
  <1>. QED
    BY <1>3, <1>4, <1>5 DEF KeyInv

(* A new key is newer than everything fetched or cached. *)
LEMMA PublishStep ==
  ASSUME KeyInv, NEW k \in Keys, Publish(k)
  PROVE KeyInv'
  <1>. USE HorizonAssumption, KeysAssumption, DurationsAssumption
  <1>1. /\ k \notin published /\ published' = published \cup {k}
        /\ since' \in [Keys -> Nat] /\ since'[k] = now
        /\ \A j \in published : since'[j] = since[j] /\ since[j] <= now
        /\ UNCHANGED <<now, entra, lastRefresh, okta, look>>
    BY DEF Publish, KeyInv, KeyTypeOK, keyCache
  <1>2. KeyTypeOK'
    BY <1>1 DEF KeyInv, KeyTypeOK, LookUp
  <1>3. DocsAreRecent'
    BY <1>1 DEF KeyInv, KeyTypeOK, DocsAreRecent, Fetching
  <1>4. DocsOfEntra' /\ GenuineKeyIsAccepted'
    BY <1>1 DEF KeyInv, DocsOfEntra, GenuineKeyIsAccepted
  <1>5. CacheIsRecent'
    BY <1>1 DEF KeyInv, KeyTypeOK, CacheIsRecent, Fresh
  <1>6. LooksAreGenuine'
    BY <1>1 DEF KeyInv, LooksAreGenuine
  <1>. QED
    BY <1>2, <1>3, <1>4, <1>5, <1>6 DEF KeyInv

LEMMA WithdrawStep ==
  ASSUME KeyInv, NEW k \in Keys, Withdraw(k)
  PROVE KeyInv'
  <1>. USE HorizonAssumption, KeysAssumption, DurationsAssumption
  <1>1. /\ published' = published \ {k} /\ k \in published
        /\ UNCHANGED <<now, since, entra, lastRefresh, okta>>
    BY DEF Withdraw, keyCache
  <1>2. look' = [q \in Requests |->
          [look[q] EXCEPT !.genuine = look[q].genuine /\ look[q].key # k]]
    BY DEF Withdraw
  <1>3. \A q \in Requests :
          /\ look'[q].pc = look[q].pc /\ look'[q].key = look[q].key
          /\ look'[q].asked = look[q].asked /\ look'[q].doc = look[q].doc
          /\ look'[q].failed = look[q].failed
          /\ look'[q].genuine = (look[q].genuine /\ look[q].key # k)
          /\ look'[q] \in LookUp
    BY <1>2, LookFields DEF KeyInv, KeyTypeOK, LookUp, Fetching
  <1>4. KeyTypeOK'
    <2>1. look' \in [Requests -> LookUp]
      BY <1>2, <1>3
    <2>. QED
      BY <1>1, <1>3, <2>1 DEF KeyInv, KeyTypeOK
  <1>5. DocsAreRecent' /\ DocsOfEntra' /\ CacheIsRecent'
    BY <1>1, <1>3 DEF KeyInv, DocsAreRecent, DocsOfEntra, CacheIsRecent, Fresh
  <1>6. LooksAreGenuine' /\ GenuineKeyIsAccepted'
    BY <1>1, <1>3 DEF KeyInv, LooksAreGenuine, GenuineKeyIsAccepted
  <1>. QED
    BY <1>4, <1>5, <1>6 DEF KeyInv

(* A new process may refresh at once. *)
LEMMA RestartStep ==
  ASSUME KeyInv, RestartCache
  PROVE KeyInv'
  <1>. USE HorizonAssumption, KeysAssumption, DurationsAssumption
  <1>1. /\ entra' = {} /\ okta' = {} /\ lastRefresh' = now - Interval
        /\ look' = [q \in Requests |-> NoLookUp]
        /\ UNCHANGED <<now, published, since>>
    BY DEF RestartCache, provider
  <1>2. KeyTypeOK'
    BY <1>1 DEF KeyInv, KeyTypeOK, NoLookUp, LookUp, Fetching
  <1>3. DocsAreRecent' /\ DocsOfEntra' /\ LooksAreGenuine' /\ GenuineKeyIsAccepted'
    BY <1>1 DEF NoLookUp, DocsAreRecent, DocsOfEntra, LooksAreGenuine, GenuineKeyIsAccepted
  <1>4. CacheIsRecent'
    BY <1>1 DEF KeyInv, KeyTypeOK, CacheIsRecent, Fresh
  <1>. QED
    BY <1>2, <1>3, <1>4 DEF KeyInv

LEMMA PassTimeStep ==
  ASSUME KeyInv, PassTime
  PROVE KeyInv'
  <1>. USE HorizonAssumption, KeysAssumption, DurationsAssumption
  <1>1. /\ now' = now + 1
        /\ \A q \in Requests : look[q].pc \in Fetching => now < look[q].asked + Timeout
        /\ UNCHANGED <<published, since, entra, lastRefresh, okta, look>>
    BY DEF PassTime, Tick, provider, keyCache
  <1>2. \A q \in Requests : look[q].asked \in Nat
    BY LookFields DEF KeyInv
  <1>3. KeyTypeOK'
    BY <1>1, <1>2 DEF KeyInv, KeyTypeOK, LookUp
  <1>4. DocsAreRecent' /\ DocsOfEntra' /\ GenuineKeyIsAccepted'
    BY <1>1 DEF KeyInv, DocsAreRecent, DocsOfEntra, GenuineKeyIsAccepted
  <1>5. CacheIsRecent'
    BY <1>1 DEF KeyInv, KeyTypeOK, CacheIsRecent, Fresh
  <1>6. LooksAreGenuine'
    BY <1>1 DEF KeyInv, KeyTypeOK, LooksAreGenuine, Lead
  <1>. QED
    BY <1>3, <1>4, <1>5, <1>6 DEF KeyInv

-----------------------------------------------------------------------------
LEMMA KeyInvStep == KeyInv /\ [KeyNext]_keyVars => KeyInv'
  <1>. SUFFICES ASSUME KeyInv, [KeyNext]_keyVars PROVE KeyInv'
    OBVIOUS
  <1>1. CASE \E r \in Requests : Continue(r) \/ Forget(r) \/ \E k \in Keys : Look(r, k)
    BY <1>1, AnswerStep, FailFetchStep, StoreStep, RereadStep, ForgetStep, LookStep
      DEF Continue
  <1>2. CASE \E k \in Keys : Publish(k) \/ Withdraw(k)
    BY <1>2, PublishStep, WithdrawStep
  <1>3. CASE RestartCache \/ PassTime
    BY <1>3, RestartStep, PassTimeStep
  <1>4. CASE UNCHANGED keyVars
    BY <1>4 DEF keyVars, provider, keyCache, KeyInv, KeyTypeOK, DocsAreRecent, DocsOfEntra,
      CacheIsRecent, LooksAreGenuine, GenuineKeyIsAccepted, Fresh, LookUp
  <1>. QED
    BY <1>1, <1>2, <1>3, <1>4 DEF KeyNext

LEMMA KeyInvHolds == KeySpec => []KeyInv
  BY KeyInvInit, KeyInvStep, PTL DEF KeySpec

(* The cache's types, and that fetches end within their timeout. *)
THEOREM KeyTypesHold == KeySpec => []KeyTypeOK
  <1>. KeyInv => KeyTypeOK
    BY DEF KeyInv
  <1>. QED
    BY KeyInvHolds, PTL

(* Whoever presents a key that its provider has served for long enough is let
   through, unless the fetch failed: the throttle, concurrent refreshes and
   older documents that are stored last do no harm (entraKey,
   refreshEntraKeys, oktaKey). *)
THEOREM GenuineKeysAreAccepted == KeySpec => []GenuineKeyIsAccepted
  <1>. KeyInv => GenuineKeyIsAccepted
    BY DEF KeyInv
  <1>. QED
    BY KeyInvHolds, PTL

-----------------------------------------------------------------------------
(***************************************************************************)
(* The sessions.  For every set of browsers, accounts, addresses and       *)
(* tokens, every lifetime of a session and any number of logins, calls,    *)
(* deletions and renewals at once: calls are served as whoever signed in,  *)
(* and sessions end.  A behaviour of the sessions is one of the key cache, *)
(* so that what is proved there holds here.                                *)
(***************************************************************************)

(* What a request carries, by where it is: a cookie decides alone. *)
RequestsAreFormed ==
  \A r \in Requests :
    /\ req[r].pc \in {"login", "token"} => req[r].token \in Tokens /\ req[r].cookie = NoCookie
    /\ req[r].pc \in {"cookie", "record"} => req[r].cookie \in Cookie
    /\ req[r].pc = "record" => req[r].account = req[r].cookie.account

(* A browser that has logged out has nothing to present; nobody calls from
   there. *)
EndedAreEmpty ==
  /\ \A b \in Browsers : ended[b] => jar[b] = NoCookie /\ alb[b] = NoToken
  /\ \A r \in Requests : ~req[r].late

SessionInv ==
  /\ KeyInv /\ SessionTypeOK
  /\ RequestsAreFormed /\ EndedAreEmpty

-----------------------------------------------------------------------------
(* The sessions, seen by the key cache. *)

LEMMA TokensHaveKeys ==
  ASSUME SessionTypeOK, NEW b \in Browsers, alb[b] # NoToken
  PROVE alb[b] \in Tokens /\ alb[b].key \in Keys
  BY TokensAssumption DEF SessionTypeOK

LEMMA SessionStepIsKeyStep == SessionTypeOK /\ [Next]_vars => [KeyNext]_keyVars
  <1>. SUFFICES ASSUME SessionTypeOK, [Next]_vars PROVE [KeyNext]_keyVars
    OBVIOUS
  <1>1. ASSUME NEW r \in Requests, NEW b \in Browsers, Login(r, b) \/ Call(r, b)
        PROVE [KeyNext]_keyVars
    <2>1. CASE UNCHANGED keyVars
      BY <2>1
    <2>2. CASE alb[b] # NoToken /\ Look(r, alb[b].key)
      BY <2>2, TokensHaveKeys DEF KeyNext
    <2>. QED
      BY <1>1, <2>1, <2>2 DEF Login, Call
  <1>2. ASSUME NEW r \in Requests, MintSession(r) \/ Serve(r) \/ End(r)
        PROVE [KeyNext]_keyVars
    BY <1>2 DEF MintSession, Serve, End, KeyNext
  <1>3. ASSUME NEW r \in Requests, RecordLogin(r) PROVE [KeyNext]_keyVars
    BY <1>3 DEF RecordLogin
  <1>4. ASSUME NEW b \in Browsers,
               Logout(b) \/ DropCookie(b) \/ \E t \in Tokens : Handshake(b, t)
        PROVE [KeyNext]_keyVars
    BY <1>4 DEF Logout, DropCookie, Handshake
  <1>5. ASSUME NEW a \in Accounts,
               \/ Delete(a) \/ Restore(a)
               \/ \E address \in Addresses : Save(a, address)
               \/ \E moment \in Expiries : Renew(a, moment)
        PROVE [KeyNext]_keyVars
    BY <1>5 DEF Delete, Restore, Save, Renew
  <1>6. CASE Restart
    BY <1>6 DEF Restart, KeyNext
  <1>7. CASE ChangeKeys
    BY <1>7 DEF ChangeKeys, KeyNext
  <1>8. CASE Background
    BY <1>8 DEF Background, KeyNext
  <1>9. CASE UNCHANGED vars
    BY <1>9 DEF vars
  <1>. QED
    BY <1>1, <1>2, <1>3, <1>4, <1>5, <1>6, <1>7, <1>8, <1>9 DEF Next, SessionStep

-----------------------------------------------------------------------------
LEMMA SessionInvInit == Init => SessionInv
  <1>. SUFFICES ASSUME Init PROVE SessionInv
    OBVIOUS
  <1>. USE HorizonAssumption, SessionAssumption
  <1>1. KeyInv
    BY KeyInvInit DEF Init
  <1>2. accounts \in [Accounts -> [address : Addresses \cup {NoAddress},
                                   deleted : BOOLEAN, expires : Nat]]
    BY DEF Init, Account, Never
  <1>3. \A a, b \in Accounts : a # b /\ accounts[a].address = accounts[b].address
          => accounts[a].address = NoAddress
    BY DEF Init, Account
  <1>4. req \in [Requests -> Request]
    BY DEF Init, Idle, Request
  <1>5. SessionTypeOK
    BY <1>1, <1>2, <1>3, <1>4 DEF Init, SessionTypeOK, KeyInv, KeyTypeOK
  <1>6. RequestsAreFormed /\ EndedAreEmpty
    BY DEF Init, Idle, RequestsAreFormed, EndedAreEmpty
  <1>. QED
    BY <1>1, <1>5, <1>6 DEF SessionInv

(* A step of one request, by its effect on the requests. *)
LEMMA OneRequest ==
  ASSUME SessionTypeOK, NEW r \in Requests, NEW new \in Request,
         req' = [req EXCEPT ![r] = new]
  PROVE /\ req' \in [Requests -> Request] /\ req'[r] = new
        /\ \A q \in Requests : q # r => req'[q] = req[q]
  BY DEF SessionTypeOK

(* A step that leaves accounts, browsers and history alone. *)
LEMMA OthersStayTyped ==
  ASSUME SessionTypeOK, KeyTypeOK', req' \in [Requests -> Request], now' = now,
         UNCHANGED <<accounts, lastSeen, alb, jar, ended, budget>>
  PROVE SessionTypeOK'
  BY DEF SessionTypeOK

(* A login or a call begins: the browser has something to present, so that it
   has not logged out. *)
LEMMA BeginStep ==
  ASSUME SessionInv, KeyInv', NEW r \in Requests, NEW b \in Browsers,
         Login(r, b) \/ Call(r, b)
  PROVE SessionInv'
  <1>1. PICK l \in {"login", "token", "cookie"}, c \in Cookie \cup {NoCookie},
             t \in Tokens \cup {NoToken} :
          /\ Begun(r, l, b, c, t)
          /\ l \in {"login", "token"} => t \in Tokens /\ t = alb[b] /\ c = NoCookie
          /\ l = "cookie" => c \in Cookie /\ c = jar[b] /\ c # NoCookie
    <2>1. CASE Login(r, b)
      BY <2>1 DEF Login, SessionInv, SessionTypeOK
    <2>2. CASE Call(r, b)
      BY <2>2 DEF Call, SessionInv, SessionTypeOK
    <2>. QED
      BY <2>1, <2>2
  <1>2. /\ UNCHANGED <<accounts, lastSeen, alb, jar, ended, budget>>
        /\ now' = now
    BY DEF Login, Call, Look, keyVars
  <1>3. ~ended[b] /\ ended[b] \in BOOLEAN
    BY TokensAssumption DEF Login, Call, SessionInv, SessionTypeOK, EndedAreEmpty
  <1>. DEFINE new == [pc |-> l, browser |-> b, token |-> t, cookie |-> c,
                      account |-> NoAccount, late |-> ended[b]]
  <1>4. new \in Request /\ req' = [req EXCEPT ![r] = new]
    BY <1>1, <1>3 DEF Begun, Request
  <1>5. /\ req' \in [Requests -> Request] /\ req'[r] = new
        /\ \A q \in Requests : q # r => req'[q] = req[q]
    <2>. HIDE DEF new
    <2>. QED
      BY <1>4, OneRequest DEF SessionInv
  <1>6. SessionTypeOK'
    BY <1>2, <1>5, OthersStayTyped DEF SessionInv, KeyInv
  <1>7. RequestsAreFormed'
    BY <1>1, <1>5 DEF SessionInv, RequestsAreFormed
  <1>8. EndedAreEmpty'
    BY <1>1, <1>2, <1>3, <1>5 DEF SessionInv, EndedAreEmpty
  <1>. QED
    BY <1>6, <1>7, <1>8 DEF SessionInv

(* A login finds its account, which is not a deleted one. *)
LEMMA MintStep ==
  ASSUME SessionInv, KeyInv', NEW r \in Requests, MintSession(r)
  PROVE SessionInv'
  <1>1. PICK a \in HoldersOf(req[r].token.address) :
          /\ ~accounts[a].deleted
          /\ req' = [req EXCEPT ![r].pc = "record", ![r].account = a,
               ![r].cookie = [account |-> a, address |-> accounts[a].address,
                              exp |-> now + SessionTTL]]
    BY DEF MintSession
  <1>. DEFINE new == req'[r]
              cookie == [account |-> a, address |-> accounts[a].address,
                         exp |-> now + SessionTTL]
  <1>2. /\ UNCHANGED <<accounts, lastSeen, alb, jar, ended, budget>>
        /\ now' = now /\ At(r, "login")
    BY DEF MintSession, Forget
  <1>3. /\ a \in Accounts /\ accounts[a].address = req[r].token.address
        /\ accounts[a].address \in Addresses /\ now \in Nat
    BY <1>2, TokensAssumption
      DEF HoldersOf, At, SessionInv, SessionTypeOK, KeyTypeOK, RequestsAreFormed
  <1>4. cookie \in Cookie
    BY <1>3, SessionAssumption DEF Cookie
  <1>5. /\ req' = [req EXCEPT ![r] = new]
        /\ new.pc = "record" /\ new.account = a /\ new.cookie = cookie
        /\ new.browser = req[r].browser /\ new.late = req[r].late
        /\ new.token = req[r].token /\ new \in Request
        /\ \A q \in Requests : q # r => req'[q] = req[q]
        /\ req' \in [Requests -> Request]
    <2>1. req \in [Requests -> Request] /\ req[r] \in Request
      BY DEF SessionInv, SessionTypeOK
    <2>2. /\ new.pc = "record" /\ new.account = a /\ new.cookie = cookie
          /\ new.browser = req[r].browser /\ new.late = req[r].late
          /\ new.token = req[r].token
      BY <1>1, <2>1 DEF Request
    <2>3. new = [pc |-> "record", browser |-> req[r].browser, token |-> req[r].token,
                 cookie |-> cookie, account |-> a, late |-> req[r].late]
      BY <1>1, <2>1 DEF Request
    <2>4. new \in Request
      <3>. HIDE DEF cookie
      <3>. QED
        BY <1>3, <1>4, <2>1, <2>3 DEF Request
    <2>5. req' = [req EXCEPT ![r] = new]
      BY <1>1, <2>1
    <2>. HIDE DEF new, cookie
    <2>. QED
      BY <2>1, <2>2, <2>4, <2>5
  <1>6. SessionTypeOK'
    BY <1>2, <1>5, OthersStayTyped DEF SessionInv, KeyInv
  <1>7. RequestsAreFormed'
    BY <1>4, <1>5 DEF SessionInv, RequestsAreFormed
  <1>8. EndedAreEmpty'
    BY <1>2, <1>5 DEF SessionInv, EndedAreEmpty
  <1>. QED
    BY <1>6, <1>7, <1>8 DEF SessionInv

(* A request that ends has nothing on its way. *)
LEMMA EndStep ==
  ASSUME SessionInv, KeyInv', NEW r \in Requests, End(r)
  PROVE SessionInv'
  <1>1. /\ UNCHANGED <<accounts, lastSeen, alb, jar, ended, budget>>
        /\ now' = now /\ req' = [req EXCEPT ![r] = Idle]
    BY DEF End, Forget
  <1>2. Idle \in Request
    BY DEF Idle, Request
  <1>3. /\ req' \in [Requests -> Request] /\ req'[r] = Idle
        /\ \A q \in Requests : q # r => req'[q] = req[q]
    BY <1>1, <1>2, OneRequest DEF SessionInv
  <1>4. SessionTypeOK'
    BY <1>1, <1>3, OthersStayTyped DEF SessionInv, KeyInv
  <1>5. RequestsAreFormed' /\ EndedAreEmpty'
    BY <1>1, <1>3
      DEF Idle, SessionInv, RequestsAreFormed, EndedAreEmpty, At
  <1>. QED
    BY <1>4, <1>5 DEF SessionInv

LEMMA ServeStep ==
  ASSUME SessionInv, KeyInv', NEW r \in Requests, Serve(r)
  PROVE SessionInv'
  <1>1. PICK a \in Claimed(r) :
          /\ Usable(r, a)
          /\ req' = [req EXCEPT ![r].pc = "served", ![r].account = a]
    BY DEF Serve
  <1>. DEFINE new == req'[r]
  <1>2. /\ UNCHANGED <<accounts, lastSeen, alb, jar, ended, budget>>
        /\ now' = now /\ (At(r, "cookie") \/ At(r, "token"))
    BY DEF Serve, Forget
  <1>3. a \in Accounts
    BY <1>2 DEF Claimed, HoldersOf, At, SessionInv, RequestsAreFormed, Cookie
  <1>4. /\ req' = [req EXCEPT ![r] = new]
        /\ new.pc = "served" /\ new.account = a /\ new.late = req[r].late
        /\ new \in Request /\ req' \in [Requests -> Request]
        /\ \A q \in Requests : q # r => req'[q] = req[q]
    BY <1>1, <1>3 DEF SessionInv, SessionTypeOK, Request
  <1>5. SessionTypeOK'
    BY <1>2, <1>4, OthersStayTyped DEF SessionInv, KeyInv
  <1>6. RequestsAreFormed' /\ EndedAreEmpty'
    BY <1>2, <1>4
      DEF SessionInv, RequestsAreFormed, EndedAreEmpty, At
  <1>. QED
    BY <1>5, <1>6 DEF SessionInv

(* The only step that brings a browser a cookie: one that was on its way. *)
LEMMA RecordStep ==
  ASSUME SessionInv, KeyInv', NEW r \in Requests, RecordLogin(r)
  PROVE SessionInv'
  <1>1. /\ UNCHANGED <<accounts, alb, budget>>
        /\ now' = now /\ req' = [req EXCEPT ![r] = Idle] /\ At(r, "record")
    BY DEF RecordLogin, keyVars
  <1>2. Idle \in Request
    BY DEF Idle, Request
  <1>3. /\ req' \in [Requests -> Request] /\ req'[r] = Idle
        /\ \A q \in Requests : q # r => req'[q] = req[q]
    BY <1>1, <1>2, OneRequest DEF SessionInv
  <1>4. req[r].cookie \in Cookie /\ now \in Nat
    BY <1>1 DEF At, SessionInv, RequestsAreFormed, KeyInv, KeyTypeOK
  <1>5. /\ jar' \in [Browsers -> Cookie \cup {NoCookie}]
        /\ ended' \in [Browsers -> BOOLEAN]
        /\ \A b \in Browsers : ended'[b] => ended[b] /\ jar'[b] = jar[b]
    BY <1>4 DEF RecordLogin, SessionInv, SessionTypeOK
  <1>6. lastSeen' \in [Accounts -> -1 .. now]
    BY <1>4 DEF RecordLogin, SessionInv, SessionTypeOK
  <1>7. SessionTypeOK'
    BY <1>1, <1>3, <1>5, <1>6 DEF SessionInv, SessionTypeOK, KeyInv
  <1>8. RequestsAreFormed'
    BY <1>1, <1>3 DEF Idle, SessionInv, RequestsAreFormed, At
  <1>9. EndedAreEmpty'
    BY <1>1, <1>3, <1>5 DEF Idle, SessionInv, EndedAreEmpty, At
  <1>. QED
    BY <1>7, <1>8, <1>9 DEF SessionInv

(* What a browser does takes things from it, or ends its being logged out. *)
LEMMA BrowserStep ==
  ASSUME SessionInv, KeyInv', NEW b \in Browsers,
         Logout(b) \/ DropCookie(b) \/ \E t \in Tokens : Handshake(b, t)
  PROVE SessionInv'
  <1>. USE SessionAssumption
  <1>1. UNCHANGED <<now, accounts, lastSeen, req>> /\ budget' \in 0 .. Budget
    BY DEF Logout, DropCookie, Handshake, Spend, keyVars, SessionInv, SessionTypeOK
  <1>2. /\ alb' \in [Browsers -> Tokens \cup {NoToken}]
        /\ jar' \in [Browsers -> Cookie \cup {NoCookie}]
        /\ ended' \in [Browsers -> BOOLEAN]
    BY DEF Logout, Cleared, DropCookie, Handshake, SessionInv, SessionTypeOK
  <1>3. SessionTypeOK'
    BY <1>1, <1>2 DEF SessionInv, SessionTypeOK, KeyInv
  <1>4. RequestsAreFormed'
    BY <1>1 DEF SessionInv, RequestsAreFormed, At
  <1>5. EndedAreEmpty'
    <2>1. CASE Logout(b)
      BY <1>1, <2>1 DEF Logout, Cleared, SessionInv, SessionTypeOK, EndedAreEmpty
    <2>2. CASE DropCookie(b)
      BY <1>1, <2>2 DEF DropCookie, SessionInv, SessionTypeOK, EndedAreEmpty
    <2>3. CASE \E t \in Tokens : Handshake(b, t)
      BY <1>1, <2>3 DEF Handshake, SessionInv, SessionTypeOK, EndedAreEmpty
    <2>. QED
      BY <2>1, <2>2, <2>3
  <1>. QED
    BY <1>3, <1>4, <1>5 DEF SessionInv

(* What administrators do to accounts. *)
LEMMA AccountStep ==
  ASSUME SessionInv, KeyInv', NEW a \in Accounts,
         \/ Delete(a) \/ Restore(a)
         \/ \E address \in Addresses : Save(a, address)
         \/ \E moment \in Expiries : Renew(a, moment)
  PROVE SessionInv'
  <1>. USE SessionAssumption
  <1>1. UNCHANGED <<now, lastSeen, alb, jar, req, ended>> /\ budget' \in 0 .. Budget
    BY DEF Delete, Restore, Save, Renew, Spend, keyVars, SessionInv, SessionTypeOK
  <1>2. accounts' \in [Accounts -> [address : Addresses \cup {NoAddress},
                                   deleted : BOOLEAN, expires : Nat]]
    <2>1. CASE Delete(a)
      BY <2>1 DEF Delete, SessionInv, SessionTypeOK
    <2>4. CASE Restore(a)
      BY <2>4 DEF Restore, SessionInv, SessionTypeOK
    <2>2. CASE \E address \in Addresses : Save(a, address)
      BY <2>2 DEF Save, SessionInv, SessionTypeOK
    <2>3. CASE \E moment \in Expiries : Renew(a, moment)
      BY <2>3 DEF Renew, SessionInv, SessionTypeOK
    <2>. QED
      BY <2>1, <2>2, <2>3, <2>4
  <1>3. \A c, d \in Accounts : c # d /\ accounts'[c].address = accounts'[d].address
          => accounts'[c].address = NoAddress
    <2>1. ASSUME NEW address \in Addresses, Save(a, address)
          PROVE \A c, d \in Accounts : c # d /\ accounts'[c].address = accounts'[d].address
                  => accounts'[c].address = NoAddress
      BY <2>1 DEF Save, HoldersOf, SessionInv, SessionTypeOK
    <2>2. ASSUME Delete(a) \/ Restore(a) \/ \E moment \in Expiries : Renew(a, moment)
          PROVE \A c \in Accounts : accounts'[c].address = accounts[c].address
      BY <2>2 DEF Delete, Restore, Renew, SessionInv, SessionTypeOK
    <2>. QED
      BY <2>1, <2>2 DEF SessionInv, SessionTypeOK
  <1>4. SessionTypeOK'
    BY <1>1, <1>2, <1>3 DEF SessionInv, SessionTypeOK, KeyInv
  <1>5. RequestsAreFormed' /\ EndedAreEmpty'
    BY <1>1 DEF SessionInv, RequestsAreFormed, EndedAreEmpty
  <1>. QED
    BY <1>4, <1>5 DEF SessionInv

LEMMA RestartKeepsSessions ==
  ASSUME SessionInv, KeyInv', Restart
  PROVE SessionInv'
  <1>. USE SessionAssumption
  <1>1. /\ UNCHANGED <<now, accounts, lastSeen, alb, jar, ended>>
        /\ budget' \in 0 .. Budget /\ req' = [r \in Requests |-> Idle]
    BY DEF Restart, RestartCache, Spend, SessionInv, SessionTypeOK
  <1>2. req' \in [Requests -> Request]
    BY <1>1 DEF Idle, Request
  <1>3. SessionTypeOK'
    BY <1>1, <1>2 DEF SessionInv, SessionTypeOK, KeyInv
  <1>4. RequestsAreFormed' /\ EndedAreEmpty'
    BY <1>1
      DEF Idle, SessionInv, RequestsAreFormed, EndedAreEmpty, At
  <1>. QED
    BY <1>3, <1>4 DEF SessionInv

(* Keys change, look-ups go on, time passes. *)
LEMMA OutsideStep ==
  ASSUME SessionInv, KeyInv', ChangeKeys \/ (Background /\ UNCHANGED sessionVars)
  PROVE SessionInv'
  <1>. USE SessionAssumption
  <1>1. UNCHANGED <<accounts, lastSeen, alb, jar, req, ended>>
        /\ budget' \in 0 .. Budget
    BY DEF ChangeKeys, Spend, sessionVars, SessionInv, SessionTypeOK
  <1>2. now' = now \/ now' = now + 1
    BY DEF ChangeKeys, Publish, Withdraw, Background, Continue, Answer, FailFetch, Store,
      Reread, PassTime, Tick
  <1>3. lastSeen' \in [Accounts -> -1 .. now']
    BY <1>1, <1>2 DEF SessionInv, SessionTypeOK, KeyTypeOK
  <1>4. SessionTypeOK'
    BY <1>1, <1>3 DEF SessionInv, SessionTypeOK, KeyInv
  <1>5. RequestsAreFormed' /\ EndedAreEmpty'
    BY <1>1 DEF SessionInv, RequestsAreFormed, EndedAreEmpty, At
  <1>. QED
    BY <1>4, <1>5 DEF SessionInv

LEMMA SessionInvStep == SessionInv /\ [Next]_vars => SessionInv'
  <1>. SUFFICES ASSUME SessionInv, [Next]_vars PROVE SessionInv'
    OBVIOUS
  <1>1. KeyInv'
    BY SessionStepIsKeyStep, KeyInvStep DEF SessionInv
  <1>2. ASSUME NEW r \in Requests, SessionStep(r) PROVE SessionInv'
    BY <1>1, <1>2, BeginStep, MintStep, RecordStep, ServeStep, EndStep DEF SessionStep
  <1>3. ASSUME NEW b \in Browsers,
               Logout(b) \/ DropCookie(b) \/ \E t \in Tokens : Handshake(b, t)
        PROVE SessionInv'
    BY <1>1, <1>3, BrowserStep
  <1>4. ASSUME NEW a \in Accounts,
               \/ Delete(a) \/ Restore(a)
               \/ \E address \in Addresses : Save(a, address)
               \/ \E moment \in Expiries : Renew(a, moment)
        PROVE SessionInv'
    BY <1>1, <1>4, AccountStep
  <1>5. CASE Restart
    BY <1>1, <1>5, RestartKeepsSessions
  <1>6. CASE ChangeKeys \/ (Background /\ UNCHANGED sessionVars)
    BY <1>1, <1>6, OutsideStep
  <1>7. CASE UNCHANGED vars
    BY <1>1, <1>7 DEF vars, sessionVars, keyVars, SessionInv, SessionTypeOK, KeyInv,
      RequestsAreFormed, EndedAreEmpty, At
  <1>. QED
    BY <1>2, <1>3, <1>4, <1>5, <1>6, <1>7 DEF Next

LEMMA SessionInvHolds == Spec => []SessionInv
  BY SessionInvInit, SessionInvStep, PTL DEF Spec

-----------------------------------------------------------------------------
(* Only its own steps, and a restart, change a request. *)
LEMMA OwnStep ==
  ASSUME SessionInv, Next, NEW r \in Requests
  PROVE req'[r] = req[r] \/ req'[r] = Idle \/ SessionStep(r)
  <1>1. ASSUME NEW q \in Requests, q # r, SessionStep(q) PROVE req'[r] = req[r]
    BY <1>1 DEF SessionStep, Login, Call, Begun, MintSession, RecordLogin, Serve, End,
      SessionInv, SessionTypeOK
  <1>2. ASSUME NEW b \in Browsers,
               Logout(b) \/ DropCookie(b) \/ \E t \in Tokens : Handshake(b, t)
        PROVE req' = req
    BY <1>2 DEF Logout, DropCookie, Handshake
  <1>3. ASSUME NEW a \in Accounts,
               \/ Delete(a) \/ Restore(a)
               \/ \E address \in Addresses : Save(a, address)
               \/ \E moment \in Expiries : Renew(a, moment)
        PROVE req' = req
    BY <1>3 DEF Delete, Restore, Save, Renew
  <1>4. Restart => req'[r] = Idle
    BY DEF Restart
  <1>5. ChangeKeys \/ (Background /\ UNCHANGED sessionVars) => req' = req
    BY DEF ChangeKeys, sessionVars
  <1>. QED
    BY <1>1, <1>2, <1>3, <1>4, <1>5 DEF Next

(* A request goes on as "served" or "record" only by Serve and MintSession. *)
LEMMA OwnAdvance ==
  ASSUME SessionInv, Next, NEW r \in Requests, req'[r] # req[r],
         req'[r].pc \in {"served", "record"}
  PROVE \/ Serve(r) /\ req'[r].pc = "served"
        \/ MintSession(r) /\ req'[r].pc = "record"
  <1>1. req'[r] # Idle /\ SessionStep(r)
    BY OwnStep DEF Idle
  <1>2. ASSUME NEW b \in Browsers, Login(r, b) \/ Call(r, b) PROVE FALSE
    BY <1>2 DEF Login, Call, Begun, SessionInv, SessionTypeOK
  <1>3. ~RecordLogin(r) /\ ~End(r)
    BY <1>1 DEF RecordLogin, End, SessionInv, SessionTypeOK
  <1>4. Serve(r) => req'[r].pc = "served"
    BY DEF Serve, SessionInv, SessionTypeOK, Request
  <1>5. MintSession(r) => req'[r].pc = "record"
    BY DEF MintSession, SessionInv, SessionTypeOK, Request
  <1>. QED
    BY <1>1, <1>2, <1>3, <1>4, <1>5 DEF SessionStep

(* Whom a request is served as. *)
LEMMA ServeEffect ==
  ASSUME SessionInv, NEW r \in Requests, Serve(r)
  PROVE /\ Usable(r, req'[r].account)
        /\ req[r].cookie # NoCookie => req'[r].account = req[r].cookie.account
        /\ req[r].cookie = NoCookie =>
             accounts[req'[r].account].address = req[r].token.address /\ Issued(req[r].token)
  <1>1. PICK a \in Claimed(r) :
          Usable(r, a) /\ req' = [req EXCEPT ![r].pc = "served", ![r].account = a]
    BY DEF Serve
  <1>2. req'[r].account = a
    BY <1>1 DEF SessionInv, SessionTypeOK, Request
  <1>3. CASE At(r, "cookie")
    BY <1>1, <1>2, <1>3, SessionAssumption DEF At, Claimed, SessionInv, RequestsAreFormed
  <1>4. CASE At(r, "token") /\ Verified(r)
    BY <1>1, <1>2, <1>4
      DEF At, Verified, Claimed, HoldersOf, SessionInv, RequestsAreFormed
  <1>. QED
    BY <1>3, <1>4 DEF Serve

LEMMA StepServesAsPresented ==
  ASSUME SessionInv, Next, NEW r \in Requests, req'[r].pc = "served", ~At(r, "served")
  PROVE LET a == req'[r].account IN
        /\ ~IsExpired(a)
        /\ IF req[r].cookie # NoCookie
           THEN a = req[r].cookie.account
           ELSE accounts[a].address = req[r].token.address /\ Issued(req[r].token)
  <1>1. Serve(r)
    BY OwnAdvance DEF At
  <1>. QED
    BY <1>1, ServeEffect DEF Usable

LEMMA StepKeepsDeletedOut == SessionInv /\ Next => DeletedStayOut
  <1>. DEFINE Recorded(a) == \E r \in Requests : At(r, "record") /\ req[r].account = a
  <1>. SUFFICES ASSUME SessionInv, Next, NEW a \in Accounts, accounts[a].deleted PROVE
         /\ \A r \in Requests :
              req'[r].pc \in {"served", "record"} /\ req'[r].account = a => req'[r] = req[r]
         /\ lastSeen'[a] = lastSeen[a] \/ Recorded(a)
    BY DEF DeletedStayOut
  <1>2. lastSeen'[a] = lastSeen[a] \/ Recorded(a)
    <2>1. ASSUME NEW q \in Requests, RecordLogin(q) PROVE lastSeen'[a] = lastSeen[a] \/ Recorded(a)
      BY <2>1 DEF RecordLogin, SessionInv, SessionTypeOK
    <2>2. ASSUME NEW q \in Requests, SessionStep(q) PROVE lastSeen'[a] = lastSeen[a] \/ Recorded(a)
      BY <2>1, <2>2 DEF SessionStep, Login, Call, MintSession, Serve, End
    <2>3. ASSUME NEW b \in Browsers,
                 Logout(b) \/ DropCookie(b) \/ \E t \in Tokens : Handshake(b, t)
          PROVE lastSeen' = lastSeen
      BY <2>3 DEF Logout, DropCookie, Handshake
    <2>4. ASSUME NEW c \in Accounts,
                 \/ Delete(c) \/ Restore(c)
                 \/ \E address \in Addresses : Save(c, address)
                 \/ \E moment \in Expiries : Renew(c, moment)
          PROVE lastSeen' = lastSeen
      BY <2>4 DEF Delete, Restore, Save, Renew
    <2>5. Restart \/ ChangeKeys \/ (Background /\ UNCHANGED sessionVars) =>
            lastSeen' = lastSeen
      BY DEF Restart, ChangeKeys, sessionVars
    <2>. QED
      BY <2>2, <2>3, <2>4, <2>5 DEF Next
  <1>3. ASSUME NEW r \in Requests, req'[r].pc \in {"served", "record"},
               req'[r].account = a, req'[r] # req[r]
        PROVE FALSE
    <2>1. CASE Serve(r)
      BY <1>3, <2>1, ServeEffect DEF Usable
    <2>2. CASE MintSession(r)
      BY <1>3, <2>2 DEF MintSession, SessionInv, SessionTypeOK, Request
    <2>. QED
      BY <1>3, <2>1, <2>2, OwnAdvance
  <1>. QED
    BY <1>2, <1>3

-----------------------------------------------------------------------------
(* The types of the sessions; no two accounts have one address. *)
THEOREM SessionTypesHold == Spec => []SessionTypeOK
  <1>. SessionInv => SessionTypeOK
    BY DEF SessionInv
  <1>. QED
    BY SessionInvHolds, PTL

(* The sessions use the key cache as it is specified. *)
THEOREM SessionsUseTheCache == Spec => KeySpec
  <1>1. Init => KeyInit
    BY DEF Init
  <1>2. SessionInv /\ [Next]_vars => [KeyNext]_keyVars
    BY SessionStepIsKeyStep DEF SessionInv
  <1>. QED
    BY <1>1, <1>2, SessionInvHolds, PTL DEF Spec, KeySpec

(* Therefore no login and no call is refused for a genuine key. *)
THEOREM GenuineTokensAreVerified == Spec => []GenuineKeyIsAccepted
  BY SessionsUseTheCache, GenuineKeysAreAccepted, PTL

(* A call is served as whoever signed in (claimsFromRequest, Middleware). *)
THEOREM CallsAreServedAsPresented == Spec => ServedAsPresented
  <1>1. SessionInv /\ [Next]_vars =>
          [\A r \in Requests : (req'[r].pc = "served" /\ ~At(r, "served")) =>
             LET a == req'[r].account IN
             /\ ~IsExpired(a)
             /\ IF req[r].cookie # NoCookie
                THEN a = req[r].cookie.account
                ELSE accounts[a].address = req[r].token.address /\ Issued(req[r].token)]_vars
    BY StepServesAsPresented
  <1>. QED
    BY <1>1, SessionInvHolds, PTL DEF Spec, ServedAsPresented

(* A deleted account gets nobody in, whatever login of it was under way, and a
   browser that has logged out is let in only after another handshake or with
   the cookie of a login that the logout found under way (DeleteUser,
   SessionHandler, Middleware; LogoutHandler). *)
THEOREM SessionsDoEnd == Spec => SessionsEnd
  <1>1. SessionInv' => LoggedOutStayOut
    BY DEF SessionInv, EndedAreEmpty, LoggedOutStayOut
  <1>2. SessionInv /\ SessionInv' /\ [Next]_vars => [DeletedStayOut /\ LoggedOutStayOut]_vars
    BY <1>1, StepKeepsDeletedOut
  <1>. QED
    BY <1>2, SessionInvHolds, PTL DEF Spec, SessionsEnd

-----------------------------------------------------------------------------
(***************************************************************************)
(* The limiter.  For every set of clients, every rate, burst and TTL in    *)
(* which an empty bucket fills up: it behaves as one bucket per client     *)
(* that is never swept, and its map forgets.                               *)
(***************************************************************************)

(* A bucket was used no later than it was seen, and seen around the last
   sweep: at most TTL before it, and less than TTL after it. *)
LimiterInv ==
  /\ LimiterTypeOK
  /\ \A c \in DOMAIN buckets :
       /\ buckets[c].at <= buckets[c].seen
       /\ lastCleanup <= buckets[c].seen + TTL
       /\ buckets[c].seen < lastCleanup + TTL

-----------------------------------------------------------------------------
(* Arithmetic. *)

LEMMA CappedRange == \A n \in Nat : Capped(n) \in 0 .. Burst
  BY RatesAssumption DEF Capped

LEMMA CapTwice == \A n \in Nat : Capped(Capped(n) + Rate) = Capped(n + Rate)
  BY RatesAssumption DEF Capped

LEMMA RateOfNext == \A n \in Nat : Rate * (n + 1) = Rate * n + Rate /\ Rate * n \in Nat
  BY RatesAssumption

(* What a TTL fills. *)
LEMMA FullAfterTTL == \A n \in Nat : n >= TTL => Rate * n >= Burst
  <1>. SUFFICES ASSUME NEW n \in Nat, n >= TTL PROVE Rate * n >= Burst
    OBVIOUS
  <1>. DEFINE extra == n - TTL
  <1>1. extra \in Nat /\ n = TTL + extra
    BY RatesAssumption
  <1>2. Rate * extra \in Nat
    BY <1>1, RatesAssumption
  <1>3. Rate * (TTL + extra) = TTL * Rate + Rate * extra
    BY <1>1, RatesAssumption
  <1>. QED
    BY <1>1, <1>2, <1>3, RatesAssumption

-----------------------------------------------------------------------------
LEMMA BucketFields ==
  ASSUME LimiterInv, NEW c \in DOMAIN buckets
  PROVE /\ buckets[c].tokens \in 0 .. Burst /\ buckets[c].at \in 0 .. now
        /\ buckets[c].seen \in 0 .. now
        /\ Rate * (now - buckets[c].at) \in Nat
        /\ Available(c) \in 0 .. Burst
  <1>1. /\ now \in Nat /\ buckets[c].tokens \in 0 .. Burst
        /\ buckets[c].at \in 0 .. now /\ buckets[c].seen \in 0 .. now
    BY DEF LimiterInv, LimiterTypeOK, Bucket
  <1>2. now - buckets[c].at \in Nat
    BY <1>1
  <1>3. Rate * (now - buckets[c].at) \in Nat
    BY <1>2, RateOfNext
  <1>4. Available(c) \in 0 .. Burst
    BY <1>1, <1>3, CappedRange, RatesAssumption DEF Available
  <1>. QED
    BY <1>1, <1>3, <1>4

(* A bucket that is swept is full. *)
LEMMA SweptIsFull ==
  ASSUME LimiterInv, NEW c \in DOMAIN buckets, c \notin Kept
  PROVE Available(c) = Burst
  <1>1. now - buckets[c].seen > TTL
    BY DEF Kept
  <1>2. now - buckets[c].at >= TTL /\ now - buckets[c].at \in Nat
    BY <1>1, BucketFields, RatesAssumption DEF LimiterInv, LimiterTypeOK
  <1>3. Rate * (now - buckets[c].at) >= Burst
    BY <1>2, FullAfterTTL
  <1>. QED
    BY <1>3, BucketFields, RatesAssumption DEF Available, Capped

(* What the code computes is the level of the ideal bucket, whether or not the
   client's own was swept just now. *)
LEMMA HaveIsLevel ==
  ASSUME LimiterInv, NEW c \in Clients
  PROVE /\ (IF c \in Kept THEN Available(c) ELSE Burst) = Level(c)
        /\ Level(c) \in 0 .. Burst
        /\ c \notin Kept => Level(c) = Burst
  <1>1. Kept \subseteq DOMAIN buckets
    BY DEF Kept
  <1>2. c \in DOMAIN buckets => Available(c) \in 0 .. Burst
    BY BucketFields
  <1>3. c \in DOMAIN buckets /\ c \notin Kept => Available(c) = Burst
    BY SweptIsFull
  <1>. QED
    BY <1>1, <1>2, <1>3, RatesAssumption DEF Level

(* A request, by its effects. *)
LEMMA AskEffect ==
  ASSUME LimiterInv, NEW c \in Clients, Ask(c)
  PROVE /\ now' = now /\ lastCleanup' = Stamp
        /\ Level(c) >= 1 => verdict' = [client |-> c, admitted |-> TRUE]
        /\ Level(c) < 1 => verdict' = [client |-> c, admitted |-> FALSE]
        /\ DOMAIN buckets' = Kept \cup {c}
        /\ \A d \in Kept : d # c => buckets'[d] = buckets[d]
        /\ buckets'[c].seen = now /\ buckets'[c] \in Bucket
        /\ Level(c) >= 1 => buckets'[c].tokens = Level(c) - 1 /\ buckets'[c].at = now
        /\ Level(c) < 1 => /\ c \in DOMAIN buckets
                          /\ buckets'[c].tokens = buckets[c].tokens
                          /\ buckets'[c].at = buckets[c].at
  <1>. USE RatesAssumption
  <1>. DEFINE have == IF c \in Kept THEN Available(c) ELSE Burst
              asked == IF have >= 1 THEN [tokens |-> have - 1, at |-> now, seen |-> Seen(c)]
                       ELSE [buckets[c] EXCEPT !.seen = Seen(c)]
  <1>1. /\ buckets' = [d \in Kept \cup {c} |-> IF d = c THEN asked ELSE buckets[d]]
        /\ lastCleanup' = Stamp /\ now' = now
    BY DEF Ask
  <1>v. verdict' = [client |-> c, admitted |-> have >= 1]
    BY DEF Ask
  <1>2. have = Level(c) /\ Level(c) \in 0 .. Burst /\ (c \notin Kept => Level(c) = Burst)
    BY HaveIsLevel
  <1>3. Kept \subseteq DOMAIN buckets /\ now \in Nat
    BY DEF Kept, LimiterInv, LimiterTypeOK
  <1>4. CASE Level(c) >= 1
    <2>0. verdict' = [client |-> c, admitted |-> TRUE]
      <3>1. (have >= 1) = TRUE
        BY <1>2, <1>4
      <3>. HIDE DEF have
      <3>. QED
        BY ONLY <1>v, <3>1, Zenon
    <2>1. asked = [tokens |-> Level(c) - 1, at |-> now, seen |-> now]
      BY <1>2, <1>4 DEF Seen
    <2>2. asked \in Bucket
      BY <1>2, <1>3, <1>4, <2>1 DEF Bucket
    <2>3. /\ DOMAIN buckets' = Kept \cup {c} /\ buckets'[c] = asked
          /\ \A d \in Kept : d # c => buckets'[d] = buckets[d]
      <3>. HIDE DEF asked
      <3>. QED
        BY <1>1
    <2>. HIDE DEF asked, have
    <2>. QED
      BY <1>1, <1>2, <1>4, <2>0, <2>1, <2>2, <2>3
  <1>5. CASE Level(c) < 1
    <2>0. verdict' = [client |-> c, admitted |-> FALSE]
      <3>1. (have >= 1) = FALSE
        BY <1>2, <1>5
      <3>. HIDE DEF have
      <3>. QED
        BY ONLY <1>v, <3>1, Zenon
    <2>1. c \in Kept /\ c \in DOMAIN buckets /\ buckets[c] \in Bucket
      BY <1>2, <1>3, <1>5 DEF LimiterInv, LimiterTypeOK
    <2>2. /\ asked \in Bucket /\ asked.seen = now
          /\ asked.tokens = buckets[c].tokens /\ asked.at = buckets[c].at
      BY <1>2, <1>3, <1>5, <2>1 DEF Seen, Bucket
    <2>3. /\ DOMAIN buckets' = Kept \cup {c} /\ buckets'[c] = asked
          /\ \A d \in Kept : d # c => buckets'[d] = buckets[d]
      <3>. HIDE DEF asked
      <3>. QED
        BY <1>1
    <2>. HIDE DEF asked, have
    <2>. QED
      BY <1>1, <1>2, <1>5, <2>0, <2>1, <2>2, <2>3
  <1>. QED
    BY <1>2, <1>4, <1>5

-----------------------------------------------------------------------------
LEMMA LimiterInvInit == now = 0 /\ LimiterInit => LimiterInv
  BY RatesAssumption DEF LimiterInit, LimiterInv, LimiterTypeOK

LEMMA AskKeepsInv ==
  ASSUME LimiterInv, NEW c \in Clients, Ask(c)
  PROVE LimiterInv'
  <1>. USE RatesAssumption
  <1>1. /\ now \in Nat /\ lastCleanup \in Int /\ lastCleanup <= now
        /\ Kept \subseteq DOMAIN buckets
    BY DEF LimiterInv, LimiterTypeOK, Kept
  <1>a. /\ DOMAIN buckets' = Kept \cup {c} /\ buckets'[c] \in Bucket
        /\ buckets'[c].seen = now /\ now' = now /\ lastCleanup' = Stamp
        /\ \A d \in Kept : d # c => buckets'[d] = buckets[d]
    BY AskEffect
  <1>2. /\ Stamp \in Int /\ Stamp <= now /\ lastCleanup <= Stamp /\ now < Stamp + TTL
    BY <1>1 DEF Stamp, SweepDue
  <1>3. \A d \in Kept : /\ buckets[d] \in Bucket /\ buckets[d].at <= buckets[d].seen
                        /\ buckets[d].seen \in 0 .. now
                        /\ Stamp <= buckets[d].seen + TTL
                        /\ buckets[d].seen < Stamp + TTL
    BY <1>1, <1>2, BucketFields DEF LimiterInv, LimiterTypeOK, Kept, Stamp, SweepDue
  <1>4. \A d \in DOMAIN buckets' :
          /\ d \in Clients /\ buckets'[d] \in Bucket
          /\ buckets'[d].at <= buckets'[d].seen
          /\ Stamp <= buckets'[d].seen + TTL
          /\ buckets'[d].seen < Stamp + TTL
    <2>1. buckets'[c].at <= now
      BY <1>1, <1>a DEF Bucket
    <2>. QED
      BY <1>1, <1>2, <1>3, <1>a, <2>1 DEF LimiterInv, LimiterTypeOK
  <1>5. verdict' \in [client : Clients, admitted : BOOLEAN] \cup {NoVerdict}
    <2>1. Level(c) \in Int
      BY HaveIsLevel
    <2>2. Level(c) >= 1 => verdict' = [client |-> c, admitted |-> TRUE]
      BY AskEffect
    <2>3. Level(c) < 1 => verdict' = [client |-> c, admitted |-> FALSE]
      BY AskEffect
    <2>4. /\ [client |-> c, admitted |-> TRUE] \in [client : Clients, admitted : BOOLEAN]
          /\ [client |-> c, admitted |-> FALSE] \in [client : Clients, admitted : BOOLEAN]
      OBVIOUS
    <2>5. Level(c) >= 1 \/ Level(c) < 1
      BY <2>1
    <2>. QED
      BY ONLY <2>2, <2>3, <2>4, <2>5, Zenon
  <1>6. Bucket' = Bucket
    BY AskEffect DEF Bucket
  <1>. QED
    BY <1>1, <1>2, <1>4, <1>5, <1>6, <1>a DEF LimiterInv, LimiterTypeOK

LEMMA TickKeepsInv ==
  ASSUME LimiterInv, LimiterTick
  PROVE LimiterInv'
  <1>1. now' = now + 1 /\ verdict' = NoVerdict /\ UNCHANGED <<buckets, lastCleanup>>
    BY DEF LimiterTick, Tick
  <1>2. \A c \in DOMAIN buckets : buckets[c] \in Bucket'
    BY <1>1 DEF LimiterInv, LimiterTypeOK, Bucket
  <1>. QED
    BY <1>1, <1>2 DEF LimiterInv, LimiterTypeOK

LEMMA LimiterInvStep == LimiterInv /\ [LimiterNext]_<<now, limiterVars>> => LimiterInv'
  <1>1. LimiterInv /\ LimiterTick => LimiterInv'
    BY TickKeepsInv
  <1>2. ASSUME LimiterInv, NEW c \in Clients, Ask(c) PROVE LimiterInv'
    BY <1>2, AskKeepsInv
  <1>3. LimiterInv /\ UNCHANGED <<now, limiterVars>> => LimiterInv'
    BY DEF limiterVars, LimiterInv, LimiterTypeOK, Bucket
  <1>. QED
    BY <1>1, <1>2, <1>3 DEF LimiterNext

LEMMA LimiterInvHolds == LimiterSpec => []LimiterInv
  BY LimiterInvInit, LimiterInvStep, PTL DEF LimiterSpec

(* The limiter's types: no bucket holds more than Burst or less than nothing. *)
THEOREM LimiterTypesHold == LimiterSpec => []LimiterTypeOK
  <1>. LimiterInv => LimiterTypeOK
    BY DEF LimiterInv
  <1>. QED
    BY LimiterInvHolds, PTL

(* Nobody can grow the map for ever: while requests come, a bucket that has
   not been touched for twice the TTL is gone (cleanup). *)
THEOREM IdleBucketsDoLeave == LimiterSpec => []IdleBucketsLeave
  <1>1. LimiterInv => IdleBucketsLeave
    BY BucketFields, RatesAssumption DEF LimiterInv, LimiterTypeOK, IdleBucketsLeave
  <1>. QED
    BY <1>1, LimiterInvHolds, PTL

-----------------------------------------------------------------------------
(* The refinement. *)

LEMMA InitIsIdeal == now = 0 /\ LimiterInit => Ideal!BucketInit
  BY DEF LimiterInit, Ideal!BucketInit, Levels, Level

(* A tick fills every bucket, those that the map does not hold included. *)
LEMMA TickIsFill ==
  ASSUME LimiterInv, LimiterTick
  PROVE Ideal!Fill
  <1>1. now' = now + 1 /\ now \in Nat /\ verdict' = NoVerdict /\ buckets' = buckets
    BY DEF LimiterTick, Tick, LimiterInv, LimiterTypeOK
  <1>2. ASSUME NEW c \in Clients PROVE Level(c)' = Ideal!Capped(Level(c) + Rate)
    <2>1. CASE c \in DOMAIN buckets
      <3>. DEFINE age == now - buckets[c].at
                  had == buckets[c].tokens + Rate * age
      <3>1. age \in Nat /\ Rate * age \in Nat /\ buckets[c].tokens \in Nat /\ had \in Nat
        BY <1>1, <2>1, BucketFields, RatesAssumption
      <3>2. (now + 1) - buckets[c].at = age + 1
        BY <1>1, <2>1, BucketFields
      <3>3. Rate * (age + 1) = Rate * age + Rate
        BY <3>1, RateOfNext
      <3>4. Level(c)' = Capped(buckets[c].tokens + Rate * ((now + 1) - buckets[c].at))
        BY <1>1, <2>1 DEF Level, Available, Capped
      <3>5. Level(c)' = Capped(had + Rate)
        BY <3>1, <3>2, <3>3, <3>4, RatesAssumption
      <3>6. Level(c) = Capped(had)
        BY <2>1 DEF Level, Available
      <3>. QED
        BY <3>1, <3>5, <3>6, CapTwice DEF Capped, Ideal!Capped
    <2>2. CASE c \notin DOMAIN buckets
      BY <1>1, <2>2, RatesAssumption DEF Level, Ideal!Capped
    <2>. QED
      BY <2>1, <2>2
  <1>. QED
    BY <1>1, <1>2 DEF Ideal!Fill, Levels

(* A request takes a token of its client's bucket, if there is one, and
   changes nobody else's; a sweep changes nothing. *)
LEMMA AskIsVerdict ==
  ASSUME LimiterInv, NEW c \in Clients, Ask(c)
  PROVE Ideal!Admit(c) \/ Ideal!Reject(c)
  <1>. USE RatesAssumption
  <1>1. /\ now \in Nat /\ now' = now /\ Level(c) \in 0 .. Burst
        /\ Level(c) >= 1 => verdict' = [client |-> c, admitted |-> TRUE]
        /\ Level(c) < 1 => verdict' = [client |-> c, admitted |-> FALSE]
    BY AskEffect, HaveIsLevel DEF LimiterInv, LimiterTypeOK
  <1>2. ASSUME NEW d \in Clients, d # c PROVE Level(d)' = Level(d)
    <2>1. CASE d \in Kept
      BY <1>1, <1>2, <2>1, AskEffect DEF Level, Available, Capped, Kept
    <2>2. CASE d \notin Kept
      <3>1. Level(d) = Burst
        BY <2>2, HaveIsLevel
      <3>2. d \notin DOMAIN buckets'
        BY <1>2, <2>2, AskEffect
      <3>. QED
        BY <3>1, <3>2 DEF Level
    <2>. QED
      BY <2>1, <2>2
  <1>3. CASE Level(c) >= 1
    <2>1. Level(c)' = Capped((Level(c) - 1) + Rate * (now - now))
      BY <1>1, <1>3, AskEffect DEF Level, Available, Capped
    <2>2. Rate * (now - now) = 0
      BY <1>1
    <2>3. Level(c)' = Level(c) - 1
      BY <1>1, <1>3, <2>1, <2>2 DEF Capped
    <2>4. Levels' = [Levels EXCEPT ![c] = Levels[c] - 1]
      BY <1>2, <2>3 DEF Levels
    <2>. QED
      BY <1>1, <1>3, <2>4 DEF Ideal!Admit, Levels
  <1>4. CASE Level(c) < 1
    <2>1. Level(c)' = Level(c)
      BY <1>1, <1>4, AskEffect DEF Level, Available, Capped
    <2>2. Levels' = Levels
      BY <1>2, <2>1 DEF Levels
    <2>. QED
      BY <1>1, <1>4, <2>2 DEF Ideal!Reject, Levels
  <1>. QED
    BY <1>1, <1>3, <1>4

LEMMA StepIsIdeal ==
  LimiterInv /\ [LimiterNext]_<<now, limiterVars>> => [Ideal!BucketNext]_(Ideal!bucketVars)
  <1>1. LimiterInv /\ LimiterTick => Ideal!BucketNext
    BY TickIsFill DEF Ideal!BucketNext
  <1>2. ASSUME LimiterInv, NEW c \in Clients, Ask(c) PROVE Ideal!BucketNext
    BY <1>2, AskIsVerdict DEF Ideal!BucketNext
  <1>3. UNCHANGED <<now, limiterVars>> => UNCHANGED Ideal!bucketVars
    BY DEF limiterVars, Ideal!bucketVars, Levels, Level, Available, Capped
  <1>. QED
    BY <1>1, <1>2, <1>3 DEF LimiterNext

(* The limiter implements its promise: whatever the sweep did, a request is
   admitted exactly if the client's own bucket, kept for ever, held a token
   (limiterFor, Middleware, cleanup). *)
THEOREM LimiterImplementsBucket == LimiterSpec => LimiterIsIdeal
  BY InitIsIdeal, StepIsIdeal, LimiterInvHolds, PTL
    DEF LimiterSpec, LimiterIsIdeal, Ideal!BucketSpec

-----------------------------------------------------------------------------
(***************************************************************************)
(* The doors together.  Whichever a behaviour goes through, the key cache  *)
(* takes one of its steps or none, the sessions only move behind their     *)
(* own door, and the limiter sees no more of the others than the clock.    *)
(***************************************************************************)

(* Before the public look-up nobody looks for a key. *)
LookupIsKeyless == door = "lookup" => look = [r \in Requests |-> NoLookUp]

DoorInv == SessionInv /\ LimiterInv /\ LookupIsKeyless

(* Steps that leave the sessions alone, but what is left to change. *)
LEMMA SessionsStayAsTheyAre ==
  ASSUME SessionInv, KeyInv', now <= now', budget' \in 0 .. Budget,
         UNCHANGED <<accounts, lastSeen, alb, jar, req, ended>>
  PROVE SessionInv'
  <1>1. lastSeen' \in [Accounts -> -1 .. now']
    BY DEF SessionInv, SessionTypeOK, KeyTypeOK, KeyInv
  <1>2. SessionTypeOK'
    BY <1>1 DEF SessionInv, SessionTypeOK, KeyInv
  <1>3. RequestsAreFormed' /\ EndedAreEmpty'
    BY DEF SessionInv, RequestsAreFormed, EndedAreEmpty, At
  <1>. QED
    BY <1>2, <1>3 DEF SessionInv

(* The limiter stands still while time passes elsewhere. *)
LEMMA LimiterStandsStill ==
  ASSUME LimiterInv, now' \in Nat, now <= now', UNCHANGED limiterVars
  PROVE LimiterInv'
  BY DEF LimiterInv, LimiterTypeOK, Bucket, limiterVars

LEMMA TimeGoesOn ==
  ASSUME KeyInv, [KeyNext]_keyVars
  PROVE now' \in Nat /\ now <= now'
  <1>1. KeyInv'
    BY KeyInvStep
  <1>2. now' = now \/ now' = now + 1
    BY DEF KeyNext, Continue, Answer, FailFetch, Store, Reread, Forget, Look, Publish, Withdraw,
      RestartCache, PassTime, Tick, keyVars
  <1>. QED
    BY <1>1, <1>2 DEF KeyInv, KeyTypeOK

LEMMA DoorInvStep == DoorInv /\ [MCNext]_mcVars => DoorInv'
  <1>. SUFFICES ASSUME DoorInv, [MCNext]_mcVars PROVE DoorInv'
    OBVIOUS
  <1>1. CASE door = "lookup" /\ LimiterNext /\ UNCHANGED <<door, provider, keyCache, look, sessionVars>>
    <2>1. LimiterInv'
      BY <1>1, LimiterInvStep DEF DoorInv
    <2>2. LookupIsKeyless'
      BY <1>1 DEF DoorInv, LookupIsKeyless
    <2>i. \A r \in Requests : look[r].pc \notin Fetching
      BY <1>1 DEF DoorInv, LookupIsKeyless, NoLookUp, Fetching
    <2>t. LimiterTick => PassTime
      BY <1>1, <2>i DEF LimiterTick, PassTime
    <2>a. ASSUME NEW c \in Clients, Ask(c) PROVE UNCHANGED keyVars
      <3>1. now' = now
        BY <2>a DEF Ask
      <3>. QED
        BY <1>1, <3>1 DEF keyVars
    <2>3. PassTime \/ UNCHANGED keyVars
      BY <1>1, <2>t, <2>a DEF LimiterNext
    <2>4. KeyInv' /\ now <= now'
      BY <2>3, KeyInvStep, TimeGoesOn DEF DoorInv, SessionInv, KeyNext
    <2>. QED
      BY <1>1, <2>1, <2>2, <2>4, SessionsStayAsTheyAre
        DEF DoorInv, sessionVars, SessionInv, SessionTypeOK
  <1>2. CASE door = "keys" /\ KeyStep /\ UNCHANGED <<door, limiterVars>>
    <2>1. [KeyNext]_keyVars
      BY <1>2 DEF KeyStep, KeyNext, Background, Keys
    <2>2. KeyInv' /\ now <= now' /\ now' \in Nat
      BY <2>1, KeyInvStep, TimeGoesOn DEF DoorInv, SessionInv
    <2>3. budget' \in 0 .. Budget /\ UNCHANGED <<accounts, lastSeen, alb, jar, req, ended>>
      BY <1>2, SessionAssumption
        DEF KeyStep, Spend, sessionVars, DoorInv, SessionInv, SessionTypeOK
    <2>. QED
      BY <1>2, <2>2, <2>3, SessionsStayAsTheyAre, LimiterStandsStill
        DEF DoorInv, LookupIsKeyless
  <1>3. CASE door = "session" /\ Next /\ UNCHANGED <<door, limiterVars>>
    <2>1. SessionInv'
      BY <1>3, SessionInvStep DEF DoorInv
    <2>2. [KeyNext]_keyVars
      BY <1>3, SessionStepIsKeyStep DEF DoorInv, SessionInv
    <2>3. now <= now' /\ now' \in Nat
      BY <2>2, TimeGoesOn DEF DoorInv, SessionInv
    <2>. QED
      BY <1>3, <2>1, <2>3, LimiterStandsStill DEF DoorInv, LookupIsKeyless
  <1>4. CASE UNCHANGED mcVars
    <2>1. SessionInv'
      BY <1>4, SessionInvStep DEF DoorInv, mcVars
    <2>2. now <= now' /\ now' \in Nat
      BY <1>4 DEF mcVars, vars, keyVars, DoorInv, LimiterInv, LimiterTypeOK
    <2>. QED
      BY <1>4, <2>1, <2>2, LimiterStandsStill DEF DoorInv, LookupIsKeyless, mcVars, vars, keyVars
  <1>. QED
    BY <1>1, <1>2, <1>3, <1>4 DEF MCNext

LEMMA DoorInvInit == MCInit => DoorInv
  <1>1. Init => now = 0 /\ look = [r \in Requests |-> NoLookUp]
    BY DEF Init, KeyInit
  <1>. QED
    BY <1>1, SessionInvInit, LimiterInvInit DEF MCInit, DoorInv, LookupIsKeyless

(* Whichever door a behaviour takes: sessions, keys and buckets keep their
   types, no two accounts have one address, no fetch outlives its timeout and
   no bucket holds more than a burst or less than nothing. *)
THEOREM DoorTypesHold == MCSpec => []TypeOK
  <1>1. DoorInv => TypeOK
    BY DEF DoorInv, SessionInv, LimiterInv, TypeOK
  <1>. QED
    BY <1>1, DoorInvInit, DoorInvStep, PTL DEF MCSpec

=============================================================================
