------------------------------- MODULE MCAuth -------------------------------
(* The two doors of the API, which share nothing but the clock: the limiter
   before the public look-up, and the session behind the load balancer.  A
   behaviour goes through one of them. *)
EXTENDS AuthSession, RateLimiter, TLC

CONSTANTS r1, r2, b1, a1, a2, x, y, e1, e2, o1, c1, c2, c3

(* An Entra token built from the userinfo response, which carries neither
   tenant nor audience, one of Okta's, and one of another tenant. *)
EntraToken == [key |-> e1, address |-> x, iss |-> "entra", tid |-> "absent", aud |-> "absent"]
OtherToken == [key |-> e2, address |-> x, iss |-> "entra", tid |-> "theirs", aud |-> "absent"]
OktaToken == [key |-> o1, address |-> y, iss |-> "okta", tid |-> "absent", aud |-> "ours"]

MCRequests == {r1, r2}
MCBrowsers == {b1}
MCAccounts == {a1, a2}
MCDelegates == {a1}
MCAddresses == {x, y}
MCEntraKeys == {e1, e2}
MCOktaKeys == {o1}
MCTokens == {EntraToken, OtherToken, OktaToken}
MCTrusted == {"entra", "okta", "entra_tid", "entra_aud", "okta_aud"}
MCClients == {c1, c2, c3}

MCExpiries == {1}

VARIABLE door

mcVars == <<vars, limiterVars, door>>

MCInit ==
  /\ Init /\ LimiterInit
  /\ door \in {"lookup", "keys", "session"}
  /\ accounts[a1].address = x
  /\ MCOktaKeys \subseteq published
  /\ IF door = "keys" THEN Cold ELSE published = Keys /\ Warm

(* Look-ups of Entra's keys, by nobody in particular. *)
KeyStep ==
  \/ /\ Background \/ \E r \in Requests, k \in EntraKeys : Look(r, k)
     /\ UNCHANGED sessionVars
  \/ /\ Spend
     /\ RestartCache \/ \E k \in EntraKeys : Publish(k) \/ Withdraw(k)
     /\ UNCHANGED <<accounts, lastSeen, alb, jar, req, ended>>

MCNext ==
  /\ UNCHANGED door
  /\ \/ door = "lookup" /\ LimiterNext /\ UNCHANGED <<provider, keyCache, look, sessionVars>>
     \/ door = "keys" /\ KeyStep /\ UNCHANGED limiterVars
     \/ door = "session" /\ Next /\ UNCHANGED limiterVars
MCSpec == MCInit /\ [][MCNext]_mcVars

Bounded ==
  door = "session" => now <= 2 /\ {e2, o1} \subseteq published

Interchangeable == Permutations(MCRequests) \cup Permutations(MCClients)

TypeOK == SessionTypeOK /\ LimiterTypeOK
=============================================================================
