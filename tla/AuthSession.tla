---------------------------- MODULE AuthSession ----------------------------
(***************************************************************************)
(* Who a request is.  Behind the load balancer, which runs the OIDC        *)
(* handshake and forwards its token, SessionHandler verifies the token,    *)
(* resolves its address to an account, mints a session cookie and records  *)
(* the login.  Middleware takes a call's cookie or, without one, its       *)
(* token, reads the account anew and serves the call or refuses it.        *)
(* Logout expires the browser's cookies; nothing is kept of a session on   *)
(* the server.                                                             *)
(*                                                                         *)
(* Meanwhile administrators provision, rename, delete, restore and renew   *)
(* accounts, and the providers change their keys (KeyCache).  The          *)
(* configuration is a deployed one: HS256 tokens and the owner made up for *)
(* an unknown local developer do not exist there.                          *)
(***************************************************************************)
EXTENDS KeyCache, FiniteSets

CONSTANTS
  Browsers,         \* a browser with its jar, or an API client
  Accounts,         \* user ids
  Addresses, NoAddress,
  Tokens, NoToken,  \* [key, address, iss, tid, aud]
  Trusted,          \* the issuers and pins that are configured
  SessionTTL,       \* AUTH_SESSION_TTL
  Delegates,        \* the accounts that expire
  Expiries,         \* bound: the moments they may be given
  NoAccount, NoCookie,
  Budget            \* bound: changes by users, administrators and providers

Never == Horizon + 1

Cookie == [account : Accounts, address : Addresses, exp : Nat]

ASSUME TokensAssumption ==
  NoToken \notin Tokens /\ \A t \in Tokens : t.key \in Keys /\ t.address \in Addresses
ASSUME SessionAssumption ==
  /\ NoAddress \notin Addresses /\ NoCookie \notin Cookie
  /\ Expiries \subseteq Nat /\ SessionTTL \in Nat /\ Budget \in Nat

VARIABLES
  accounts,   \* users: [address, deleted, expires], the address being unique
  lastSeen,   \* per account, the moment of its newest login event
  alb,        \* per browser, the token of the load balancer's session
  jar,        \* per browser, its session cookie
  req,        \* the requests
  ended,      \* history, per browser: logged out, and since then neither a
              \* handshake nor the cookie of a login under way at the time
  budget

sessionVars == <<accounts, lastSeen, alb, jar, req, ended, budget>>
vars == <<keyVars, sessionVars>>

(* What a request brought and where it is; "late" is history: its browser had
   logged out before. *)
Request ==
  [pc : {"idle", "login", "record", "token", "cookie", "served"},
   browser : Browsers \cup {NoAccount}, token : Tokens \cup {NoToken},
   cookie : Cookie \cup {NoCookie}, account : Accounts \cup {NoAccount}, late : BOOLEAN]

Idle ==
  [pc |-> "idle", browser |-> NoAccount, token |-> NoToken,
   cookie |-> NoCookie, account |-> NoAccount, late |-> FALSE]

(* The types, and that no two accounts, the deleted ones included, have one
   address (email_unique_idx). *)
SessionTypeOK ==
  /\ KeyTypeOK
  /\ accounts \in [Accounts -> [address : Addresses \cup {NoAddress},
                                deleted : BOOLEAN, expires : Nat]]
  /\ \A a, b \in Accounts : a # b /\ accounts[a].address = accounts[b].address
       => accounts[a].address = NoAddress
  /\ lastSeen \in [Accounts -> -1 .. now]
  /\ alb \in [Browsers -> Tokens \cup {NoToken}]
  /\ jar \in [Browsers -> Cookie \cup {NoCookie}]
  /\ req \in [Requests -> Request]
  /\ ended \in [Browsers -> BOOLEAN]
  /\ budget \in 0 .. Budget

Account(address) == [address |-> address, deleted |-> FALSE, expires |-> Never]

Init ==
  /\ KeyInit
  /\ \E first \in Accounts, mine \in Addresses :
       accounts = [a \in Accounts |-> Account(IF a = first THEN mine ELSE NoAddress)]
  /\ lastSeen = [a \in Accounts |-> -1]
  /\ alb = [b \in Browsers |-> NoToken]
  /\ jar = [b \in Browsers |-> NoCookie]
  /\ req = [r \in Requests |-> Idle]
  /\ ended = [b \in Browsers |-> FALSE]
  /\ budget = Budget

-----------------------------------------------------------------------------
(* Tokens and accounts. *)

(* validateIssuerWith: Entra's tenant and audience count only if the token
   presents them; Okta's audience must be there if it is pinned. *)
Issued(t) ==
  \/ Trusted \cap {"entra", "okta"} = {}
  \/ /\ t.iss = "entra" /\ "entra" \in Trusted
     /\ "entra_tid" \in Trusted => t.tid \in {"ours", "absent"}
     /\ "entra_aud" \in Trusted => t.aud \in {"ours", "absent"}
  \/ /\ t.iss = "okta" /\ "okta" \in Trusted
     /\ "okta_aud" \in Trusted => t.aud = "ours"

(* decodeJWT has succeeded. *)
Verified(r) == look[r].pc = "accepted" /\ Issued(req[r].token)

(* Variant: deleted accounts do not count. *)
ActiveHoldersOf(address) ==
  {a \in Accounts : accounts[a].address = address /\ ~accounts[a].deleted}

(* FindUserByEmail, with IdentifierFromClaims. *)
HoldersOf(address) == {a \in Accounts : accounts[a].address = address}

IsExpired(a) == a \in Delegates /\ accounts[a].expires < now

At(r, label) == req[r].pc = label
Done(r) == req[r].pc \in {"idle", "served"} /\ Ended(r)
Begun(r, label, b, cookie, token) ==
  req' = [req EXCEPT ![r] =
    [pc |-> label, browser |-> b, token |-> token, cookie |-> cookie,
     account |-> NoAccount, late |-> ended[b]]]

-----------------------------------------------------------------------------
(* Login. *)

(* The load balancer forwards /login with the token of its own session. *)
Login(r, b) ==
  /\ Done(r) /\ alb[b] # NoToken
  /\ Look(r, alb[b].key)
  /\ Begun(r, "login", b, NoCookie, alb[b])
  /\ UNCHANGED <<accounts, lastSeen, alb, jar, ended, budget>>

(* SessionHandler finds the account and mints its session. *)
MintSession(r) ==
  /\ At(r, "login") /\ Verified(r)
  /\ \E a \in HoldersOf(req[r].token.address) :
       /\ ~accounts[a].deleted
       /\ req' = [req EXCEPT ![r].pc = "record", ![r].account = a,
            ![r].cookie = [account |-> a, address |-> accounts[a].address,
                           exp |-> now + SessionTTL]]
  /\ Forget(r)
  /\ UNCHANGED <<accounts, lastSeen, alb, jar, ended, budget>>

(* RecordLogin, which may fail, and the response, which may not arrive. *)
RecordLogin(r) ==
  /\ At(r, "record")
  /\ lastSeen' \in {lastSeen, [lastSeen EXCEPT ![req[r].account] = now]}
  /\ \/ UNCHANGED <<jar, ended>>
     \/ /\ jar' = [jar EXCEPT ![req[r].browser] = req[r].cookie]
        /\ ended' = [ended EXCEPT ![req[r].browser] = FALSE]
  /\ req' = [req EXCEPT ![r] = Idle]
  /\ UNCHANGED <<keyVars, accounts, alb, budget>>

-----------------------------------------------------------------------------
(* Calls. *)

(* claimsFromRequest: a cookie, if there is one, decides alone, and must not
   have expired; a call that changes something must not come from elsewhere,
   or it ends here.  Without a cookie the token is verified. *)
Call(r, b) ==
  /\ Done(r)
  /\ \/ /\ jar[b] # NoCookie /\ now < jar[b].exp
        /\ Begun(r, "cookie", b, jar[b], alb[b])
        /\ UNCHANGED keyVars
     \/ /\ jar[b] = NoCookie /\ alb[b] # NoToken
        /\ Begun(r, "token", b, NoCookie, alb[b])
        /\ Look(r, alb[b].key)
  /\ UNCHANGED <<accounts, lastSeen, alb, jar, ended, budget>>

(* Variant: the account is found by its address, from the cookie's claims. *)
ClaimedByAddress(r) ==
  HoldersOf(IF At(r, "cookie") THEN req[r].cookie.address ELSE req[r].token.address)

Claimed(r) ==
  IF At(r, "cookie") THEN {req[r].cookie.account} ELSE HoldersOf(req[r].token.address)

(* Variant: a session is taken as it was when it began. *)
UsableAtLogin(r, a) ==
  ~IsExpired(a) /\ (At(r, "token") => ~accounts[a].deleted)

Usable(r, a) == ~accounts[a].deleted /\ ~IsExpired(a)

(* Middleware reads the account, judges it and hands the call on. *)
Serve(r) ==
  /\ At(r, "cookie") \/ (At(r, "token") /\ Verified(r))
  /\ \E a \in Claimed(r) :
       /\ Usable(r, a)
       /\ req' = [req EXCEPT ![r].pc = "served", ![r].account = a]
  /\ Forget(r)
  /\ UNCHANGED <<accounts, lastSeen, alb, jar, ended, budget>>

(* A login or a call is refused, fails or is cut off, or a served one ends. *)
End(r) ==
  /\ ~At(r, "idle") /\ Forget(r)
  /\ req' = [req EXCEPT ![r] = Idle]
  /\ UNCHANGED <<accounts, lastSeen, alb, jar, ended, budget>>

-----------------------------------------------------------------------------
(* Browsers, administrators and providers. *)

Spend == budget > 0 /\ budget' = budget - 1

(* The load balancer's handshake with the identity provider. *)
Handshake(b, t) ==
  /\ Spend
  /\ t.key \in published
  /\ alb' = [alb EXCEPT ![b] = t]
  /\ ended' = [ended EXCEPT ![b] = FALSE]
  /\ UNCHANGED <<keyVars, accounts, lastSeen, jar, req>>

(* Variant: the load balancer's cookies are forgotten. *)
ClearedJarOnly(b) == jar' = [jar EXCEPT ![b] = NoCookie] /\ UNCHANGED alb

(* ClearSessionCookie and ClearALBSessionCookies. *)
Cleared(b) ==
  jar' = [jar EXCEPT ![b] = NoCookie] /\ alb' = [alb EXCEPT ![b] = NoToken]

(* LogoutHandler.  A login that is under way may still bring a cookie. *)
Logout(b) ==
  /\ Spend
  /\ Cleared(b)
  /\ ended' = [ended EXCEPT ![b] = TRUE]
  /\ UNCHANGED <<keyVars, accounts, lastSeen, req>>

(* The browser drops a cookie past its Max-Age. *)
DropCookie(b) ==
  /\ jar[b] # NoCookie /\ jar[b].exp <= now
  /\ jar' = [jar EXCEPT ![b] = NoCookie]
  /\ UNCHANGED <<keyVars, accounts, lastSeen, alb, req, ended, budget>>

(* User.Save: an account is provisioned, or its address changed to one that
   nobody has, not even a deleted account. *)
Save(a, address) ==
  /\ Spend
  /\ HoldersOf(address) = {}
  /\ accounts' = [accounts EXCEPT ![a].address = address]
  /\ UNCHANGED <<keyVars, lastSeen, alb, jar, req, ended>>

(* SetDelegateExpiry, to a moment that has not passed. *)
Renew(a, moment) ==
  /\ Spend
  /\ a \in Delegates /\ now <= moment
  /\ accounts' = [accounts EXCEPT ![a].expires = moment]
  /\ UNCHANGED <<keyVars, lastSeen, alb, jar, req, ended>>

(* DeleteUser and RestoreUser. *)
Delete(a) ==
  /\ Spend
  /\ accounts[a].address # NoAddress
  /\ accounts' = [accounts EXCEPT ![a].deleted = TRUE]
  /\ UNCHANGED <<keyVars, lastSeen, alb, jar, req, ended>>

Restore(a) ==
  /\ Spend
  /\ accounts[a].deleted
  /\ accounts' = [accounts EXCEPT ![a].deleted = FALSE]
  /\ UNCHANGED <<keyVars, lastSeen, alb, jar, req, ended>>

(* The task is replaced: its requests are cut off, its caches empty. *)
Restart ==
  /\ Spend
  /\ RestartCache
  /\ req' = [r \in Requests |-> Idle]
  /\ UNCHANGED <<accounts, lastSeen, alb, jar, ended>>

(* The providers' keys change, a request's fetch goes on, time passes. *)
ChangeKeys ==
  /\ Spend
  /\ \E k \in Keys : Publish(k) \/ Withdraw(k)
  /\ UNCHANGED <<accounts, lastSeen, alb, jar, req, ended>>

Background == \/ (\E r \in Requests : Continue(r)) \/ PassTime
SessionStep(r) ==
  \/ \E b \in Browsers : Login(r, b) \/ Call(r, b)
  \/ MintSession(r) \/ RecordLogin(r) \/ Serve(r) \/ End(r)

Next ==
  \/ \E r \in Requests : SessionStep(r)
  \/ \E b \in Browsers : Logout(b) \/ DropCookie(b) \/ \E t \in Tokens : Handshake(b, t)
  \/ \E a \in Accounts :
       \/ Delete(a) \/ Restore(a)
       \/ \E address \in Addresses : Save(a, address)
       \/ \E moment \in Expiries : Renew(a, moment)
  \/ Restart \/ ChangeKeys
  \/ Background /\ UNCHANGED sessionVars

Spec == Init /\ [][Next]_vars

-----------------------------------------------------------------------------
(* Properties. *)

(* A call is served as whoever signed in: with a cookie, the account that the
   login found, although its address may have passed to another account since
   and the call may carry a token as well;
   with a token, the account that has its address now.  Nobody is served on an
   expired grant or on a token of another issuer, tenant or audience
   (claimsFromRequest, Middleware, MintSession). *)
ServedAsPresented ==
  [][\A r \in Requests : (req'[r].pc = "served" /\ ~At(r, "served")) =>
       LET a == req'[r].account IN
       /\ ~IsExpired(a)
       /\ IF req[r].cookie # NoCookie
          THEN a = req[r].cookie.account
          ELSE accounts[a].address = req[r].token.address /\ Issued(req[r].token)]_vars

(* From its deletion to its restoration an account gets nobody in, whatever
   login of it was under way: neither the cookies it has, one minted too late
   among them, nor its address.  A call handed on before ends as it may, and
   the last sign-in is only moved by a login that had read the account. *)
DeletedStayOut ==
  \A a \in Accounts : accounts[a].deleted =>
    /\ \A r \in Requests :
         req'[r].pc \in {"served", "record"} /\ req'[r].account = a => req'[r] = req[r]
    /\ lastSeen'[a] = lastSeen[a] \/ \E r \in Requests : At(r, "record") /\ req[r].account = a

(* A browser that has logged out is let in only after another handshake with
   the identity provider, or with the cookie of a login that the logout found
   under way; no other request of that moment brings it anything. *)
LoggedOutStayOut ==
  \A r \in Requests : req'[r].late => req'[r].pc \notin {"served", "record"}

(* Sessions end, although nothing is kept of them on the server and cookies,
   tokens and logins under way outlive a deletion and a logout (DeleteUser,
   SessionHandler, Middleware; LogoutHandler, ClearALBSessionCookies). *)
SessionsEnd == [][DeletedStayOut /\ LoggedOutStayOut]_vars
=============================================================================
