# ZTMF: models of the scoring service

ZTMF is the Zero Trust maturity scoring tool of CMS and HHS: a Go API (`src/backend/cmd/api`) over one PostgreSQL
database, and two scheduled Lambdas that rotate credentials. Users answer a questionnaire per FISMA system and *data
call* (a cycle with a deadline); administrators open data calls, which roll the answers of the previous cycle forward.

This directory holds TLA+ models of the service, TLC configurations that check them on small instances, and TLAPS
proofs of their safety properties for every instance. `PROJECT.json` maps each definition to the lines it models, lists the
runs, the hazards with the properties that watch them, the findings and the theorems.

    tlc -workers 2 -config answers.cfg MCAnswers             # one run
    tlapm ScoreReviewProofs.tla                              # the proofs of one module

## Inventory

| Part | State it keeps | Operations | Interacts with | Model |
|---|---|---|---|---|
| Questionnaire write path (`model/scores.go`, `controller/scores.go`, `model/model.go`) | `scores`, `events` | POST, PUT, confirm | authentication (a snapshot of the user), data calls (deadline), the pool | `ScoreReview`, `ReviewContract`, proofs in `ScoreReviewProofs` |
| Data call rollover (`model/datacalls.go`, `model/scores.go`) | `datacalls`, `scores` | POST, PUT of a data call; the copy and its FY26 override | the write path, while it runs | `Rollover`, proofs in `RolloverProofs` |
| Database pool and credentials (`internal/db/conn.go`, `model/model.go`, `internal/secrets`, `config.go`) | connections, the cached secret with its date and mutex | `Conn`, `query`, `queryRow`, `Value`, `Refresh` | every operation; RDS password rotation | `ConnPool`, proofs in `ConnPoolProofs` |
| Users, grants, assignments, delegates (`model/users*.go`, `controller/users*.go`, `controller/delegates.go`) | `users`, `users_opdivs`, `users_fismasystems` | CRUD under role tiers, derivation of the identity provider, expiry | authentication, the write path | `AccessControl`, proofs in `AdministrationProofs` |
| Scoring (`FindScoresAggregate`, `scoreprogress.go`, `scorediff.go`, `answers.go`, `pillarscope.go`) | none | queries and arithmetic | every write of `scores`, of systems and of deadlines | `Scoring`, proofs in `ScoringProofs` |
| System lifecycle, data call completion (`fismasystems.go`, `datacallsfismasystems.go`) | `fismasystems`, `datacalls_fismasystems` | save, decommission, reactivate, target maturity, mark complete | scoring, rollover | `SystemLifecycle`, proofs in `AdministrationProofs` |
| Certificate rotation Lambda (`lambda-cert-rotation`) | S3 objects, ACM, one secret | validate, import, back up, archive | Slack, Lambda's retries | `CertRotation`, proofs in `CertRotationProofs` |
| Kion key rotation Lambda (`lambda-kion-key-rotate`) | one secret | read, exchange, write, notify | Kion, Secrets Manager, Slack | `KionKeyRotate`, proofs in `KionKeyRotateProofs` |
| Authentication (`cmd/api/internal/auth`, `events.go` for the login) | the key caches of two providers, the browsers' cookies, the buckets of the rate limiter | login, token verification, session, logout, limiter and sweep | every request; the providers, the load balancer | `KeyCache`, `AuthSession`, `RateLimiter`, `TokenBucket`, proofs in `AuthProofs` |
| Mass e-mail (`massemails.go`, `mail.go`) | `massemails`, one row | save, list the recipients, send in the background | `users`, `fismasystems`; SMTP | `MassEmail`, proofs in `AdministrationProofs` |
| Audit events (`events.go`) | `events` | `recordEvent`, `RecordLogin`, a paged query | every write | in `ScoreReview`, `ConnPool` and `AuthSession`; the query is not modelled |
| Migrations, reference data, spreadsheet, router, notifications | tables | single statements, layout, wiring | | not modelled |

What makes the parts correct, in a sentence each. *Write path*: an answer affirmed is the answer seen, nobody is
credited with another's write, and the stored row decides who may write. *Rollover*: answers flow forward once,
unreviewed, and no more of them are dropped in silence than are added between the count and the copy. *Pool*: a
rotation is absorbed and the pool never blocks itself.
*Access*: authority is handed on and never made; delegates and nobody else lapse; an assignment stays within grants.
*Scoring*: the views of a cycle tell the same story and follow the answers. *Lifecycle*: what a scoped admin may not
set he does not set; a decommissioning is undone once. *Certificate*: only what was uploaded together is used, and
nothing is deleted that was not imported, save an upload that overtakes the archival. *Kion*: the live key is stored, in
memory or posted, unless Kion's answer is lost, the invocation is cut off or its alert fails. *Authentication*: a
genuine key is accepted, a call is served as whoever signed in, sessions end, and the limiter's sweep changes no
verdict. *Mass e-mail*: a message goes to the group its request named, and to nobody twice.

What is hard to test: no handler uses a transaction around its statements (two exceptions, in `users_opdivs` and
`fismasystems`), so every request interleaves with every other between any two statements; a request may be cut off
between them; audit events are written after, and apart from, what they describe; the rollover runs on after its data
call has been committed; every write holds two pooled connections for a moment; and the Lambdas are delivered at least
once, overlap, and stop between two external effects that cannot be undone.

## How the models are built

- One SQL statement, or one transaction, is one action: PostgreSQL makes a statement atomic, and the code puts nothing
  around it. A handler is a sequence of labels (`pc`), and requests interleave between any two of them.
- A call to AWS, Kion or Slack is one action with its possible outcomes. A step that may fail is listed in the
  constant `Faults` of its module, so that a configuration says what it lets fail.
- A person, a text, a name or an option is a model value; times and deadlines are small numbers.
- A history variable (named as such in every module) is read by properties only, never by a guard.
- A definition whose comment begins with *Variant* is the definition below it with one plausible mistake in it. No
  action uses a variant: with it in the place of the original, TLC finds the property violated that `PROJECT.json`
  names beside it, so every property is known to depend on the code it is about.
- An `MC...` module gives a module's constants their values; a `.cfg` chooses among them. Requests and other identities
  of no consequence are symmetric; symmetry is used in runs of safety properties only.
- An `MC...` module that composes components whose state is disjoint has one variable, `door` (`part`, `lambda`): a
  behaviour enters by one of them and stays there, and the variables of the others keep their initial values. The
  components' states add up and do not multiply.
- The helpers come from the community modules; no module has a recursive operator.

| Configuration | Module | Composes |
|---|---|---|
| `answers` | `MCAnswers` extends `MCScoreReview` and `MCRollover` | `ScoreReview` with its `INSTANCE ReviewContract`, the refinement, and `Rollover` |
| `rollover_empty`, `rollover_partial` | `MCRollover` | `Rollover` |
| `pool` | `MCPoolAndScores` extends `MCConnPool` and `MCScoring` | `ConnPool` and `Scoring` |
| `pool_exhausted` | `MCConnPool` | `ConnPool` |
| `scoring_scope` | `MCScoring` | `Scoring` |
| `auth` | `MCAuth` extends `AuthSession`, `RateLimiter` | `AuthSession` extends `KeyCache`; `RateLimiter` has `INSTANCE TokenBucket`, the refinement; both are on one `Clock` |
| `admin`, `mail_groups` | `MCAdministration` extends `AccessControl`, `SystemLifecycle`, `MassEmail` | |
| `lambdas` | `MCLambdas` extends `MCCertRotation` and `MCKionKeyRotate` | `CertRotation` and `KionKeyRotate` |
| `cert_race` | `MCCertRotation` | `CertRotation` |
| `kion_margin` | `MCKionKeyRotate` | `KionKeyRotate` |

Components meet through what one sees of another: `ScoreReview` sees grants and deadlines as moving parts that
`AccessControl` and `Rollover` model, `Rollover` sees users' answers and confirms as single writes, which is what
`ReviewContract` says they are, and `ConnPool` sees statements and their events.

## The modules

### ReviewContract and ScoreReview: the questionnaire's write path

`ReviewContract` is what the three write endpoints promise: every request has at most one effect, atomic, and it is the
one asked for (`Answer` inserts a reviewed answer, `Edit` replaces one, `Affirm` reviews one nobody has touched).

`ScoreReview` is what the code does. `rows` is the `scores` table, `recorded` and `newest` the `events` table, `pc`,
`body`, `snap`, `loaded`, `mine` and `ack` a request's position, input, authenticated snapshot, loaded row, write and
response; `ledger` and `openSeen` are history.

| Action | Code |
|---|---|
| `Begin` | the middleware's snapshot of the user and of the user's systems |
| `Load` | `findScoreByID`, `guardScoreWrite` on the stored row, or on the body of a POST |
| `Check` | `validateDeadline`, `validateNotes` |
| `Insert`, `SkipSave`, `UpdateSave` | `Score.Save`, with `scoresEqualForUpdate` |
| `SkipConfirm`, `UpdateConfirm`, `Reload` | `Score.Confirm`: the early return, the conditional UPDATE, the loser's reload |
| `RecordEvent`, `Stamp` | `recordEvent` in `queryRow`, `lookupScoreAudit` |
| `Abort` | a cancelled context, a statement that fails, a stopped task |
| `Close`, `Reopen`, `Regrant` | the deadline and the grants, moved by others |

### Rollover: opening a data call

`calls` and `scores` are the tables, `alarms` the data calls for which `ROLLOVER_ANOMALY` was logged. `Post` inserts the
data call; from then on the request goes through `Sources`, `Gate3`, `Override`, `Diagnose` (the FY26 override keyed by
OpDiv) or falls through to `FindPrevious`, `Count`, `Copy`. `Crash` cuts it off anywhere. `Put` edits a data call,
`Answer` and `Confirm` are users' writes. A row's `origin` names the row it was carried from, `remarks` the data calls
for which a failed diagnostics query was logged without the token; `late` is history, the answers that arrive in a
request's source between its count and its copy.

### ConnPool: the pool, the secret and the rotated password

`owner` says who has each of the pool's slots; a caller goes `Call`, `TakeIdle` or `Construct`, `Connect`,
`Authenticate`, `Query`, and for a write through the same labels once more for its audit event, *before* it releases the
first connection (`model.go:94`). `cached` is the version of the secret this process has, `mutex` is `Secret.mu` and
`fetched` what its holder got from `GetSecretValue`: `Connect` is `BeforeConnect` with `Value`, which uses the cached
version or finds it overdue; `Refresh` is `Conn`'s single retry, `RefreshDbCreds`; `Replace` is the assignment after
`DescribeSecret`, for either. Whether a read finds the date overdue is left open, which covers both signs of the 23-hour
offset. `RotatePassword` and `PublishSecret` are RDS's two steps, `Recycle` and `Open` the pool's own life cycle and
`Fail` an error that is no authentication error. `calm` is history.

### Clock, KeyCache and AuthSession: who a request is

`KeyCache` is `token.go`: `entra` and `lastRefresh` are `entraKeys` and `entraLastRefresh`, `okta` is `keys`, `look` a
request's look-up. `published` and `since` are the providers' keys, and when they were published. `Look` reads the cache
under its lock and accepts, refuses (an unknown Entra key within the throttling interval) or fetches; `Answer` and
`FailFetch` are the provider's reply, without the lock; `Store` replaces Entra's keys or adds one of Okta's; `Reread` is
the second read of `entraKey`. `PassTime` keeps a fetch within the client's timeout. A key is *genuine* once it has been
published for `Lead`, an interval and a timeout.

`AuthSession` extends it with `accounts`, the browsers' cookies (`jar`), the load balancer's sessions (`alb`) and the
requests.

| Action | Code |
|---|---|
| `Login`, `MintSession`, `RecordLogin` | `SessionHandler` behind the load balancer: verify, find the account, mint; record the event, which may fail, and respond |
| `Call`, `Serve`, `End` | `claimsFromRequest` (a cookie alone decides; else the token), `Middleware`'s read of the account and its checks, refusals |
| `Logout`, `DropCookie` | `LogoutHandler` with `ClearSessionCookie` and `ClearALBSessionCookies`; `Max-Age` |
| `Save`, `Renew`, `Delete`, `Restore` | accounts change meanwhile |
| `Handshake`, `ChangeKeys`, `Restart` | the load balancer's OIDC, the providers' rotations, a new task |

`ended` and the `late` of a request are history: a browser has logged out, and since then neither signed in again nor
received the cookie of a login that the logout found under way; the request was made then.

### TokenBucket and RateLimiter

`TokenBucket` is the promise: an everlasting bucket per client. `RateLimiter` is the code: `buckets` is a map of which
`Ask` (`limiterFor`, then `Allow`) sweeps what is older than the TTL, at most once per TTL (`lastCleanup`). A client
without a bucket has a full one; `LimiterIsIdeal` says that this makes no difference, with `Levels` as the mapping.

### AccessControl: who administers whom

`users`, `grants` (`users_opdivs`) and `assigned` (`users_fismasystems`) are the tables. A request of one of twelve
kinds is authenticated (`Authenticate`, a snapshot of the actor), judged (`Guard`, a snapshot of the target and the
handler's conditions in `Passes`) and then written by the statement of its kind (`Create`, `Update`, `Delete`,
`Restore`, `Grant`, `Revoke`, `Diff` and `SetUserOpDivs`, `Assign`, `Unassign`, `AddSystemDelegate`,
`RemoveSystemDelegate`, `RenewSystemDelegate`), followed by `Derive`, the statement that computes the identity provider
from the grants. `Candidates` and `AssignableSystems` are the two pickers; the second leaves out the decommissioned
systems, the constant `OutOfUse`, and the guard of an assignment does not. `Tick` passes a day, `Fail` a statement.

### Scoring: the views of a data call

The tables are `env` (a system's data centre environment, and so its edition of the questionnaire), `off`,
`deadline`, `scores` and `assigned`; the actions are the writes that move them (`Post`, `Put`, `Confirm`,
`SetEnvironment`, `Decommission`, `Reactivate`, `MoveDeadline`, `Unassign`), each the effect of a request. The views are
operators over them, one per query:

| Operator | Code |
|---|---|
| `Asked`, `InScope`, `Key` | the questionnaire of a system in a data call, `pillarscope.go` |
| `Progress` with `Answered` and `Updated` | `FindScoreProgress`, `buildScoreProgressSQL` |
| `Export` | `FindAnswers` (its spreadsheet layout is left out) |
| `Aggregate` with `Items`, `PillarScores`, `SystemScore`, `Tier` | `FindScoresAggregate`, `buildPillarScoresSQL` |
| `Diff` with `Joined` | `FindScoreDiff`, `buildScoreDiffSQL` |
| `Visible`, `Aggregated` | `ListScores`' and `GetScoresAggregate`'s tier scoping |

Averages are exact fractions, where PostgreSQL has `float8`. A sum is counted and not folded: `Total` is the number of
units in a set of labelled naturals, `Product`, which gives the fractions of an average their common denominator, the
number of ways to pick one unit of each. That makes what the averages say provable without induction.

### SystemLifecycle: FISMA systems and completion

`rows` is `fismasystems`, with one column for each kind of column the code treats alike; `complete` is
`datacalls_fismasystems`. A request is taken in (`Ask...`, the role gates), read and patched (`GuardManage`, with
`Preserve`: the attributes that only unscoped admins set, and the refusal of a save of which the stored ones break the
rule across fields, whether the request carries them or not), and written (`Insert`, `UpdateSystem`,
`Decommission`, `SetTarget`, `Complete`). Reactivation alone is a transaction: `Lock` is its SELECT ... FOR UPDATE, `Reactivate` its
UPDATE and commit, and `Unlocked` guards everybody else's UPDATE of that row meanwhile.

### MassEmail: messages to a group

`directory` holds the columns in which recipients are found, `massemails` the group in the one row, `send` the requests
and, after they have answered, their goroutines. `Submit` is `SaveMassEmail` up to the validation, `SaveRow` the UPDATE,
`ListRecipients` the query of the group with `dedupeRecipients` (`Deduped`: one spelling of every address), `Dial`,
`Mail` and `Quit` are `Send`, which logs a failure and goes on. `Reassign` is everybody else's writes to `users` and
`fismasystems`, `ReplaceTask` a deployment. `addressed` and `mailed` are history.

### CertRotation: certificates

`source` is the three objects at the prefix, with the upload they came from, `archive` what was copied to `processed/`,
`acm` the files of the certificate in use, `backup` the versions of the backup secret, `events` what S3 and Lambda still
deliver. An invocation goes `Start`, `LookAt` (three HEADs), `Check` (completeness, freshness window), `Read` (three
GETs), `Import` (with `Valid`), `Backup`, `Copy` and `Delete` (three each), `Conclude`. `Fail` is a failing call,
`Crash` a stopped invocation; after either, the event is tried again. `Upload` and `Clear` are the operator, who waits
for the outcome of every upload (`patient`) or does not. `overtaken` is history: what was uploaded between an
invocation's read of that file and its delete (`Holds`).

### KionKeyRotate: the Kion key

`live` is the key Kion accepts, `current` and `versions` the secret, `alerted` the keys posted to Slack. An invocation
goes `Invoke` (read), `Decide` (`Due`), then `Exchange`, `KionUnavailable`, `LoseAnswer` or `Reject`, then `Put` or
`PutFails` (which may have written and failed in the read-back), and in the end `Alert`. `CutShort` is an invocation
that is stopped. `Restore` is the runbook, `ClockTicks` the clock; the scheduled invocation starts in the first hour of its day.

## The runs

All runs are exhaustive within their bounds. `violation` runs check one sentence of a comment or a test that the code
does not live up to (see *Findings*).

| Run | What it asks | Bounds, and why they are enough |
|---|---|---|
| `answers` | The questionnaire: is anything re-attributed, affirmed unseen or answered falsely, is every write authorised on the stored row, and do the endpoints implement `ReviewContract`? (`ConfirmAffirmsWhatWasSeen`, `AuthorisedOnTheStoredRow`, `RepliesAreTrue`, `Contract`) The rollover: do answers flow forward, once, unreviewed, from the right lineage, and how much may be lost in silence? (`AnswersFlowForward`, `OverrideKeepsLineages`, `SilentLossIsBounded`) | Questionnaire: either three saves and confirms of one carried-forward row by two users, cut off anywhere: the conflicts are pairwise, and the third request is there for the loser's reload after a winner that another one overtook. Or two requests of four role tiers, two systems, two cycles, two rows, so that a body can name the other one of each, with one grant and one deadline that move. The constraint `Bounded` of `MCScoreReview` keeps the two apart. Rollover: two creators at once over the two 2025 lineages with duplicates, a system answered in both and options that resolve to nothing; one new cycle, a second one of the year and two for the past; one correction of a deadline; late answers up to nine rows; every statement may fail. Two creators suffice for each order of two copies; the tables hold each anomaly the SQL handles once. The theorems cover the rest. |
| `rollover_empty` (violation) | Is an empty cycle always detected? | Two creators, one lineage, one answer. |
| `rollover_partial` (violation) | Is a partial copy always surfaced? | One creator, one lineage, two answers of which one resolves to nothing, a user who answers; nothing fails. |
| `pool` | The pool: does a rotation reach a caller, does the pool block itself, does every call return? (`RotationIsPickedUp`, `NotExhausted`, `EveryCallReturns`) The scores: do the five views agree, does the diff tell all, do scores follow answers? (`ViewsAgree`, `ScoresFollowAnswers`) | Pool: one writer and one reader on two connections, two rotations: the second one finds a stale cache again. Both may refresh the secret at once. Scores: two systems, two data calls, five functions of two pillars in two editions (one without its question), an environment of either edition and a retired one, one rule that takes a pillar out of scope from the second data call on; three writes from three tables. A disagreement needs an answer and one thing that moves from under it; three writes allow two such things to combine. |
| `pool_exhausted` (violation) | The same with as many writers as connections. | Two writers, two connections, no rotation. |
| `auth` | Is a genuine key accepted, are calls served as whoever signed in, do sessions end, is the limiter's sweep invisible? (`GenuineKeyIsAccepted`, `ServedAsPresented`, `SessionsEnd`, `IdleBucketsLeave`, `LimiterIsIdeal`) | Three doors. Keys: two requests look up two Entra keys, interval 2 and timeout 1 over six moments, from a cold cache with any keys published; three changes of keys or restarts, so that a document can be overtaken by another and both be outdated. Sessions: two requests of one browser, two accounts and addresses, tokens of Entra, of Okta and of another tenant, a delegate's grant and a cookie that expire, three changes by users, administrators or providers, over three moments (the constraint `Bounded`); a wrong admission takes a session, a change and a call. Limiter: three clients, a burst of 2 and a TTL of 2, over six moments, so that buckets are swept between two of a client's requests, and refill. |
| `admin` | Do only delegates lapse, do assignments and providers follow grants, do pickers match guards, is authority only handed on, do attributes come from unscoped admins, is a reactivation decided once, does a message reach its group? (`DelegatesExpire`, `StrayAssignmentNeedsARevocation`, `ProviderFollowsGrants`, `PickersMatchTheGuards`, `AuthorityIsHandedOn`; `AttributesComeFromUnscopedAdmins`, `ReactivatedOnce`; `MailReachesItsGroupOnce`) | Three doors, two overlapping requests each: one kind of request reads what another writes, so each stale read needs two. Accounts: requests of every kind by and on four people (an HHS or OpDiv admin, an ISSO, a delegate of two divisions, one without an account), two divisions with a system each, one of them decommissioned, a date that passes, derivations that fail. Systems: requests of any kind on one system, and the creation of a second, by six people of every tier, from three tables. Messages: five groups and one that does not exist, an address in two spellings, a column without an address and an undeliverable one, members that change, a task that is replaced. |
| `mail_groups` (violation) | Can every group be mailed? | The same. |
| `scoring_scope` (violation) | Does the aggregate keep to the reader's scope? | The same as of the scores in `pool`. |
| `lambdas` | Certificates: is only what was uploaded together imported, is nothing deleted that was not (but what overtakes an invocation), is success backed up, is no upload swallowed? (`ImportedTogether`, `NothingElseIsLost`, `NoBundleIsSwallowed`) Kion: is the live key held, does the secret move forward, is the window kept, is one bad day survived? (`LiveKeyHasAHolder`, `SecretMovesForward`, `WindowIsKept`, `OneBadDayIsSurvived`) | Certificates: four uploads, one bundle and one more file, of one's own certificate and a foreign one, window 1 of 2 hours; two overlapping invocations; the backup, copies and deletes may fail, invocations may stop anywhere and are tried again once. The operator who waits has events delivered twice; the one who does not uploads within one hour and has each event delivered once (the constraint `Hurried`), since the races he adds need neither. Kion: the code's own threshold 4, lifetime 7 and three tries at Kion; two tries at the store in the place of five (a first, and one that follows a failure that wrote or did not); half-day ticks over eight days, so that a key is rotated and the next threshold is reached; a daily invocation and an operator's that overlaps, may be forced or dry; at most two rotations, and everything may fail. |
| `cert_race` (violation) | Is what is archived and deleted always what was imported? | One invocation, four uploads, an operator who does not wait; nothing fails. |
| `kion_margin` (violation) | Does the threshold leave a margin of three days? | The daily invocation alone over eight days, by the hour; nothing fails. |

CHECK_DEADLOCK is off where the requests, uploads, writes, changes or ticks are finite in number; each such configuration
says so. `pool` and `pool_exhausted` check for deadlock (in `pool` the last of the three writes of scores is followed by
a stutter, which is the bound's and no deadlock).

### Fairness

Only the pool has a liveness property. `Fairness` assumes strong fairness of `Advance(c)`, the next step of each caller
of its own: a statement, a connection attempt or a read of the secret ends, with or without success (they have their
deadlines); pgxpool hands a released connection to its waiters in order, and Go's mutex serves a waiter that starves, so
a caller for which a connection or the mutex is available again and again gets it. Nothing is assumed of rotations, of
the pool's recycling, of callers' wish to call, or of failures. Every other module is a safety specification.

## Findings

1. `rollover_empty`: `copyPreviousScores` says that an empty cycle is detected rather than shipped silently
   (`scores.go:1280-1283`). The INSERT of a data call commits before its copy, so a second data call created meanwhile
   has the first one, still empty, as its previous cycle: it expects nothing, copies nothing and logs no anomaly.
2. `rollover_partial`: the same comment says that "a zero, partial, or errored copy is surfaced loudly". The count and
   the copy are separate statements: an answer added in between makes up, in number, for one that is dropped because its
   option no longer resolves (`scores.go:1323`), and the partial copy is silent. `SilentLossIsBounded` says how much can
   be lost so. A failed diagnostics query after an override is logged, but without the anomaly token
   (`scores.go:1230-1233`), which is not what the comment says either.
3. `pool_exhausted`: the comment at `model.go:48-50` says that the deferred Release keeps the pool from being exhausted
   under concurrency. A write holds its connection while the audit event acquires another (`model.go:94`); as many
   concurrent writers as connections wait for each other for ever.
4. `scoring_scope`: a reader of the assigned tier with no assigned system gets the aggregates of every system
   (`controller/scores.go:322`, `model/scores.go:834`), where `emberfall_tests.yml:2840-2842` and the comment "Same tier
   scoping as ListScores" say empty.
5. `mail_groups`: `massemails.go:176-177` says of the delegates that "admins need a way to reach the cohort directly and
   via ALL". The name of their group, `SYSTEM_DELEGATE`, does not fit `massemails."group"`, a `varchar(5)`
   (`migrations/0011massemailsgroup.go:7`), so the UPDATE fails and the request is answered with 500. The integration
   test calls `Recipients` without `Save`.
6. `cert_race`: the Lambda's README (`:22`) promises "No concurrent races on validation, ACM import, Secrets Manager
   backup, or archival". Copies and deletes go by name (`main.go:268-272`): a file uploaded after an invocation has read
   the last one is archived and deleted without having been imported, and its own invocation finds the bundle incomplete
   and says nothing. `NothingElseIsLost` says that this is the only way.
7. `kion_margin`: the Lambda's README (`:3`) says that "a 4-day window leaves a 3-day recovery margin". `rotated_at` is
   taken after the exchange and whole days are truncated (`rotate.go:292`), so the fourth daily invocation still finds
   the key too young: the first attempt is on day five, with two days left. `OneBadDayIsSurvived` says what these are
   enough for.

Observations at odds with a sentence of the repository, for which there is no run:

- *Pool*. The comment at `secrets.go:46-48` wants the stale window widened, since a rotation may come hours before its
  date; the offset has the opposite sign (`secrets.go:49`), so an overdue secret is served 23 hours longer. The retry
  makes up for it, as `RotationIsPickedUp` shows for either sign.
- *Access*. The assignment picker "should never offer a system the caller could not actually assign", says a comment
  (`controller/usersfismasystems.go:90-92`). It looks at divisions only: for a user whom the tier ceiling puts out of the
  caller's reach it offers systems that the assignment then refuses (`PickersMatchTheGuards` is about users whom the
  caller manages).
- *Lifecycle*. The stored attributes a scoped edit writes back were read before its UPDATE, so an unscoped admin's
  change in between is reverted; the comment at `model/fismasystems.go:392-396` calls the write-back a no-op. The value
  is one that an unscoped admin once asked for, so that `AttributesComeFromUnscopedAdmins` admits it.

Observations that contradict no sentence:

- *Write path*. Two writes may record their events in the opposite order, so that `last_edited_by` may describe an
  answer that was overwritten (`scores.go:607-618`); the editor in a response may be another request's
  (`scores.go:223-226`). Nothing keeps two creates from answering one question twice (`scores.go:185`).
- *Mass e-mail*. Deleted accounts are still mailed. A recipient the relay rejects leaves its SMTP transaction open, and
  the relay may refuse the recipients after it; a deployment loses whom the goroutine had not reached. The response lists
  the recipients before anybody has been mailed.
- *Authentication*. A login that has read its account before a logout or a deletion still gets its cookie and its login
  event. After a deletion that cookie is refused at its next call; after a logout it is a session.
- *Rollover*. A request cut off after its INSERT leaves an empty cycle nobody resumes.
- *Access*. A batch grant that is repeated after its derivation failed succeeds without deriving
  (`usersopdivs.go:104`). A decommissioned system is not offered by the assignment picker (`model/fismasystems.go:131`)
  and is assigned when named (`:183-186`). Assignments outlive the grant they came from, and one may follow the grant's
  revocation; nothing keeps the last OWNER; a user created by POST signs in with Okta until a grant is made.
- *Scoring*. Two answers to one question count twice in the averages. Moving the deadline of a rule's anchor before a
  closed data call changes that call's scores. A system answered at level 0 throughout also reads "Not Assessed".
- *Lifecycle*. Decommissioning again overwrites the record, but keeps the old notes when it brings none. A system that
  leaves the cloud by a partial PUT may keep a vendor, and scoped admins' saves of it are refused from then on, also
  those that do not mention the cloud (`controller/fismasystems.go:131`, `model/fismasystems.go:317-323`).
- *Certificates*. The window admits files of two bundles uploaded within one hour. After a return to an earlier bundle
  the deterministic token makes no new current version of the backup.
- *Kion*. A recovery alert is false when only the read-back failed.

## What is proved

Over every set of requests, users, systems, cycles, rows, texts and inputs, and every movement of grants and deadlines,
`ScoreReviewProofs` proves, under the named assumptions of `ScoreReview` (the tiers are nested as the code's predicates
nest them, "nobody" is no user, the tables the behaviour starts from have the columns' types):

| Theorem | Says |
|---|---|
| `TypeCorrect` | `Spec => []TypeOK` |
| `ConfirmTakesOnlyUntouchedRows` | `Spec => []ConfirmIsFirstTouch` |
| `ConfirmAffirmsTheLoadedAnswer` | `Spec => []ConfirmAffirmsWhatWasSeen` |
| `WritesAreAuthorised` | `Spec => []AuthorisedOnTheStoredRow` |
| `EndpointsKeepTheContract` | `Spec => Contract`: the refinement |
| `StoredRowsAreFound` | `Spec => []StoredRowIsConfirmed` |
| `EditorsAreOnRecord` | `Spec => []NoPhantomEditor` |
| `RepliesAreHonest` | `Spec => []RepliesAreTrue`, the two before in one |

None of these is inductive. `ConfirmIsFirstTouch` speaks of the order of past writes; what carries it from step to step
is `WrittenRowsAreDone` (a row once written stays reviewed, so the conditional UPDATE of a later confirm finds nothing).
That a request writes once is `WritersAreFinishing` with `WritersAreKnown`. That the loaded row still says who may write
and what was seen is `RequestsInv`: `Current` (system and cycle never change; while the row is untouched, all of it is
as loaded), `Cleared` (what the guards have established by then) and `SeesOpen` (an open cycle seen by a check is in
`openSeen`). `IInv` is their conjunction, `Invariance` proves it, one lemma per kind of step: control steps change no
table (`ControlStep`), writes append one entry (`WriteStep`). The refinement follows from `IInv` because an abstract
step asks for what the guards no longer show at the time of the write.

What is answered comes on top of `IInv`. From the contract it takes that the ledger only grows and a
reviewed row stays reviewed (`TablesGrow`); an answered request stands still (`AnswersStand`). `RepliesInv` then says
that the second read of a lost confirm finds the row reviewed (`LostToAReview`), that only the last step answers
(`AnsweredAtTheEnd`), and that the newest event of a score is a recorded one of that score (`NewestIsRecorded`), which
is what `lookupScoreAudit` reads. A save is never told "missing" because the system and the data call in its UPDATE's
WHERE clause are those of the loaded row, which `Current` keeps equal to the stored ones.

### The rollover

`RolloverProofs` proves for every set of systems, options and creators, for every content of the tables before, and
whatever is answered, confirmed and edited meanwhile:

| Theorem | Says |
|---|---|
| `RolloverTypesHold` | `RolloverSpec => []RolloverTypeOK` |
| `LineagesAreKept` | `RolloverSpec => []OverrideKeepsLineages` |
| `SilentLossesAreBounded` | `RolloverSpec => []SilentLossIsBounded` |
| `AnswersFlowForwardOnly` | `RolloverSpec /\ [][OrderStands]_rolloverVars => []AnswersFlowForward` |

It assumes that the rows a behaviour starts from have distinct identifiers, data calls that exist and no origin
(`TablesAssumption`), and that users answer with options that resolve (`BoundsAssumption`).

The argument is in `CopyInv`. Rows of `scores` are never removed or moved (`Table`, `Same`), and every request copies
into a data call of its own (`Requests`), where nobody else carries anything (`CarriedByItsRequest`). So what was due
when a source was chosen is due, and in the source, when the copy runs (`DueOK`), and what an override has carried is
not carried twice (`KeepsLineages`). How much silence can hide (`LossBounded`) rests on three facts: what is in
the source at the copy is what was counted, the due rows among it, and what was added in between, `late` (`CountOK`); only rows from before the behaviour can resolve to nothing (`DeadWereLoaded`); and the diagnostics
query of the override, which compares rows and not numbers, looks for what did not arrive. Each late answer can make up
for one that is dropped, and `rollover_partial` shows that it does.

`AnswersFlowForward` compares deadlines, and an edit of a deadline may put a data call before one whose answers it
has: that is the administrator's doing, and no promise of the rollover. `OrderStands` excludes exactly those edits: of
two data calls one of which has answers of the other, or is getting them, the order is not reversed. The run limits
the edits for the same reason, and more: as TLC confirms, all its steps satisfy the hypothesis.

### The pool and its secret

`ConnPoolProofs` proves for any number of callers, connections and rotations (assuming that writers are callers and the
two marks of a free and of a closed slot are none):

| Theorem | Says |
|---|---|
| `TypeCorrect` | `Spec => []TypeOK`, with it that no connection is used by two |
| `RotationsArePickedUp` | `Spec => []RotationIsPickedUp` |
| `SparePoolIsNotExhausted` | `Spec => []NotExhausted`, if there are more connections than writers |

The hypothesis of the last is the sharp one: `pool_exhausted` violates it by one. Its inductive part is `SparesOne`:
besides the connection in use, a caller keeps at most one, only while its event is being recorded, and only if it
writes; the theorem then counts. `RotationIsPickedUp` rests on `LockHeld` (the mutex is held from the fetch to the
assignment, so that no older answer overwrites a newer one), `Current` (while no rotation is under way, what a caller
fetched after it entered `Conn`, what is then cached, and what its second attempt connects with, are the current
version) and `Pending`.

### Authentication

`AuthProofs` assumes: the two providers' key identifiers differ, the interval is not zero, tokens have a key and an address, and
the limiter's TTL fills an empty bucket (`TTL * Rate >= Burst`, which the code's constants satisfy with room).

| Theorem | Says |
|---|---|
| `KeyTypesHold`, `GenuineKeysAreAccepted` | `KeySpec => []KeyTypeOK`, `KeySpec => []GenuineKeyIsAccepted` |
| `SessionTypesHold` | `Spec => []SessionTypeOK` |
| `SessionsUseTheCache`, `GenuineTokensAreVerified` | `Spec => KeySpec`, and so `Spec => []GenuineKeyIsAccepted` |
| `CallsAreServedAsPresented`, `SessionsDoEnd` | `Spec => ServedAsPresented`, `Spec => SessionsEnd` |
| `LimiterTypesHold`, `IdleBucketsDoLeave` | `LimiterSpec => []LimiterTypeOK`, `LimiterSpec => []IdleBucketsLeave` |
| `LimiterImplementsBucket` | `LimiterSpec => LimiterIsIdeal`: the refinement |
| `DoorTypesHold` | `MCSpec => []TypeOK`, the three together as `MCAuth` composes them |

The key cache is about age. `DocsAreRecent`: a document under way lacks only keys that were published after its fetch
began; `CacheIsRecent`: a published key that the cache lacks was published at most a timeout before the refresh that
throttles others, or the throttle is over; `LooksAreGenuine`: whoever looks for a genuine key came `Lead`, an interval
and a timeout, after its publication. Together they leave no moment at which a genuine key is refused, and `Lead` is as
short as it can be. `SessionInv` adds what a request carries by where it is (`RequestsAreFormed`: a cookie decides alone,
and a session is recorded for the account in its cookie), and that a browser counts as logged out only while it has
nothing to present (`EndedAreEmpty`). `SessionsDoEnd` makes no exception for what was under way at a deletion: the
login's cookie is set all the same, and lets nobody in. At a logout the one exception is in the property itself, the
cookie of a login that the logout found under way. `LimiterInv` bounds when a bucket was last seen by the last sweep; a
bucket that is swept has been full for that reason (`SweptIsFull`), and the mapping of the refinement takes a client
without a bucket for one with a full bucket.

### Systems and mass e-mail

`AdministrationProofs` assumes of the systems that a system somebody is assigned to exists (a foreign key), that the
tables a behaviour starts from have the columns' types and that a text is neither NULL nor blank; of the e-mail that
every spelling is one of an address.

| Theorem | Says |
|---|---|
| `SystemTypesHold` | `SystemsSpec => []SystemsTypeOK` |
| `AttributesAreKept` | `SystemsSpec => []AttributesComeFromUnscopedAdmins` |
| `DecommissionedIsReactivatedOnce` | `SystemsSpec => ReactivatedOnce` |
| `MailTypesHold`, `MailReachesGroups` | `MailSpec => []MailTypeOK`, `MailSpec => []MailReachesItsGroupOnce` |

The attributes are safe because what a scoped admin's request is about to write is absent or was the system's
(`KeepsAttributes`): what was once supplied remains so, however stale it is by the time it is written, which is exactly
as much as the code promises. A reactivation finds the system decommissioned because it has the row's lock since it
looked (`HasTheLock`) and everybody else's UPDATE waits (`OthersStaySound`). A message reaches its group once because
what is left to mail has been listed for this request, one spelling of each address, unmailed (`ToMail`), and a request
that has not listed anybody has mailed nobody.

### Accounts, grants and delegates

`AdministrationProofs` also proves, for every set of people, divisions, systems and requests of the twelve kinds, however
many overlap and whichever statement fails:

| Theorem | Says |
|---|---|
| `AccessTypesHold` | `Spec => []AccessTypeOK`: also that what the tables refer to exists |
| `DelegatesDoExpire` | `Spec => []DelegatesExpire` |
| `StrayAssignmentsWereGranted` | `Spec => []StrayAssignmentNeedsARevocation` |
| `ProvidersFollow` | `Spec => []ProviderFollowsGrants` |
| `PickersDoMatch` | `Spec => []PickersMatchTheGuards` |
| `AuthorityIsNeverMade` | `Spec => AuthorityIsHandedOn` |
| `AdministrationTypesHold` | `MCSpec => []TypeOK`, with systems and mass e-mail as `MCAdministration` composes them |

It assumes that a behaviour starts from a database that the service has left behind (`PopulationsAssumption`: the
columns' types and foreign keys, an expiry for delegates and for nobody else, assignments within grants, derived
providers).

`AccessInv` adds to the invariants what a request has made sure of by where it is (`Vetted`): its actor's tier, that
the account it writes exists, that a delegate comes with a date, and that the grant an assignment relies on is there or
has been revoked since. With the last, `StrayAssignmentNeedsARevocation` is known of an assignment before it is written.
`AuthorityIsHandedOn` follows from `Vetted` and from lemmas about the tiers: who may assign a role has one at least as
high, as of the snapshot, and the roles in circulation include the snapshots' (`HandedOn`, `FromTheCirculation`).

### Scoring

`ScoringProofs` proves, for every questionnaire and catalog, every rule of scope, every table and any number of writes:

| Theorem | Says |
|---|---|
| `ScoringTypesHold` | `ScoringSpec => []ScoringTypeOK` |
| `ViewsDoAgree` | `ScoringSpec => []ViewsAgree` |
| `ScoresDoFollowAnswers` | `ScoringSpec => ScoresFollowAnswers` |

It assumes that a catalog has finitely many functions, that an option is of one function and scores 0 to 4, and that
every environment is keyed to an edition in use or to none (`CatalogAssumption`), and the columns' types
(`TablesAssumption`).

`ViewsAgree` is a fact about one state: each view is shown to count the same set, the questions asked that have no row
(`AnsweredHasARow`, `BlankIsUnanswered`, `MissingIsUnanswered`), and the diff to list every function whose answers
differ on either side (`LeftOfDiff`, `RightOfDiff`). `ScoresFollowAnswers` relates the states before and after a write.
While each question has one answer at most, a report depends on the questions and on one level for each (`Rated`,
`ReportsDoRate`); the reports before and after are about the same questions, so that their pillars have the same
denominators, and `RatedGrows` says that reports grow with the levels. Sums are sizes of sets of units here, so that a
sum of larger parts is larger because its set of units includes the other one (`TotalGrows`), where a sum by recursion
would need an induction the provers cannot do. With the unanswered questions left out of the averages (a variant of
`Items`) the denominators differ, and the property is violated.

### The certificates

`CertRotationProofs` proves, for every window, number of tries, of uploads and of overlapping invocations:

| Theorem | Says |
|---|---|
| `CertTypesHold` | `Spec => []TypeOK` |
| `BundlesAreImportedTogether` | `Spec => []ImportedTogether` |
| `NoBundleGetsSwallowed` | `Spec => []NoBundleIsSwallowed` |
| `NothingElseGetsLost` | `Spec => []NothingElseIsLost` |

The first two properties are about the operator who waits for the outcome of an upload before the next one, `patient`,
and say so; TLC refutes them of the other one. What follows from waiting is that while anything is under way, objects
only disappear (`OnlyDisappears`): what an invocation has seen of a file is what is there, or was. So all invocations
have seen the same bundle (`SeenAlike`), the last one uploaded (`AboutTheLast`), and though reads, copies and deletes go
by name, the bundle they find is the one that was judged (`StaysFresh`, `StepsInOrder`). An upload that nobody has
answered is the last one and is still there (`Awaited`).

The last holds of every operator, and has an invariant of its own, `LossInv`. Between an invocation's read of a file and
its delete (`Holds`), what is at the key is what was read, nothing, or a file in `overtaken` (`Keeps`); what has been
read is imported before it is copied, and backed up (`Handles`). So a deleted file is imported and in the archive, or
has overtaken the invocation that deletes it, which is what `cert_race` shows to happen.

### The Kion key

`KionKeyRotateProofs` assumes that the threshold, the lifetime, the tries and the length of a day are not zero, and that
an invocation is the schedule's or an operator's.

| Theorem | Says |
|---|---|
| `KionTypesHold` | `KionSpec => []KionTypeOK` |
| `LiveKeyIsHeld` | `KionSpec => []LiveKeyHasAHolder` |
| `SecretOnlyMovesForward` | `KionSpec => SecretMovesForward` |
| `WindowIsAlwaysKept` | `KionSpec => WindowIsKept` |
| `OneBadDaySurvived` | `KionSpec => []OneBadDayIsSurvived`, if `Lifetime >= Threshold + 3` |

All rest on one observation: Kion issues a key to whoever presents the one before, and that one was found in the secret
(`ReadsVersions`). So every key but the live one has been stored (`VersionsInOrder`), each by the invocation that holds
it, which nobody else was told of (`HeldByOne`): a late write is either of the live key or finds its version there, and
the deterministic token makes it a no-op. Without the token the proof fails at `StoreStep`. Versions being in the order
of their keys and dates, the one an invocation decided on is the latest, so that the window it saw is that of them all.

`OneBadDayIsSurvived` goes by days (`ScheduleInv`). The invocation of the schedule acts on the stored key unless that
was issued today (`OnSchedule`); whoever holds a key was issued it today (`HeldToday`), because no invocation outlives
its day; and the date in the secret is of the day of issue (`StoredToday`). So from `Threshold + 1` days after the issue
on, a daily invocation that leaves the stored key in place has failed (`OverdueIsTrouble`), and there are two such days
before the key expires. The hypothesis is sharp: with a lifetime of six days TLC finds the key expired after one bad
day. The code's numbers, four and seven, meet it exactly.

### Only model-checked

`EveryCallReturns`, the pool's liveness, since liveness and ENABLED are out of the prover's reach. Every other property
of a passing run is the subject of a theorem. The seven `violation` runs refute a sentence each and have nothing to prove.

## What is not modelled, and why

- *Authentication*: a token is its provider's key, its address and its tenant; signatures, claims and time stamps are
  what makes it one. The HS256 tokens of a developer's machine, with the owner account created for the first of them,
  and the answer of the look-up of an identity provider are left out. The load balancer's sessions and the providers'
  documents are external.
- *Mass e-mail*: subject, text and the relay's dialogue are values; of an address its spelling is kept, since
  `dedupeRecipients` is about it.
- *Audit events*: their payload is not modelled, nor its redaction; the paged query is a read.
- *Migrations, reference data, spreadsheet layout, router, notifications*: single statements, layout and wiring. The
  constraints that the models rely on (unique data call names, the CHECK on `scores.status`, unique e-mail addresses,
  the primary keys of the assignment tables) are taken from the migrations.
- *Write path*: the text of an answer is a value (an option with its notes), of which only "too long" is told apart.
- *Rollover*: a name is told apart by what the prefixes match; users' answers are single writes; edits are limited to
  one correction before the copies that it concerns, because `AnswersFlowForward` speaks of deadlines, and moving a
  deadline afterwards changes what is earlier.
- *Access*: a person is an e-mail address; names and addresses are not edited; the OpDivs' delegate switch is constant,
  and the candidates' query ignores it, as in the code; lists other than the two pickers are reads.
- *Scoring*: time stamps, editors and row order of the views, the AI flag and rounding are left out; an absent and an
  empty note are one value; data calls are not created (`Rollover`) and the deadline's gate of a write is `ScoreReview`'s.
- *Lifecycle*: one column stands for each kind; the lists are reads; `UpdateDecommissionMetadata` is not called by the
  service; a PUT to system 0, which creates one, is a POST.
- *Certificates*: one prefix; a certificate is its pair, its issuer and whether it is acceptable; an event in the dead
  letter queue counts as told, and Slack's delivery is assumed; an AWS call either happens or fails, its answer is not
  lost; events are tried again once where Lambda's default is twice; an archive's path is unique, where the code's has
  the resolution of a second.
- *Kion*: keys are numbered in the order of issue, the secret's payload is a key and its date.

## Plan

Order of work, the most important behaviour first; what is done is marked.

1. Write path with its contract, runs and proofs (done).
2. Pool with the secret it caches, with proofs (done).
3. Authentication: keys, sessions, limiter, with proofs (done).
4. Systems and mass e-mail, with proofs (done).
5. Rollover, with proofs (done).
6. Certificates, with proofs (done).
7. Kion, with proofs (done).
8. Access, with proofs (done).
9. Scoring, with proofs (done).
