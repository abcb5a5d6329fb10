# A verification of nxgt-janus

TLA+ modules, TLC runs and TLAPS proofs about the parts of nxgt-janus that hold
state over several steps: its tokens, the sign-in and what ends it, the second
factor, the sessions, the users and their logins, the permissions and their
tuples, the requests that ask them through the GraphQL and Hono bindings, the
stores of the four adapters under their conformance suites, and the webhook
worker over its queues. Source paths are under
`src/packages/`; `auth/` stands for `janus/src/auth/`, `permissions/` for
`janus/src/permissions/` and `webhooks/` for `janus-webhooks/src/`.

Run, in this directory: `tlc -config MCOneTimeTokens_Races.cfg MCOneTimeTokens`
(each run of `PROJECT.json` names its module and cfg), and `tlapm` on each module
whose name ends in `Proofs`.

## The system

| Component | State | Operations | Interacts with | What is hard | Correct when |
|---|---|---|---|---|---|
| Token store (`auth/port`) | a record per secret's hash: kind, user, attempts, expiry, spentAt | insert, consume, countAttempt, spendUser, deleteUser, deleteExpired | everything below | it has no transaction over two calls | each call is one conditional write; spent stays spent |
| One-time tokens (`auth/one-time`, `sign-in-code`, `magic-link`, `email-sign-in`) | none of its own: calls over the token store and the user store | prepare, send, confirm | token store, users, first proof | calls that overlap between any two store calls, a store call that fails | one redeems, guesses are bounded, one live secret per user |
| Password sign-in and writers (`auth/users`, `password-written`, `email-flows`, `first-proof`) | the user's record under a version; sessions; challenges; reset links | signIn, change, set, reset request and confirm, first proof | tokens, sessions, second factor | a sign-in by the old password beside its replacement | one of the two sees the other |
| Second factor (`auth/second-factor`) | secret, lastStep and recovery codes in the user's record; challenges in the token store | enrol, activate, regenerate, disable, confirm, recover | tokens, sessions | two calls that read one factor and each write their own | a code is accepted once, a challenge opens once, no write undoes another |
| Attempt windows (`auth/one-time/window.ts`, throttles) | chains of token records, one link unspent | count, restart, prepare and send | tokens | probing a chain that others extend | the limit holds, and a sign-in restarts the count |
| Sessions and step-up (`auth/sessions`, `auth/step-up`) | a record per session: expiry, revokedAt, authenticatedAt; in Redis a set per user beside them | open, authenticate, renew, revoke, sign out everywhere, stamp, collect | users, tokens | a renewal beside a revocation; a set that lapses before what it names | a session that ended never comes back; nobody is missed |
| Users and logins (`auth/users`, `auth/email-flows`, `port/memory/users.ts`) | a record per user, an index of logins | create, findOrCreate, signUp, update, verify, change e-mail, delete | all of the above | creation races, a record read and written back, a deletion that stops half way | one holder per login, no write lost, deletions can be replayed |
| Permissions (`permissions/`) | relation tuples | grant, revoke, replace, deleteEntity, can, list, holders | applications | recursion through subject sets, two replaces, pages cut while tuples change | can and list agree with the model's least set of facts |
| Webhook queue (`webhooks/queue`, `janus-webhooks-redis`) | per delivery: attempts, lease, due; in Redis a hash, a member of a sorted set, a set of endpoints | insert, claim, claim orphans, extend, schedule, delete | worker | several processes; scripts of which Redis rolls nothing back | what is claimed is hidden until its lease lapses; what is kept can be claimed |
| Webhook worker (`webhooks/worker`, `deliver.ts`) | pump, flights, reminders, inserts under way | listener, pump, attempt, give up, sweep, close | queue, endpoints, `onGivingUp` | crashes, queue outages, promise order, shutdown | nothing lost; one request at once; close ends everything |
| Bindings (`janus-graphql`, `janus-hono`) | per request: what `authenticate` answered, a memo of checks; per response: the session cookie | context, guard of each field, events, connections; session, fresh and permission of a route | sessions, permissions | fields that run at once and share one answer; a session, a tuple or the clock that moves between two awaits | what is answered was true since the request came; a renewal never undoes a sign-in or a sign-out |
| Adapters (`janus-drizzle`, `janus-mongo`, `janus-redis`, `auth/port/memory`) | rows, documents or hashes, and their unique indexes | every method of the ports of users, sessions, tokens, tuples and deliveries | the database | transactions that claim logins one by one, an answer read after the write that refused, writes of many rows or documents, a lapsed document dropped at any moment | a method is atomic to who calls it; an outage is never an absence |
| Conformance suites (`janus/src/conformance`, `webhooks/conformance`) | the cases | what each step calls, what it may answer | adapters | calls at once | every adapter passes every case |
| Mail, kit, telemetry | none | — | ports | — | see "Not modelled" |

## Modules

| Module | Models |
|---|---|
| `TokenStore` | the token store: an operator per method, from store to store; how a record may change under each |
| `OneUse` | the promise of a one-time secret, with no store, clock or calls |
| `OneTimeTokens`, `OneTimeTokensProofs` | sends and confirms of codes and links, racing; refines `OneUse`, proved |
| `PasswordSignIn`, `PasswordSignInProofs` | one user's sign-ins, challenges, resets, password writers and factor keepers; all its properties, proved |
| `AttemptWindow`, `AttemptWindowProofs` | the chains of links that count sign-ins, app codes and e-mails per window; their limit, proved |
| `SessionStore` | the session store: an operator per method; and the sets of keys Redis keeps per user, with their expiry |
| `Sessions`, `SessionsProofs` | what opens, reads, renews, confirms, ends and collects sessions, over rows or over Redis; all its properties, proved |
| `UserStore` | the user store with its index of logins: an operator per method |
| `Accounts`, `AccountsProofs` | users created, found, updated, verified and moved to another e-mail, racing; all its properties, proved |
| `RelationStore` | the tuples as their callers query, write and page them |
| `PermissionModel` | what `defineModel()` accepts |
| `Permissions` | the engine over a store; `can()` as a recursive function of what it reads, against the facts derived |
| `Reverse` | `list()`: the rounds that walk the model backwards, against `can()` |
| `Directives` | what the directives of a field add up to, and the schemas that are refused |
| `RequestWorld` | what a request meets: `authenticate`, `can`, the clock, failures; and the facts its answers are judged by |
| `Requests` | GraphQL operations, subscriptions and connections, each field a task |
| `Routes` | a Hono route behind `session`, `fresh` and `permission` |
| `Bindings`, `BindingsProofs` | the engine alone, or behind an application's requests and routes; what its requests are answered, proved |
| `Relations`, `RelationsProofs` | `replace()`, its races and its transactions; `holders()` and its pages; both proved |
| `StorePort`, `RelationPort`, `QueuePort` | the ports with whole records, each call a record of a method and its arguments |
| `StoreCases`, `PortCases` | the cases of the conformance suites, as data |
| `StoreAdapters` | the stores of the adapters, statement by statement |
| `Conformance` | the suites, and races of two or three calls, run against an adapter |
| `RedisQueue` | the queue port, an operator per method; and the port over Redis: an operator per script, and what it leaves when it stops half-way |
| `Outbox` | the promise of a durable queue: kept until delivered or reported |
| `WebhookWorker`, `WebhookWorkerProofs` | several processes over one Redis queue; refines `Outbox`, the safety half proved, and that each script is the port's method |
| `MemoryWorker` | the worker of one process with no queue, on the promise job queue; its proof is the last part of `WebhookWorkerProofs` |
| `MC…` | constants, scenes and symmetry for TLC; `MCRelations` also composes the relation store's races with the adapters under their suites |

`PasswordSignIn`, `Sessions` and `Accounts` start in one of several *scenes*: a
scene says which users, calls and stores there are, and is rigid. A scene is an
instance of its own; one run explores all of them.

### How state and actions correspond to the code

**An `await` is a step boundary.** In `OneTimeTokens`, `PasswordSignIn`,
`Sessions` and `Accounts` each action makes one store call and does what the
code computes from its answer; every other call may run between two actions. A
call is a record whose `pc` names the store call it makes next, with what it
holds in local variables (`answer`, `version`, `welcome`). Reading the clock is
part of the store call it is passed to. `…Fails` is a store call that throws:
the rest of the call does not run. A failing call that made its write all the
same is the action followed by `…Fails`.

**Stores.** A method of a store is an operator from the store before it to the
store after it: one conditional write, as the port's docs demand and the
in-memory, Drizzle, Mongo and Redis implementations each do in one statement or
one script. A secret is 32 random bytes, so it is named by the hash it is stored
under, and each send, sign-in, challenge or link has its own.

**`PasswordSignIn`.** Nothing lapses, and the throttle's counts, the mails and
the events are left out: each only refuses more. `changePassword` and
`setPassword` are the flow `"change"`: they differ in what they compare before
the write. `version` starts at 1, for 0 to say "not read". A *keeper* is a call
of enrol, activate or regenerate: it reads the factor, checks a code against it
and writes a whole factor under the version it read. Disabling is one step: what
it writes does not depend on what it read. An app's code is a pair of a secret
and a step of the clock; which steps the drift allows at the moment is left
open. One recovery code is minted where the code mints ten.

**`Sessions`** has the clock of the process, which each call reads with a skew
(`Skew`), and `keyClock`, Redis's own. Over rows the sets by user are what a
query answers; over Redis each is a set, a key with an expiry of its own.
Who signs in was proved before `BeginSignIn` (that is `PasswordSignIn`'s and
`OneTimeTokens`'); the device hint, the cookie and what `assertFresh` reads
change no state. `users.delete` is here in full, since a deletion is what it
leaves: it may fail before each of its steps, and be called again.

**`Accounts`** has one user type. A spelling of an e-mail or a name is
normalised by a function of the instance, in which two spellings meet. `Update`
stands for `update` and `setActive`, with the patch callback awaited between the
read and the write. A link (`verifyEmail`, `changeEmail`) is sent, and may be
confirmed by any call, any number of times; who opened an inbox is whoever holds
a link that was sent to it.

**`Permissions`** keeps the tuples; grants, revokes and deletions change them,
and an invariant asks every question of every state. `can()` of the module is a
function from what it reads to the *set* of answers, since a store answers the
holders in no order and the walk stops at the first that decides. `Reverse` has
`list()`, by recursive operators, and is extended by the run's module only, so that
`Bindings` can be proved about.

**`Bindings`** is `Permissions` when no application is served, and an application
otherwise: `app` is its wiring, its schema, its requests and its Hono routes, and is
rigid like a scene. Only a schema that `useJanus` accepts is served
(`Accepted`). A field is a task of its operation: it waits for `user()`, then
for each of its permissions, in order; every await is a step, so fields of one
operation, other operations of one HTTP request and the world interleave.
`authenticate` is one step: its own races are `Sessions`'. One `can` call answers
of one instant: the code awaits several reads of the store (`permissions/walk.ts:
86-119`), so tuples that change inside one walk are left out, here and in what is
proved. A load finds all its objects at once. `could` keeps, for each request, what was true at some
instant since it began (a subscription's event starts again, but keeps who it is
for): `AnswersWereTrue` compares each answer with it and with the directives as
written, not with what the modules made of them. What a loader throws is the
application's own and masked. Left out: the masking and reporting of errors, ids
that cannot be named, narrowing helpers, the device cookie.

**`Relations`** is about one relation on one object, so the store is a set of
subjects. Over Drizzle and Mongo a replace is a transaction of statements that
take row locks; over memory it is one step.

**`StoreAdapters`** has one action per statement a method sends: an insert and the
read of what it collided with, a row written and each login claimed under locks
that its transaction holds to its end, each document of an `updateMany`. Methods
that are one statement on one row, one script or one synchronous function are one
step (`OneStep`). An update or a deletion of several rows of PostgreSQL takes what
matches as it begins, then locks the rows one by one, waits for whoever holds one
and checks it again, and commits them together; a write of one row waits for its
lock too. What a statement throws, the database's error at any of them included,
goes through `run`, the translation, before it is an answer. The module keeps what
the database keeps (`toUserSet`, `toUserDocument`, `toHash`) and answers what is
read back from it. `StorePort` says what the
in-memory stores do, and is the reference: `Linearises` asks that the answers of
calls made at once, and what they leave, are those of the port in some order.
`fails` is the method that meets an outage; PostgreSQL ends one transaction of a
cycle of waits. A record holds what the suites look at: a login is one of seven
names, a field's value one of a few.

**`Conformance`** opens one case on one adapter, and runs its steps in order, the
calls of a step at once. A case is `[id, needs, fails, sound, steps]`, a step its
calls, how it is judged (`"judged"`: the transcript is one of `allowed`) and
what it may hear. The cases are translated one by one from
`janus/src/conformance` and `janus-webhooks/src/conformance`; the races beside
them are the project's own.

**`RedisQueue`** maps each script to an operator on the keys, and beside it
`…Stops`, the set of keys it may leave: Redis runs nothing beside a script, but
rolls nothing back when one of its commands is refused (out of memory, a type).
One command of a call is refused at most; the undo of `INSERT_DELIVERIES`, which
frees memory, is not. Which endpoint is served first rotates in the code; here
which due deliveries fill the limit is left open.

**`WebhookWorker`.** A *flight* is what one claim became: `sending`, then
`deleting`, `retrying`, or `extending` → `reporting` → `removing`; a swept orphan
waits as `orphaned` for its turn. Times are counted from now, so `Tick` moves
every due date one closer, and is blocked by a timer that fires now. A call of
the queue answers within `Latency`; the lease of a claim runs from the instant
before the call (`pump.ts:149-153`). An outage is a call that throws: made, not
made, or stopped half-way. A lease is the number of the claim, which is as
unique as the UUID. The poll lets the pump claim at any time, so inserts,
reminders and freed slots that wake it sooner change nothing here. The event
types an endpoint takes and the failure kept with a retry are left open. An
event is not inserted again once a delivery of it is gone: its id is minted once.

**`MemoryWorker`.** Every step is one job of the event loop. `jobs` is the queue,
a job carries how many `hops` (promise reactions that only pass a settlement on)
are left before its code runs, and a job that hops goes to the back. The counts
come from ECMAScript: a native `await` of a promise or of a non-promise costs
one reaction, returning a promise from an async function two more, `finally` one
on the way through, a `Promise.all` one after its last element. Timers and the
network come when no job is left. Leases and failures are `WebhookWorker`'s.

**`AttemptWindow`.** A call is in one of the uses of a count, by the rigid
`mode`: sign-ins at a login (`"restart"`), codes at an app (`"carry"`) or e-mails
asked for (`"mail"`, a carrying count that nothing spends, whose calls then wait
for their `send`). A
link's hash is the triple its key is derived from, so two calls name the same
link exactly when the code does; a call keeps the locals of `countRestarting`
(`spent`, `absent`, `probes`) or the sum of `countCarrying` (`carried`) until
`countInWindow` returns. The links of a login or an address are stored under no
user, so only expiry removes them. The limit on e-mails is on what is prepared in
a window: what is prepared in one and sent in the next counts for the first.

## Runs

| Run | Instance | Shows |
|---|---|---|
| `races` | 2 secrets of either kind, 2 confirms, 1 attempt, 1 user, 2 addresses, expiry after 1 tick | `RedeemedOnce`, `GuessesBounded`, `LastAttemptSpends`, `OneLiveSecretSent`, and the refinement of `OneUse`, with update, deletion, expiry and collection beside them |
| `sign_in` | four scenes: an old hash, a sign-in and a link beside 2 writers; 2 challenges, 2 confirms, app and recovery codes; a link, 2 writers and an e-mail change; a challenge beside 2 keepers | `ChallengeHeldByPassword`, `ResetSignsOut`, `LastPasswordStays`, `CodeAcceptedOnce`, `OlderLinksSpent`, `ProvesItsAddress`, `FactorMovesForward` |
| `windows` | 3 calls, limit 1, 2 links, up to 1 earlier sign-in, a store clock 1 tick ahead, 2 windows of 2 ticks | `GuessesWithinLimit`, `NeverVanishes` |
| `sessions` | scenes of up to 2 users, 3 sessions, 2 deletions, 2 step-ups, over rows and over Redis | `SessionsListed`, `OutForGood`, `NeverBroughtBack`, `StampsProven`, `ReplayLeavesNothing` |
| `accounts` | scenes of up to 3 users whose logins meet, 2 creations, 2 links, 2 updates | `LoginsIndexed`, `FoundHoldsKey`, `NoLostUpdate`, `VerifiedByProof`, `LeftLinksDead` |
| `permissions` | 4 models, every set of up to 3 tuples, depths 1 and 4, every question; or 13 small applications of up to 3 requests, and six schemas that are refused, 2 events, 1 change, 1 failure, 2 ticks | `CanFollowsTheModel`, `ListAgreesWithCan`, `AnswersWereTrue`, `HiddenStaysHidden`, `OwnCookieWins`, `WiredAtStart` |
| `relations` | 2 replaces of 2 calls each, a grant or revoke, a fault; or 4 pages read while tuples change; three adapters. Or a case of the suites, or one of 18 races of 2 or 3 calls, on each of the four adapters that provides its port | `ReplacesBetween`, `HoldersPaged`, `CasesPass`, `Linearises` |
| `delivers` | 2 processes, 1 event, 2 endpoints, 2 faults, 1 deploy that swaps one for the other, fairness | `OneRequestAtOnce`, `ReportedByItsHolder`, `KeptWithinReach`, and the refinement of `Outbox`, liveness included |
| `close` | 3 deliveries, 1 slot, 1 retry, close at any point, fairness | `ClosedEndsAll`, `CloseResolves` |
| `runs_out` | crashes only | **violated**: a request past the schedule |
| `wakes` | 2 deliveries, 2 slots | **violated**: a wake lost behind the end of a run |
| `locks` | 2 replaces of the same holders over Drizzle | **violated**: each holds the row the other one waits for |

### What the violations say

- `runs_out`: `attempt` posts first and reads the schedule after a failure, so a
  delivery whose process crashed in its last attempt is sent once more, each
  crash once more again.
- `wakes`: `pumping` is reset one promise job after the loop last read `again`.
  In a process with no queue of the caller's no poll makes up for it.
- `locks`: `apply` orders the removals and orders the additions, but locks every
  removal before any addition. PostgreSQL ends the deadlock by aborting one of
  the two, whose caller gets an error it did not expect.

### Also seen while modelling

None of these is a run: each is what the models are built to allow.

- A sign-in by e-mail that read its user before `users.delete` ran stores its
  token after it (`auth/email-sign-in.ts:36`). It redeems nothing, and stays
  until it expires.
- A `secondFactor.confirm` under way when the password is reset opens its session
  after the reset signed everybody out (`auth/second-factor/challenge.ts:93`):
  only `signIn` looks again after it issued.
- Two replaces can leave nobody of what either wanted: both read {a, b}, one
  wants {a}, the other {b}, and each removes the other's. `ReplacesBetween` says
  what does hold. Over PostgreSQL's read committed a write of several tuples is
  all or nothing, but not serialisable.
- Two requests that renew one session at once may both write, where the docs say
  "at most once per period"; a late one may move `expiresAt` back a little. The
  row stores' `extendSession` does not look at the expiry.
- `user.deleted` is not told when `deleteUser` throws though its write landed: the
  replay finds nobody.
- `proveFirst` marks a user who has no e-mail verified too. `VerifiedByProof` asks
  of who has one: the e-mail they get later is not verified by that mark.
- `findOrCreate` by a name may answer a user whose e-mail normalises to that
  name: the index does not say which of the two it is.
- `claimLogins` of Drizzle sorts its claims and so "never deadlock"s with another
  claim (`janus-drizzle/src/stores/logins.ts:16-18`), but `updateUser` deletes its
  old logins before it claims: two users who swap their logins may still deadlock,
  and one of the two gets a failure. So may two writes of the same rows, such as two
  sign-outs everywhere, if their scans meet the rows in different orders. `MayFail` says where `Linearises` allows one.
- A retry of `insertUser` that meets a deletion of its user between its insert and
  its read is answered `NOT_FOUND` by Drizzle and an error by Mongo.
- `sessions.deleteUser` and `tokens.lapsed` of the suite read a lapsed record twice,
  and Mongo's TTL monitor may drop it in between: the case allows the drop before
  the first read only, and would fail (`ReadTwice`).
- A subscription keeps the identity it started with: its checks are asked again on
  every event, but a session revoked meanwhile goes on streaming.
- In one operation a helper `can()` reads the memo: after a mutation that revoked
  what it had asked, it still answers as before. So does a helper in a
  subscription, which only the guard's own checks pass by.
- `can()` reads the store several times, with no snapshot: when two tuples change
  inside one walk, it may answer what held at none of its instants. With one
  change it answers what held before it or after it.
- A chain of tuples that crosses exactly `maxDepth` is answered by `can()`, while
  `list()` throws: it needs one more round to see that nothing is left. The depth
  is looked at before the cycle (`permissions/walk.ts:38-47`), so a cycle may
  throw `PERMISSION_DEPTH`.

### Bounds, and why they are enough

Two calls that race are enough to break each of the token properties. With one
attempt per challenge the first confirm makes the last one and the second comes
past it, before or after the first spent the challenge; attempts that are not
the last are the proof's, which bounds nothing. One user is enough there: no call
touches two. A second address lets the user move away from the one a secret was
sent to, and back. `Ttl = 1` and `MaxTime = 1` make each secret lapse between any two
steps. In `sign_in` each scene has the calls its properties are about and no
more; two steps of the app's clock are one accepted and one after it. In
`sessions` a session lasts two ticks and is renewed after one, so it is renewed,
lapses and is collected within a run; two clocks one tick apart reach every order
of a process's and Redis's expiry. In `accounts` two spellings share one
normal form, which is what makes two creations meet. In `permissions` three
tuples make a cycle through two objects, a chain longer than the smaller depth,
and a diamond. Its applications each have what one kind of answer takes:
two fields that share a question, a batch of targets and the check after it, a
subscription and its events, a connection refused and accepted, two operations in
one response, a route that signs in or out; one change and one failure each fall
between any two steps, and two ticks make a session stale. In `relations` two callers with two subjects to lock each are what
a deadlock takes, and four pages of one or two are longer than the holders. The
suites make twenty calls at once where the models make `Crowd`, three: any two
calls of a crowd race as they would in a larger one, and the last claim of the
crowd finds nothing left. Twenty-five users or objects paged by ten are five
paged by two: there are two whole pages and a last one that is not full.

For the worker, two processes are what it takes to claim one delivery twice, two
faults to crash one and fail the call of another, or to stop two scripts
half-way; the lease is the shortest that satisfies its assumption, and
`MaxClaims` exceeds what the faults allow wherever a property depends on it. One
event has one delivery there, so no two orphans are given up in turn, and
`ORPHAN_BATCH` is not reached. Three deliveries on one slot keep the pump
saturated, and let one wait while another is retried.

For `AttemptWindow`, `MAX_LINKS = 2` is reached by two password writes;
`MAX_PROBES = 12` leaves a lonely count its `2 log2(n + 1) + 2` probes and each of
the two racing sign-ins the probes it costs (nine are too few for them, which is
how the bound was found). Four ticks make the links of the first window lapse
for a store whose clock is ahead.

`CHECK_DEADLOCK FALSE` stands where the modelled calls each run once, or where
the worker, closed, stops.

### Assumptions and fairness

- `WebhookWorkerAssumption`: `timeout + 2 * Latency < leaseMs`. `leaseOf`
  (`webhooks/options.ts:171-198`) sets the lease a margin past the timeout; the
  margin covers the claim's answer and the call that follows the request. A
  queue slower than that may let two requests overlap.
- `AttemptWindowAssumption`: `Skew + Slow <= windowMs`. The window of slack in
  `expiresAt` (`auth/one-time/window.ts:75-78`) covers a store's clock ahead by
  no more than that, and a count that runs no longer than what is left. The rest
  says that the calls are finitely many and that the names of the instance reach
  every link they may ask for (`MaxLink`): it bounds the model, not the code.
- `RelationsAssumption`: a page has room for one, a scan for one more look, as
  `pageLimit` and `checkedPredicate` demand (`permissions/holders.ts:102`), and the
  order of the subjects is total. An infinite budget is any that exceeds the holders.
- `RedisQueueAssumption`, `UserStoreAssumption`, `NoUserAssumption`,
  `NoneAssumption` and the like say that `None` is none of the values beside it,
  that calls of different kinds have different names, and that what an instance
  names exists.
- `WebhookWorker!FairSpec`: time passes; a poll and a sweep are intervals; a
  request ends at its timeout and `onGivingUp` returns; a queue call answers;
  a process that went down is started again. `Crash`, `close` and outages have
  no fairness and are bounded.
- `MemoryWorker!FairSpec`: the event loop runs its jobs, a request ends, a report
  returns. Nothing is assumed of the timers, of callers or of `close()`.
- No fairness is assumed in the other modules: their properties are safety.

## Proofs

Each proof is for every value of the constants that the module's assumptions
allow: any number of users, calls, secrets, links, processes or deliveries that
overlap, any scenes and any bounds. The proofs share one shape. A property of a
state says nothing of a call half-way through, so it is not inductive; the
invariant beside it says what such a call holds in its local variables, and how
that stays true, or is refused by the store, when another call moves first. What
the steps of one kind do is stated once (lemmas `…Effects`, `…Steps`), what they
leave alone once (`Still…`, `Quiet…`), and an invariant is proved from those.

**The token store.** Each module that proves something about tokens first says
of the store's methods it calls that a record only *evolves* under them: dropped,
or kept with its kind, user and expiry, never fewer attempts, and unchanged once
spent. `ConsumeSpends` and `SpendUserSpends` say that what should be spent is.

**One-time tokens.** `OneTimeTokensProofs` proves every property of `races`:
`OnlyOneRedeems`, `AtMostOneLive`, `AtMostSoManyGuesses`, `NoneAfterTheLast`, and
`Implements`, `Spec => KeepsPromise`. `Bookkeeping` adds what each call knows: a
stored token is its send's (`SendsKnown`); a call that holds a counted attempt
holds a number the store has reached, and a call that redeemed holds a secret
that stays spent (`ConfirmsKnown`); and two calls that count the same secret hold
different numbers (`CountsDistinct`). `GuessesBounded` follows from the last: the
counts are an injection from the calls that compared into `1..CODE_ATTEMPTS`.
`LastAttemptSpends` takes `LastHeld`: while a challenge without attempts left is
unspent, some call holds its last attempt and has still to spend it or failed.

**Password sign-in and second factor.** `PasswordSignInProofs` proves every
property of `sign_in` over three invariants. All rest on `Base`: the types, and
how far each call is by what it has opened, spent or written (`Shapes`).

- `Fresh`: a call that will write the user holds a version no newer than the
  record's, and if it is the record's, what it read is still there: a confirm's
  factor, a keeper's decision, the e-mail a reset or a first proof compared.
  `AddressProved` and `FactorForward` follow: the write is under that version.
- `CodesKept`: the factor stored is past every code accepted of its secret and
  holds no recovery code accepted (`FactorKnown`), no code is accepted of what no
  keeper has written yet (`AcceptedKnown`), and no two calls accepted one code
  (`AcceptedApart`); `OpensApart` is the same of challenges. `AcceptedOnce`
  follows. Without `AcceptedKnown` a new enrolment could bring an accepted code back.
- `HeldInv`: a challenge that waits is of the password stored, or a call that
  wrote the password has still to spend it or failed, or the user is being deleted
  (`ChallengesHeld`); a link older than a write is spent, or that call has still
  to (`LinksSpent`); past its revocation, a reset leaves only sessions of the
  passwords since (`SessionsEnded`). With `LastPasswordStays` itself, they give
  `NoPasswordLost`, `HeldByThePassword`, `LinksBeforeSpent` and `SignedOut`. What
  closes the race is that `heldByPassword` answers from a read of the user after
  the sign-in issued: whichever of the two comes second sees the first.

**Attempt windows.** `AttemptWindowProofs` proves `WithinLimit`, the property of
`windows`, for any calls, limits and windows. What a count of one call means is
spread over links that others spend meanwhile, so the invariant is about the
chain. Its shape: no link is stored before those under it are spent (`Chained`),
what a call last saw spent is still spent (`Walked`), and a link whose window may
still be asked about is not dropped while a guess was counted at it (`Kept`,
which is where the clocks and `Skew + Slow <= windowMs` come in). Its sums: a link
counted every guess let through at it (`CountedAt`), so no more than the limit
(`LimitedAt`), and a call that carries a count brings every guess under the link
it looks at (`CarriedBelow`). A sign-in's link is spent only by a sign-in that
succeeded (`SpentByRestarts`), so all the links with guesses but the last one were
restarted by calls of their own (`RestartedBelow`): numbering the links injects
the guesses into `1..limit` for each restart and one more. `CarriedNeverVanish` is
the part of `NeverVanishes` that is about codes and e-mails.

**Sessions.** `SessionsProofs` proves every property of `sessions`. `Listed`: a
session Redis still holds is in its user's set, and the set outlives it; when
Redis's clock passes the set's expiry the set is dropped, so no session in it may
be left alive by that clock (`KeysAhead`), and a call that has begun names what
exists (`Chosen`), or the add could be for another user. `EndedForGood` and
`EndedStayEnded` take `OutInv`: of a user deleted, no call that read them before
still holds a session that stands (`Left`), and a call begun after its session
ended is refused before it does anything (`Sound`). `OneStampEach` takes
`StampInv`: a confirmation that will stamp spent its challenge, no other did, and
its code is behind the user's last step. `NothingLeft` takes `LeftInv`: what is
stored is listed, a deletion emptied what it has passed, and it is owed to be
told once.

**Accounts.** `AccountsProofs` proves every property of `accounts` from one
invariant, `AInv`. Of the store: every record is found by its own logins and the
index names nobody else (`UsersKept`, `IndexKept`); a verified e-mail was proved.
Of each call: what it read is the record, if the version is still the same
(`ReadThen`), what it will write differs from that only where its flow says
(`Writes`, `Changes`), a landed update is still there until a later one of the
same field (`Lasting`), an opened link is out and its inbox proved (`Opened`,
`Linked`), and what `findOrCreate` and `signUp` answered held the key they were asked for
(`Found`). `LeftSpent` says that what an update left behind is spent, and so dead.

**Relations.** `RelationsProofs` proves both properties of `Relations`, for any
number of callers, where the run has two. `BetweenWanted`: while overlapping
replaces run undisturbed, none has finished as long as a subject they all want is
missing, and each of them will still add it (`WantedAhead`); the same of one that
nobody wants and that is there (`UnwantedAhead`). A call's write stays within what
it wants (`JobShape`), so a row once right stays right, whichever locks wait.
`PagedOnce`: whatever was answered is behind the cursor, what a scan has kept is
between the cursor it began at and its own, and who was a holder all along is
answered, kept or ahead (`Paged`). It needs a room of one in each read
(`scanned < budget`), or a scan would resume nowhere. The run composes the module
with the suites (`MCRelations`), beside which its variables do not move.

**Redis queue.** `WebhookWorkerProofs` proves first, of any keys within reach, that each
script, whole, is the method of the port (`InsertIsThePort`, `ClaimIsThePort`,
`ExtendIsThePort`, `RetryIsThePort`, `DeleteIsThePort`), and what a port's caller
sees when it stops half-way: all or none of an insert, there or gone for a
delete, a retry due when the old lease ends. Its lemmas `…Keeps` show that every
script, whole or stopped, leaves every delivery within reach of a claim.

**Webhook worker.** `WebhookWorkerProofs` proves the safety properties of
`delivers`. `AlwaysWithinReach` is inductive with the shapes of the keys and of
the processes, from the lemmas above; `NeverLost`, that no step removes a delivery
before it was delivered or reported, from `EndedFirst`. `SentOnceAtATime` and
`ReportedUnderLease` take `HoldInv`: the lease of whoever sends or reports
outlasts what is left of the request by a call of the queue (`Holds`), which is
where `timeout + 2 * Latency < leaseMs` is used. `ImplementsOutbox` is the safety
half of `KeepsPromise`: initial states are `Outbox`'s, and every step is one of
its steps or none; a delivery ends once more than there were faults only while
whoever ended it holds it (`EndedOnce`).

**Worker in memory.** The last part of `WebhookWorkerProofs` instantiates
`MemoryWorker` (`Mem`) and proves `EndsOnceAtClose`: `ClosedEndsAll` for any
deliveries, concurrency and retries, where the run has three, one and one. The
jobs are a queue of any length in which anything may overtake what still hops, so
the invariant (`Inv`, in every state by `MemoryInvariant`) is about which jobs are
queued, not where: at most one for each thing that waits (a delivery's flight,
its insert, the pump, `close()`), and what the state is while it is queued
(`DeliveryOk`, `PumpOk`, `CloserOk`). Each step is one lemma (`StepDecide`,
`StepCloses`, …). What a step leaves alone is once for all: the jobs of one mark
are `Untouched` by a step that runs and queues others. Two places need the order
of jobs. A wake between the end of a run and its `finally` starts nothing, so
the pump may rest with something due: it does so only while the `finally` is
ahead of the `flush` of `close()`, which then asks again (`PumpOk`). And what
awaits the idle pump hears of it before the next claim's answer, by the hops each
has left (`IdledFirst`). A run that claimed nothing with a slot free then leaves
nothing due that was never attempted (`Owed`), which is what `close()` reads
before it stops the pump. `Inv` was checked by TLC before it was proved.

**Bindings.** `BindingsProofs` proves what `Bindings` says of requests, for any
application: any model, any schema accepted, any operations, connections and
routes, and any sessions, tuples, changes and failures beside them. The three
properties are about answers given, so the invariant `IInv` (`ServesTruly`) is
about what a request has in hand until then, against its history `could`.

- `UpToDate`: the history is never behind the world. It holds who the request's
  token is for now, the checks the tuples now answer and the freshness the clock
  now allows, so whatever a step reads is in it; and every step of the world and
  of other requests only adds to it (`Onward`), which keeps the rest (`…Kept`).
- `OperationOk`: an operation's identity is in its history, each answer of its
  memo is too (`MemoOk`), and a field that is past its k-th check was allowed by
  all those before it (`TaskOk`); an outage is in hand only where a store failed
  since. A memo's answer is older than the field that hears it, but not than
  their operation, and a subscription's event, whose history starts again,
  passes it by: with the mutant `OnlyCtxSkips` this is what is lost.
- `RouteOk` says the same of a route's middleware, one after the other.
- `CookieOk`: a response that sends a renewal sends nothing else, to who presented
  that cookie, and sends it last: an operation's is over then, and a route's holds
  nothing before its handler ran.

`AnswersAlwaysTrue` is about tuples that change between the calls of `can()`, each
one step. It compares an answer with the directives as they are written:
`Wired` carries, for every field, that what its guard requires is what its
locations add up to, which is where `RequirementOf` and `ReadField` are opened.
`HiddenAlwaysHidden` takes that a check denied at k was reached past all before
k, and that `Permitted` puts the type's before the field's. `AppsAssumption` says
what the types of the code say of an application: its directives' arguments, the
ids its loaders may answer, what its requests present. Which schemas are refused
is `Accepted`'s to say, not the assumption's.

### Only model-checked

Liveness under fairness (the other half of `KeepsPromise`, `CloseResolves`), which
is out of the prover's reach; that a sign-in's `MAX_PROBES` suffice (the rest of
`NeverVanishes`), which takes the length of a binary search, an induction over
data; `Conformance`, whose cases are data. Of `permissions`:
`CanFollowsTheModel` and `ListAgreesWithCan` say what a recursion over the tuples
computes, and `WiredAtStart` that the walk reaches no condition that
`ReachesCondition` did not; each is an induction over data, and is checked over
every input of the bound. Type invariants
that no run lists only say what the variables hold.

## Not modelled

- **Rest of the adapters**: the SQL itself, migrations, prefixes, indexes that only
  make reads fast, and replies of Redis that cannot be read, which throw. In
  `StoreAdapters` a write of tuples is one step (`Relations` has its statements), the
  sets of Redis are left out (`SessionStore` has them), and so are members of its queue that
  outlived their delivery (`RedisQueue`). Two multi-document writes of Mongo that
  race share what they count, so only the sum is compared. Two secrets never have
  one hash, letter case is ASCII's, and a deleted id is never inserted again
  between the two statements of an update.
- **Rest of the bindings**: tuples that change inside the walk of one `can()`
  or `list()`, between two of its reads (see *Also seen*); masking and reporting of errors, the device cookie,
  `bind` and `provide`, SDL text, and the avatar resolvers change no state of a
  request.
- **Hashing concurrency** (`concurrency-limit.ts`): one process, with no `await`
  between the read of its counter and the write it decides.
- **Events, devices, avatars**: told or written by one call, once.
- **Mail, kit, telemetry, validation, types, configuration, hashing, sealing, key
  rotation**: pure or read once.
- **Several user types**: another type's logins are keys of their own.
- **Timers that fire late** in a worker.

## Plan

Every safety property the provers can reach is proved. Next are the parts listed
under *Not modelled*, *timers that fire late* first: `leaseOf` leaves a margin for
them, and `HoldInv` would say how much of it they may take.
