# Verification of acme-shop-users-service

TLA+ models of the users service (Go, `internal/`), TLC runs over small
instances, and TLAPS proofs for all values of the constants. The models are
translated from the code. `PROJECT.json` maps every definition to the lines it
stands for and lists hazards, findings, runs and theorems.

The repository as committed does not compile (error variables declared twice in
`auth/errors.go` and `auth/jwt.go`, `session.go`, `password.go`; `LoginRequest`
declared twice in `service`; an undeclared variable at `config.go:191`). The
models take the meaning of each function as written; no property depends on how
these declarations are repaired.

## The system

The service keeps three kinds of state: rows of PostgreSQL tables, keys of
Redis, and tokens in the hands of clients. Nothing is kept in the process, and
no transaction or lock spans two statements or commands, except in the
migrator. Every hard behaviour comes from that: a request is a sequence of
atomic remote steps, and what it read in one may be out of date in the next.

| Component | State | Operations | Hard behaviour |
|---|---|---|---|
| `SessionService` (`auth/session.go`) | `session:<id>` keys with TTL, `user_sessions:<user>` sets without | Create, Get, Delete, DeleteAllForUser, ListForUser, Refresh, Revoke | GET then SET of whole values; two structures updated apart; expiry kept twice (ExpiresAt and TTL); dropped errors |
| `UserService` (`service/user_service.go`), cache (`repository/cache.go`), store (`repository/postgres.go`) | `users` rows; `user:<id>` keys | GetUser, CreateUser, UpdateUser, DeleteUser, ListUsers | cache-aside: fills race with invalidations; a lost invalidation |
| Passwords (`auth/password.go`, login, `ChangePassword`, `migrations/password_migration.go`) | columns `password_hash`, `password_hash_type` | create, login with upgrade, change, forced reset, type validation | read-check-write without compare; two columns written apart |
| `AuthService` (`service/auth_service.go`), `JWTService` (`auth/jwt.go`) | tokens at clients (nothing stored) | Login, RefreshToken, ValidateToken, Logout, LogoutAll | tokens cannot be recalled; checks and effects far apart |
| `Migrator` (`migrations/migrations.go`) | `schema_migrations`, the schema | Run | concurrent instances, crash between statements, truncated reads |
| `CachedUserStore` (`repository/cached_store.go`) | the same rows and keys | GetByID, Create, Update, Delete, UpdateLastLogin, and the cache's InvalidatePattern | invalidates before it writes, caches again after; constructed nowhere |
| Listing (`List` of `postgres.go`, `ListUsers`, `handlers/users.go`) | none; a client's walk through the pages | a COUNT and a SELECT with LIMIT and OFFSET | two statements per page, a listing that moves between pages, rows that break off unnoticed, hand-counted placeholders |
| Server and main (`cmd/users/main.go`, `internal/server`) | the listener, the pool of database connections | start, signal, Shutdown with a deadline | waiting for a connection; requests cut off; statements that hang |
| Handlers, configuration | none | decoding, wiring | none of their own |
| `service/validation.go`, `auth/legacy_sso.go` | none | unused or stubs | none |

Interactions: handlers call the two services. `AuthService` calls
`SessionService`, `PasswordService`, `JWTService` and reads the users table
directly (never through the cache). `UserService` owns the cache. `ListUsers` goes
past it to the table. Every statement of every request takes its connection from one
pool; main closes it when Shutdown has returned, and the closing waits for the statements
that have begun. `PasswordMigrator`, `Migrator` and
`CachedUserStore` are built by nothing in `main.go`; the models include the first two as
processes beside the service, and the third as the store that requests use.

What makes each component correct:

- sessions: an ended session stays ended; a key lives as long as its session and
  not for ever; the per-user set leads to every usable session; logout-all ends
  them all; it is accepted for a user only through a login of his, or a refresh that
  saw it accepted;
- cache: what it serves is what the table holds, or somebody is about to correct
  it; staleness ends;
- passwords: the stored hash is the one last acknowledged to the user; who writes a
  new one has been given the password it replaces; legacy hashes only become better, and
  none of them is counted as bcrypt; a reset hits legacy hashes only, and lasts;
- both caches: a read answers with what the user is or once was, never with anything
  else, and a deleted user comes back only from copies made before;
- listings: a walk through the pages gets everyone who was there all along, and
  nobody twice, but for the users a change moved over the edge of a page;
- server: as long as PostgreSQL answers, a request never waits for ever for a
  connection, and a signal ends the process;
- authentication: a user who is gone gets no new token, and his access ends;
- migrations: each once, in order, all when Run says so.

## Modules

| Module | Models | Proofs |
|---|---|---|
| `SessionRegister` | the abstract specification of whom sessions are accepted for | |
| `Sessions` (implements `SessionRegister`) | `SessionService` | `SessionsProofs` |
| `MCSessions` | `Sessions` with symmetry for TLC | |
| `UserTable` | the `users` table as profile, active flag and deletion mark | `UserTableProofs` |
| `UserDirectory` | the abstract specification of a cached users service | |
| `UserService` (extends `UserTable`, implements `UserDirectory`) | `UserService` and `RedisUserCache` | `UserServiceProofs` (extends `UserTableProofs`) |
| `CachedStore` (extends `UserTable`, implements `UserDirectory`) | `CachedUserStore`, `InvalidatePattern` | `CachedStoreProofs` (extends `UserTableProofs`) |
| `Listing` | `List` and clients that page through it | `ListingProofs` |
| `Server` (extends `Listing`) | main, `Server`, the database/sql pool | `ListingProofs` |
| `Credentials` | the password columns and all their writers | `CredentialsProofs` |
| `AuthFlow` (extends `Sessions`) | `AuthService`, tokens, `AuthMiddleware` | `AuthFlowProofs` |
| `Migrator` | `Migrator.Run` | `MigratorProofs` |

Conventions shared by all: `Procs` are request-serving goroutines (instances, in
`Migrator`); the record of a goroutine (`req`, `run`) holds what its local variables
hold between two remote steps and `Idle` means that it serves no request. Each
action is one SQL statement or one Redis command with the local computation that
follows it. A definition headed "Mutant" is no part of the specification: it is a
broken form of the definition below it, there to show that a property notices.
`Fail` is a command that fails, a goroutine that dies or a
request cut off at shutdown; whether the command had taken effect is covered,
because the action that has the effect may come just before `Fail`. Where the code
drops an error and goes on, the action itself has a disjunct without the effect.

### Sessions

`store` is the `session:` keys, with `left` = ExpiresAt minus now and `ttl` what Redis
still gives the key; `tracked` the sets. `Tick` lets both run down together with
the copies requests hold. `left` stops at -1, below which no test in the code can tell two
values apart. `RevokeTTL` models go-redis: a duration that is not positive
means a SET without expiry. `SessionIDs` is what `generateSessionID` returns. Its
intent is a fresh id per login, its code (`letters[i%len(letters)]`) returns one
string for ever. The model issues any id at any time, so a run with one id is the code
as written, and runs with two include those behaviours beside the intended ones.
`fate` is history: it remembers that an id was ended by Delete, Revoke or
logout-all, and whether a refresh had read the session then.

### SessionRegister

What is left of `SessionService` without keys, TTLs and commands: `holder` says for
whom Get accepts an id, `opening` and `extending` are the SETs under way that can make one
accepted, `Create`'s and `Refresh`'s. `Open` and `Extend` may bring a session (back),
every other step only loses one. That a Refresh brings back a session ended meanwhile
is a behaviour of the register, since the code has it; when it may is the matter of
`EndedStaysEnded`. What the register excludes is the rest: a Revoke
that rewrites a session Delete has just removed, or an expiry, listing, logout-all or failure
that makes one accepted, or accepted for somebody else. In `Sessions`, `Revoke` writes a
whole value too, and implements the register because the value it writes is not active.

### UserTable and UserService

A row's `profile` stands for names and preferences. `raced` is history: users whose
row was written while a GetUser held an older copy, or whose writer failed
before invalidating. An entry leaves `raced` when the key is dropped and nobody holds
an older copy. `EnableUserCache` is on (the default). Left out: the timestamps.
UpdateLastLogin and the password writes change `last_login_at` and `updated_at`
without invalidating, so cached users show old values; nothing decides by them.
With `REDIS_TTL=0` go-redis stores entries without expiry and `Converges`
fails; the default is 15 minutes.

### UserDirectory

What both caching layers promise, with the order of writes, invalidations and fills
left out: `current` is what a user is (not yet created, a view, or gone), `servable`
the older views a read may still be answered with. A read copies the current view
and nothing else; copies only go, unless a read makes one. Both implementations map
`current` to `Standing` of the row and `servable` to `Copies`: the entry, and what
requests are about to cache. A SELECT that finds deleted rows, or caching the request
instead of the row, would break it; staleness alone does not, nor a write whose
invalidation never comes. How long stale copies last is the matter of
`HitsFreshUnlessRaced`, `StaleOnlyIfRaced` and `Converges`.

### CachedStore

`UserService` writes and then invalidates; `CachedUserStore` invalidates, writes and
caches what it reads back. The model shows what that order is worth. An old user put
back between the invalidation and the UPDATE, or left there by a failed
invalidation, is overwritten by the update's own SET: `Correcting` says that this is
due. What nobody corrects but the TTL is in `raced`: a copy in flight when the row
changed (two updates that re-cache in the other order among them), an entry there
when Delete or UpdateLastLogin, which cache nothing afterwards, write the row, and an
updater that fails. `profile` here includes the last login, since
UpdateLastLogin is a write of this store. `PurgeScan` meets the keys of a pattern one
by one and `PurgeDel` deletes what was met, so keys that appear meanwhile stay.

`cached_store.go:89` says of the order "Invalidate before update to prevent stale
reads". It prevents less than that: a read between the invalidation and the UPDATE caches
the old user again, and every read is stale until the update's own SET. That is what
`Correcting` allows for, and for Delete and UpdateLastLogin, which have no such SET,
only the TTL ends it.

### Listing

`rank[u]` is the place of u in `ORDER BY created_at DESC` among the users a filter
selects, 0 for those it does not. `Enter`, `Leave` and `Swap` move ranks: creations
(clocks of several instances make any place possible), deletions and updates of filtered
columns, and rows with equal `created_at`. A client asks for pages until it
has `Meta.Total` users behind it (`by = "total"`) or until a page comes back short
(`by = "short"`). `Select` answers with the rows at the places LIMIT and OFFSET name
then, which are computed from the argument list as the code builds it (`WhereArgs`,
`ArgNum`, `Window`) for every set of conditions; with `Faulty` the rows may break off
anywhere, because nobody asks `rows.Err()`.

`due`, `shown` and `kept` are history and carry the properties: `due` holds whom the client
ought to get yet, `shown` whom it ought not to see again. A change of the table takes out of
them exactly the users it moves over an edge (`Earlier`, `Later`), so that
`NoneMissed` and `NoneRepeated` say: only those, one per change, are ever missed or
repeated. Each of the exceptions was tried without and is needed. A limit of 0
or below, which the handler lets through (the first gives empty pages, the second an
error of PostgreSQL), is outside the model.

### Server

Extends `Listing` and runs its actions. `process` is its life: a signal makes it drain;
Shutdown returns when all is served (`Drained`) or its 30 seconds are over (`Deadline`); then
main closes the pool and returns. A deadline does not end the requests that outlast
it. They run on beside the closing, which is documented to wait for the statements that
have begun, while whoever wants another connection is refused one (`Refused`).
`MainReturns` may happen at any time then, so that safety does not rest on the
waiting; `Closed` is the case that fairness counts on, that nothing holds the closing up. `Exit`
cuts off what is in flight, at the end of main as in a `Crash`. `busy` are other requests
with a statement under way. `ConnFree` is the pool's limit: QueryRow's Scan gives the
COUNT's connection back, the SELECT's is held until List returns and closes its rows, and
a statement that hangs keeps its own. Page requests wait at `ListStep` until there is one.

### Credentials

A hash is an algorithm and the password it came from. `lapsed` says that the last
login is before ForcePasswordReset's cutoff. Initial rows are accounts from before migration
4, whose backfill set the type from the hash. Flags are constants. ForcePasswordReset,
ValidateHashType and MigrateUserPassword are written in the repository but called by nothing
in it; the first two are modelled as an operator would run them, the third
as its comment wants it called, after a legacy password was checked. It asks for no flag and
for no length of the password, and runs when `MigratorCalled`.

Three variables are history. `acked` is the password the user was last told is theirs (by
creation or ChangePassword), or none after a reset. `overtaken` are the requests between their
check of a password and their write (`Writers`) whose check is void, because a change,
a reset or an overtaken upgrade has written another password since. `undone` are the users
whose password an overtaken upgrade has written over, until the next change or
reset. With them the properties say what is left of read-check-write without a compare:

- `ChecksHold`: whoever is about to write has been given the stored password, or was
  overtaken. Two upgrades of one hash do not make each other's checks void.
- `CredentialsAsAcknowledged`: outside `undone` the stored password is the acknowledged one.
  An overtaken change of password is not an exception: its user is told that the new
  password is theirs, and it is, a reset before it notwithstanding.
- `ResetHolds`: an erased password stays erased once no writer is left that checked before
  the reset. There is no way back in the code: ChangePassword wants the old
  password, and no reset operation exists.
- `UpgradedAtLogin`: a v2 login with a legacy hash leaves none, if migration is on.
  `config.go:83-84` says "MD5/SHA1 hashes are upgraded to bcrypt on successful login". The code
  does less, in two cases the property names: a password under 8 or over 72 bytes, which
  the v1 API let in, is refused by `HashPassword` at every login, and its hash stays legacy
  until it is changed (`auth_service.go:87`), and an error of the UPDATE is dropped, which
  leaves the upgrade to the next login (`:89`).
- `CountedBcryptIsStrong` bounds the harm of the two columns written apart: the type may
  call a bcrypt hash legacy (`credentials_reset`), never a legacy hash bcrypt.

### AuthFlow

Extends `Sessions` and runs its actions, conjoined with what AuthService does
around them: `call` is the AuthService part of a request, `token[u][id]` the time the
newest token of user u for session id has left (an older one expires
sooner and is accepted under the same conditions). `Perform` is a protected request after AuthMiddleware let it
through: the check and the act are separate steps. An expired token makes
RefreshToken panic on nil claims (`auth_service.go:220`), which gin recovers: the request
changes nothing. Tokens of the v1 API carry no session, so logging out does not
affect them; they are not in the model. Password checks are in `Credentials`. `DeletedGetNoTokens`
is the safety behind `DeletedUserLosesAccess`: after a deletion only logins that had
looked at the users table before (`Entering`) still end with a token.

### Migrator

`recorded` is `schema_migrations`, `applied` counts commits of each migration's SQL.
`Read` may return fewer rows than there are, since `rows.Err()` is not checked. From
PostgreSQL the model takes atomic transactions, the primary key, and that
two transactions executing the same DDL wait for each other.

## Runs

All with deadlock checking on, `-workers 2`.

| Run | Instance | States | Shows |
|---|---|---|---|
| `sessions_concurrent` | 1 user, 2 ids, 2 goroutines, TTL 2, faults, symmetric ids and goroutines | 359,921 | `EndedStaysEnded`, `KeyOutlivesSession`, `ImplementsRegister` (refinement of `SessionRegister`) |
| `sessions_serial` | 2 users, 2 ids, 1 goroutine, TTL 2, no faults, fair | 68,896 | `TrackedWhenQuiet`, `LogoutAllEndsAll`, `AbandonedSessionsGo`, `ListedSetsShrink` |
| `sessions_lost_revoke` | 1 id, 2 goroutines | | `EndedIsFinal` is violated |
| `sessions_shared_id` | 2 users, 1 id, 1 goroutine | | `ListedAreOwn` is violated |
| `user_service` | 1 user, 2 profiles, 3 goroutines, faults, fair | 18,326 | `HitsFreshUnlessRaced`, `Converges`, `ImplementsDirectory` (refinement of `UserDirectory`) |
| `cached_store` | the same | 98,904 | `StaleOnlyIfRaced`, `Converges`, `ImplementsDirectory` |
| `server` | 3 users, 1 client, pages of 2, 1 other request, 1 connection, faults, fair | 33,528 | `NoneMissed`, `NoneRepeated`, `Answered`, `ShutdownEnds` |
| `credentials` | 1 user, 3 passwords (one unhashable), 2 goroutines, all flags on, `MigratorCalled`, faults | 102,967 | `CredentialsAsAcknowledged`, `ChecksHold`, `UpgradedAtLogin`, `CountedBcryptIsStrong`, `ResetHolds` |
| `credentials_lost_change` | the same, no faults, not `MigratorCalled` | | `ChangedPasswordIsStored` is violated |
| `credentials_reset` | the same, 1 goroutine | | `ResetsOnlyLegacy` is violated |
| `auth_flow` | 1 user, 1 id, 2 goroutines, TTLs 2, faults, fair | 79,426 | `DeletedUserLosesAccess`, `DeletedGetNoTokens`, `AbandonedSessionsGo` |
| `migrations` | 3 migrations, 3 instances, faults | 31,758 | `AppliedOnce`, `InOrder`, `FinishedMeansMigrated` |

Why the bounds are enough. Keys, rows and sets of different users and ids are never
touched by one command (but for ForcePasswordReset and `PurgeDel`, which treat each row or
key alike), so a race needs one user and one id; the second id is there for
walks over a set, the second user for what must not cross over. Two
goroutines are a race; the cache needs three (a fill, a writer, and a second
writer or fill between them). A TTL of 2 has a time before, at and
after expiry and lets two clocks differ by one. Three migrations have one before, one
under way and one after. Three users on pages of two make a full page, a short
one and one that a single change empties; walks do not see each other, so one client
is enough, and one connection is the pool at its limit, with another request to hold
it. `ImplementsRegister` was also run with two users on one id (56,821 states), where a
session changes hands. `NoneMissed` and `NoneRepeated` were also run with pages of one. The theorems drop all these bounds for the safety
properties.

The four violations are findings, each against a sentence of the repository; the two
safety properties next to them (`EndedStaysEnded`, `CredentialsAsAcknowledged`) say
exactly what remains true, with the race as the only exception. Two theorems bound the
findings from the other side: `EndedIsFinal` holds of one goroutine, and
`ChangedPasswordIsStored` of any number with password migration off and nothing that calls
MigrateUserPassword.

- `sessions_lost_revoke`: Refresh reads s; Revoke (or Delete) ends s; Refresh writes its
  active copy back.
- `sessions_shared_id`: two users log in; both sets hold the one id; the first
  user's listing shows the second user's session.
- `credentials_lost_change`: a login checks the old MD5 hash; the user changes the
  password; the login writes the old password's bcrypt hash.
- `credentials_reset`: a user with an MD5 hash, whose last login is before the cutoff,
  changes the password; the hash is bcrypt, `password_hash_type` stays `md5`;
  ForcePasswordReset erases the bcrypt hash. An upgrade at login leaves the type the same
  way, and its hash is erased when that login has slipped behind a later cutoff.

`TrackedWhenQuiet` and `LogoutAllEndsAll` hold of operations one at a time only. With
a second goroutine in `SessionsSerial.cfg` TLC finds them violated: logout-all reads
the members of the set; a login creates a session and adds it; logout-all deletes the
set. A later logout-all does not find the session. The same happens when a listing
takes out an id whose session a login has meanwhile made anew. Such sessions are
ended by their TTL, which `AbandonedSessionsGo` checks under concurrency and
failures in `auth_flow`.

### Fairness

Liveness is claimed only where the code or its platform justifies it.
`Sessions`, `UserService`, `CachedStore`, `AuthFlow`: weak fairness of the clock or of key
expiry (Redis removes keys whose TTL is over) and of each goroutine's next step,
which may be a failure: the Go scheduler runs a goroutine that has begun, and a call
to Redis or PostgreSQL returns or fails. No fairness for the arrival of
requests. `AbandonedSessionsGo`
and `Converges` assume in the formula that creations and refreshes, or
writes, stop; `ListedSetsShrink` that logins and refreshes stop and the user's listings do not;
`DeletedUserLosesAccess` assumes nothing of clients, who may refresh for ever.

`Server`: strong fairness of `ListStep`, because database/sql hands a connection that
comes back to a request that waits, before anyone who comes later, so that with finitely many waiting
each is served if connections come back again and again (which of them first depends on its version
and is left open); weak fairness of `Refused`, since a closed pool
answers at once, of Shutdown's two returns, since the deadline is a timer, and of `Closed`.
Nothing is assumed of PostgreSQL: that it answers is the premise `Answers` of `Answered` and of
`ShutdownEnds`. Without it `ShutdownEnds` is false: the closing of the pool may wait for a statement
that hangs. Nothing makes a client walk on, or a supervisor restart the process.

## Proofs

Each `*Proofs` module proves, for every value of the constants that satisfies the
named assumptions (`SessionTTL`, `TokenTTL`, `Limit` and `MaxOpenConns` positive, `Last` natural, flags Boolean, "no
value" constants distinct from values):

- `SessionsProofs`: `Inv` = `TypeOK` /\ `EndedNotRefreshing` /\ `KeyOutlivesSession`.
  `EndedStaysEnded` alone is not inductive: a Refresh in flight could bring an ended session
  back, so the invariant adds that no goroutine is about to write a session whose
  fate is "ended", which holds because `End` notes such goroutines and
  RefreshGet needs a usable session. From it: `TypeCorrect`, `EndedSessionsStayEnded`,
  `KeysOutliveSessions`. For a single goroutine g without faults, a second invariant
  `Alone(g)` says where in its operation a usable session may be outside its set (before
  Create's SADD), that a session about to be refreshed is in it, and that logout-all has
  every usable session of its user still to do: `AloneTracked`, `AloneLogoutAllEnds`. With faults,
  `AloneEndedIsFinal`: a single goroutine never leaves the fate "raced".
  `RegisterImplemented` is the refinement of `SessionRegister`, action by action under the
  mapping of `Register`: a SET of Create is an `Open`, a SET of Refresh an `Extend`, its GET
  a `Look`, and every other step a `Lose`, for which each must be shown to make no id
  accepted that was not. No history variable is needed; the invariant gives the types.
- `UserTableProofs`: what each statement on the table does to a row's `Standing`, for
  the two modules that extend it.
- `UserServiceProofs`: `HitsFreshUnlessRaced` speaks only of what is cached, so `Inv` adds
  `CopiesFresh` (outside `raced`, the copy a goroutine is about to cache is the current row
  of a live user) and `NothingBeforeInsert` (nothing of a user is cached or in flight
  before its row exists). `TypeCorrect`, `CacheHitsFresh`, and the refinement
  `DirectoryImplemented`: every action is a step of `UserDirectory` or a stutter, and
  only types are needed for it.
- `CachedStoreProofs`: the same strengthenings for `StaleOnlyIfRaced`; its hard case is a
  correction that is due while other requests take copies. `TypeCorrect`,
  `EntriesFresh`, `DirectoryImplemented`.
- `ListingProofs`: `Inv` adds that ranks are distinct and bounded (`RanksOK`) and, of
  every walk, that the users due lie ahead of its offset and those shown behind it, and
  what COUNT and the page under way say of the last page (`Placed`). One lemma
  (`ChangeStep`) covers all changes of the table: a change whose exceptions the walks
  noted keeps everybody on his side of the edges. `TypeCorrect`, `WalksMissNone`,
  `WalksRepeatNone`, from `WindowRight`, which says that LIMIT and OFFSET get their
  own arguments whatever conditions come first. For `Server`,
  whose actions are those of `Listing` with more around them, the lemma `ServerIsListing`
  carries the safety of walks over (`ServerWalksSafe`); and `ServerTypeCorrect`.
- `CredentialsProofs`: `RequestOK` adds, of every request in flight, that its user has a
  row, and that a login that must have upgraded has seen the legacy hash gone; `CheckOK`
  that a writer outside `overtaken` has checked the stored password. The two histories need each
  other: an upgrade that was not overtaken writes the password that is stored, so it is the
  acknowledged one if that was. `TypeCorrect`, `AcknowledgedPasswordsKept`, `ChecksStayTrue`,
  `LoginsUpgrade`. For `BcryptCountIsTrue` a
  second invariant `TypesInv` adds the verdicts in flight: a ValidateHashType about
  to write "bcrypt" found such a hash, and no step makes a bcrypt hash legacy, so it is one still
  when the write comes (`StrongStep`). `ResetsHold` is proved step by step from the types
  and from each request's user having a row. `ChangesKeptWithoutMigration`: without
  EnablePasswordMigration and with nothing calling MigrateUserPassword no request upgrades, so
  `undone` stays empty and `ChangedPasswordIsStored` holds of any number of goroutines.
- `AuthFlowProofs`: `AuthFlow` is built from the actions of `Sessions`, so the lemma
  `AuthIsSessions` (`AuthSpec => Spec`, which needs only that requests carry users and ids,
  `CallsOK`) says nothing of the code; it carries theorems over: `LoggedOutTokensRefused`,
  `AuthKeysOutliveSessions`, `AuthKeepsRegister`, and the typing of sessions in `AuthTypeCorrect`.
  `NoTokensAfterDeletion` is proved of each action: an account that is deleted stays so, the
  users table is asked before a goroutine joins `Entering` or a refresh gets its
  token, and a token is given only to the id the goroutine was creating.
- `MigratorProofs`: `Inv` adds to the properties that everything behind an
  instance's index is recorded (`Reached`) and that one transaction at a time executes a
  migration and has not recorded it before its INSERT (`Exclusive`). `MigrationsAppliedOnce`,
  `MigrationsInOrder`, `FinishedRunsComplete`, `TypeCorrect`.

Every safety invariant, action property and refinement of the passing runs is proved.
Only model-checked are the liveness properties (`AbandonedSessionsGo`, `ListedSetsShrink`,
`Converges`, `DeletedUserLosesAccess`, `Answered`, `ShutdownEnds`): they rest on
fairness and ENABLED, which the prover does not reach. The violations are
counterexamples and have nothing to prove.

## Not modelled

- SQL text apart from the arguments of List, JSON encoding, logging, health checks,
  middleware, routing and the parsing of the environment: no state, no order to get wrong.
- The signature of tokens, v1 tokens and API keys: checks without state.
- HTTP read and write timeouts, and the Redis pool: a request they cut off is `Fail`.
- `NoOpUserCache`, `InMemoryUserCache`, `SetWithTTL`, `GetMultiple`,
  `validation.go` and `legacy_sso.go`: without a caller, or stubs.
- Timestamps shown to users, outside `CachedStore`.
- User ids are abstract. That every generated user id is the same string means in the code
  that the second account fails on the primary key, which `Insert` has.

`PROJECT.json` gives the reason for each component.

## Plan

Done, in this order: `Sessions` (what the whole service's access rests on), `UserTable` and
`UserService`, `Credentials`, `AuthFlow` composing `Sessions`, `Migrator`, and a proof
module for each; then `UserDirectory` with its two implementations, `CachedStore`,
`Listing` and `Server`, their proofs, and the safety of sessions one at a time;
`SessionRegister`, and proofs of the remaining action properties. Next:

1. Compose `AuthFlow` with `Credentials`, so that LoginUser's password check and the
   upgrade interleave with the session's creation.
2. The placeholder numbering of `Update` (`'0'+argNum`, one digit per placeholder),
   `DetectHashType` against `detectHashType`, and `parseName`, as functions over
   bounded inputs.
