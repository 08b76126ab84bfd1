# TLA+ models of go-onion-grpc-template

Models, model-checking runs and machine-checked proofs for the parts of this
repository that keep state or run concurrently: the JWKS cache, the
authentication interceptor, SampleService and UserService down to their tables,
the repository in memory that the scaffold generates, the lock that serialises
the integration tests, and the scaffold itself. Source paths below are relative
to the repository's root.

- `tlc -workers 2 -config <X>.cfg <MCModule>` checks one run,
- `tlapm <Module>Proofs.tla` checks the proofs of one module,
- `PROJECT.json` maps every definition to the lines it models, and lists the
  runs, the mutants, the hazards, the findings and the theorems.

## 1. The system

The server is a Connect/gRPC template in onion layers: handler, usecase,
repository interface, MySQL repository (gorm). `cmd/server/main.go` opens the
database, lets the registrars in `internal/adapter/grpc/*_routes.go` mount their
services on a mux, and serves h2c. net/http runs every request in a goroutine of
its own; what they share is the JWKS cache, the connection pool and the database.

| part | state | operations | what makes it hard | what makes it correct |
|---|---|---|---|---|
| JWKS cache, `internal/auth/jwks.go` | key table, `expires`, an RWMutex | `KeyFor`, `refresh` | concurrent fetches that nothing joins; a slow body stored after a newer one; a lock released on two branches; a URL that hangs | an answer is never older than a known bound; every call returns; the lock is never held across the HTTP exchange |
| Auth interceptor, `internal/adapter/grpc/auth_middleware.go` | environment, one cache per URL and ttl | allowlist, bypass, JWKS token, HS256 token | time passes and keys rotate inside one request; two tests of the same times; a `sub` that names nobody | nobody is served on a withdrawn key, on a token out of its time by more than the skew, or for no user |
| SampleService, handler + usecase + repository | `samples` table | Create, Get, List, Update, Delete | Update is two statements on two connections; lost commit acknowledgements; paging defaults; the server dies with a transaction open | each RPC takes effect once, at an instant of its call; an OK write is there; what is deleted stays deleted |
| UserService, `user_handler.go`, `user_repository.go` | `users`, `user_roles` | GetMe, UpdateMyProfile | profile and roles are read in two statements, and written in a third, while roles change and accounts are erased | the profile is the current one; the roles are some the account had during the call, never the token's; what is erased stays erased |
| Connection pool, `internal/infra/mysql/db.go` | 25 connections | one per statement | waiting for a connection while holding one, or while others hold all | each is given back; every request is answered |
| Generated in-memory repository, templates in `cmd/scaffold/main.go` | a map of pointers, a counter, a mutex | Create, Get, List, Update, Delete | a pointer into the map is returned and read after the unlock | it cannot be told from an atomic store; the mutex is never kept |
| Test harness, `util/testhelper` | lock files in `/tmp`, test database | `Lock`, `LoadTestFixtures`, cleanups | tests are OS processes; kills; cleanup order; a deadline | one test at a time in the database; the lock is never kept |
| Scaffold generator, `cmd/scaffold/main.go` and `make scaffold` | source files, generated code, `db/schema.sql` | eight or nine files and one table, in order, then `buf` and `go fmt` | stops half way; files that exist; half-written files; names derived in several places | a registrar is there only with all it registers; what the generated code imports is there |
| Scaffold removal, `Makefile` | the same | `scaffold-clean`, `clear` | must list what the generator writes; failures of `rm` are swallowed; nothing asks for a name | a retry is possible; the table is removed |
| Server, `cmd/server/main.go` | mux, listener, database handle | `init` registrars, `main` | no shutdown: it ends with requests under way | the database is left consistent, and serves the server started next |
| Logging interceptor | none | logs | not installed by any registrar | - |
| Generated code, CI, containers | - | - | - | - |

How they interact: the interceptor calls `KeyFor` from inside `jwt.Parse` (its
keyfunc) and then the handler with a principal in the context; the handlers call
the repositories through the usecases, which only forward; every repository
statement takes a connection from the one pool. The test harness and the server
never run together on one database. The generator writes code that the server's
registrars pick up when it is built next.

## 2. The modules

| module | models | abstracts |
|---|---|---|
| `KeySource` | what a caller of `KeyFor` may rely on (abstract specification) | cache, lock, HTTP |
| `JwksCache` | `KeyFor`, `refresh`, `sync.RWMutex`, the provider | bodies are sequences of key entries; decoding is "it does or does not" |
| `AuthInterceptor` | the interceptor, composed with `KeySource` (INSTANCE, steps shared) | tokens are records of claims; a signature is the key that verifies it |
| `ListParams` | `Sanitize` and the page of a list query | |
| `SampleStore` | what a repository promises the RPCs (abstract specification) | where the rows are kept |
| `SampleService` | the five RPCs, statement by statement; pool, shared with UserService; row locks; the server's death and restart | name, content and count are one value |
| `MemoryStore` | the generated in-memory repository and handlers, with a heap | the fields are one value |
| `UserService` | GetMe and UpdateMyProfile, statement by statement; administrators; the other services' connections | display name and picture are one value |
| `TestLock` | `Lock`, its cleanup, `LoadTestFixtures` across processes | the database holds "the rows of one test" |
| `ScaffoldNames` | the names derived from an entity's name, the field lists accepted, which protos parse | a name is the sequence of its words |
| `Scaffold` | generator, code generation, `go fmt` and removal over files and schema | a file is what it was made from and whether it is whole |
| `JwksCacheProofs`, `AuthInterceptorProofs`, `ListParamsProofs`, `SampleServiceProofs`, `MemoryStoreProofs`, `UserServiceProofs`, `TestLockProofs`, `ScaffoldProofs` | theorems about the module they are named for | |
| `MC*` | constants of the finite instances | |

Two abstract specifications are implemented, `KeySource` by `JwksCache`, and
`SampleStore` by `SampleService` and by `MemoryStore`; all three refinements are
checked and proved.
Definitions under a comment that begins with "Mistake:" are not part of the
models: they are plausible slips in the code, each put in the place of the
definition it follows to see that the properties notice.

### JwksCache

A caller is a goroutine inside `KeyFor`; `pc[c]` is its line. `keys` and
`expires` are the fields of `JWKSCache`, `mu` its RWMutex: a writer that has
announced itself (`Lock`) keeps new readers out, and enters (`Store`) when the
readers inside have left. `Hit`, `Miss`, `Get`, `Receive`, `Fail`, `Store`,
`Relook` are the sections of the code between two blocking points. `Answer` is
the moment at which the server composes a body, so that a body may be old when it
is read. `KeysOf` builds the map as `refresh` does: entries that are not RSA or do
not decode are skipped, a later entry with the same `kid` overwrites an earlier
one. The HTTP status is ignored, as in the code: an error page that is a JSON
object is a body without keys. `Rotate` and `Tick` are the provider and the clock.

`Lag` bounds the time between the end of a fetch and its store. The code has no
such bound: a goroutine may be descheduled for ever between the two. Freshness
cannot be stated without one, so it is a parameter, in the guard of `Tick`, and
every bound on age carries it: an answer from memory is at most
`TTL + Timeout + Lag - 1` old (`HitFresh`), one after a fetch at most
`Timeout + Lag` older than the call's own request (`FetchFresh`). The second is
not 0, since another caller's older body may replace this caller's between its
store and its second look. `KeySource` says the same without cache and lock.

### AuthInterceptor

`env` is the environment the process was started with; it is chosen in `Init` and
never changes. One action per branch of the interceptor, in the code's order:
`Allow`, `Bypass`, then `AskKey`/`ParseJwks`/`CheckClaims` or `ParseHmac`. While a
request waits in the keyfunc the clock moves and keys rotate. Two tests of the
times are kept apart, as in the code: `Timely` is golang-jwt's, without leeway,
`StandardClaims` is `verifyStandardClaims` with `AUTH_CLOCK_SKEW`. `Handle` is the
handler's own test of the principal. `TokenInTime` allows a token to be out of its
times by the skew, as AUTH.md does; the code refuses it earlier, which is what
`SkewAbsorbed` is about, and whether that is mended makes no difference to
`TokenInTime`. `ParseHmac` leaves out the branch's own test of `exp`, which refuses
nothing `jwt.Parse` has let pass.

### SampleService and SampleStore

A worker is the goroutine of an RPC. A statement waits for a connection
(`queued`), runs (`exec`) and, for a write, commits (`commit`), since gorm gives
each write a transaction. `Update` is UPDATE, COMMIT, and then SELECT on whatever
connection is free. `Insert` takes an AUTO_INCREMENT id that is never given back.
A write holds its row's lock until it commits. `Fail` is every error that rolls
back; `CommitLost` is the one that does not: the commit took effect, its
acknowledgement was lost, and the RPC reports Internal. `touched[w]` and `dead`
are history variables: no guard reads them. The requests of UserService take
connections from the same pool (`OtherTakes`, `OtherGives`); `Others` of them run at
a time.

An assumption on the database: when an RPC of a live server reports an error, its
transaction has ended, by being rolled back (`Fail`) or applied (`CommitLost`). A
COMMIT sent over a connection that breaks may be applied by MySQL a little after the
driver has reported the error; the model allows that only for a server that died
(`Settle`).

`Start` is `main` once the database has answered its ping. `Crash` is the end of
the process, at any moment: there is no shutdown in the code. What was waiting or
reading is gone; a transaction that was open becomes an `orphan`, which MySQL ends
(`Settle`) by rolling it back or, when the COMMIT had been sent, by committing it,
perhaps after the next server has begun to serve. Until then it keeps its lock.

`SampleStore` says what all this amounts to: an operation takes effect at one
instant between the call and the reply, or not at all, and never twice. A list query
is a page of the default size whatever `Sanitize` makes of its parameters (`IsPage`).
Two things it promises less firmly, because the code does: an update may report its
row at a moment after its effect (`Overwrite`, `Report`), and an error, or the death
of the server, leaves open whether a write took effect (`Fail`, `Settle`). Under the
mapping, `commit` is the instant of a write, `exec` that of a read, and an orphan is a
call that is `lost`.

### MemoryStore

`heap` are the objects, `data` the map of pointers, `out[w]` the pointer a method
returned. A method is taken apart at every access to the map or to an object
(`NextId`, `Find`, `Copy`, `Put`, `Remove`, `List`), under the mutex, and `Render` is
`toProto`, after it. `List` goes through the map in any order, as Go does. Objects
nothing reaches are collected, so that addresses can be used again. The model is a
refinement of `SampleStore` because `Update` stores a copy and leaves the old object
as it is: the object a handler still reads is never written again.

### UserService

`users` and `granted` are the tables, by user and by role name. `SelectUser` and
`SelectRoles` are the two statements of `FindByID`, `Update` and `Commit` that of
`UpdateProfile`, which goes on to `FindByID`. The environment is whoever
administers accounts (`Grant`, `Revoke`, `Erase`, which cascades) and the other
services' connections (`OtherTakes`, `OtherGives`). An account that is not there is
answered OK with no user, as in the code. `Removed` are the accounts whose
`deleted_at` or `status` say that they are not to be used: no statement looks, so no
action does, and `RemovedNotServed` shows what follows. `touched`, `ever` and
`always` are history variables.

### TestLock

A test is a process. `slot[i]` is who holds the flock of file i (`Slots`, of which
the code has one). The cleanups run last in,
first out, so `closing` comes before `unlock`. `Kill` drops the flock at once, as
the kernel does, and may leave a statement in the server that runs later
(`OrphanRuns`): the lock cannot prevent that, and `FixturesIntact` says so.

### Scaffold and ScaffoldNames

`files[kind, name]` and `schema[table]` hold what they were made from: an entity, a
field list, and whether the write was completed. `job` is the running command and
the index of its next part; `Generated` and `Removed` are the parts in the order of
`main` and of the arguments of `rm`. A name is the sequence of its words, so that
the places where the code derives one (`Lower`, lowerCamel, for the generator's
files; `Snake` for the Makefile's and for `go_package`) can be seen to agree on
one-word entities only.

The last two parts are those of `make scaffold`. `gen` is `buf generate`, which
compiles every proto or none (`Compiles`): a proto with two fields of one name,
which `parseFields` lets pass when they differ before they are put into snake_case,
does not parse. `fmt` is `go fmt ./...`, which looks at the files of all entities: it
fails on one that an earlier command left half written (`Format`), if what was
written of it does not happen to parse.

`Remove` is one argument of `rm -rf`. It may leave any file it was to remove, go on,
and end well, since the recipe ends in `|| true`; `left` are the files it has left.
`Clear` also starts `scaffold-clean` without a name, for which nothing asks there: it
removes `proto/` and `gen/` of every entity and nothing else. `Stop` is a kill, or an
error of the file system, anywhere in `make scaffold`: a file may be cut off, any of
the tables that `os.WriteFile` had emptied `db/schema.sql` of may be missing and one
cut off (`CutTables`), and code may be half generated. `Kill` stops the removal.
`faults` counts the stops and the files left, which `MaxFaults` bounds.

Four history variables say what the properties are about or must exempt; no guard
reads them. `cleared` are the entities cleared to the end and not scaffolded since.
`bare` are the entities whose registrar has stayed when `rm` removed another of their
files; it is `rm`'s doing alone, since the generator writes the registrar last.
`pending` are those whose code is still to be generated, or was half generated, since
`buf` last ended well. `left` is above. With them:

- `RoutesComplete`: a registrar is only there with every file it needs, whole and
  from the model it is made from, the generated code included once `buf` has ended
  well, unless its entity is `bare`.
- `RetryAfterClear`: after a clear that went to its end the generator stops at no
  existing file but one that `rm` could not remove.
- `ImportsResolve`: when `make scaffold` ends well, the packages of generated code its
  files import (`Imported`) are among those there are (`Exported`), and the code is
  the one of its own proto. It does not say that the server can be built: another
  entity's file may be half written, if `go fmt` takes it, and an accepted field
  `created_at` makes a Go struct with two fields `CreatedAt`, which is not modelled.

## 3. The runs

| run | instance | distinct states |
|---|---|---|
| `jwks` | 2 callers, 1 key id, 3 bodies, TTL 1, Timeout 1, Lag 0, clock to 3; fairness | 268 196 |
| `auth` | 1 caller, 5 environments, 11 requests, 3 key sets, clock to 6; fairness | 224 736 |
| `auth_skew` | as `auth`; finds a violation | - |
| `sample` | 2 workers and 1 request of UserService, 3 contents (one too long), 2 ids, 2 connections; fairness | 645 181 |
| `memory` | 2 workers, 2 contents, 2 ids, 4 addresses; fairness | 228 585 |
| `users` | 2 workers, 1 account, 1 role, 3 profiles (one too long), 2 connections; fairness | 157 591 |
| `users_removed` | 1 worker, 1 account, logically deleted; finds a violation | - |
| `testlock` | 3 tests, 1 lock file, deadline 1; fairness | 56 843 |
| `scaffold` | 1 entity, 6 field lists (2 accepted, one of them with a proto that does not parse), 3 faults | 1 252 921 |
| `scaffold_clear` | 1 entity; finds a violation | - |
| `scaffold_table` | 2 entities, one table name a prefix of the other's; finds a violation | - |
| `scaffold_imports` | 1 entity of two words; finds a violation | - |

Every passing run checks deadlock, except `testlock` (tests end). No run declares
a symmetry: all but `scaffold` check liveness.

Bounds, and why they are enough.

- Two callers suffice for every race in the cache: a store by another caller
  between one's store and second look, a slow older body over a newer one, reader
  against writer, writer against writer. The three bodies are a key set, an error
  page that parses, and a set with a duplicate key id, an EC key and a key that
  does not decode. The clock to 3 lets an entry be stored, expire and be fetched
  again. Larger ages, a `Lag`, and several key ids are left to the proofs.
- Two workers suffice for a write between the two statements of an update, for two
  writes on one row, and for both wanting one row of a dead server. `PoolSize` is 25
  in the code; with 2, one worker and another service hold both while the other worker
  waits (in `sample` and in `users`), so that a request waits for the last connection,
  and one that kept a connection while it waits for the next would hang.
  Two ids against a page of one row (`DefaultLimit`; 50 in the code) give the case
  "one row more than a page". `MaxId` is the last id; a further INSERT fails
  (`Refused`), and `MemoryStore`, whose counter has no end, admits no further Create.
- Four addresses are enough for two rows and a pointer in each worker's hands.
- One account and one role are enough in `users`: nothing relates two of them. Its
  tokens claim every role, so that a reply that took the token's word would show.
- One caller is enough in `auth`: requests share nothing but the key source,
  whose contract already allows any interference. The clock to 6 spans arrival,
  rotation, expiry and an old cached key.
- Three tests on one file: one holds, one waits, one is killed. `MutexTimeout` 1
  lets a deadline pass while another test holds the file.
- One entity with two accepted field lists is enough for mixing two models. Three
  faults allow a stop of the generator, a file `rm` leaves and a stop of the removal in
  one history. What several entities do to each other, through `buf`, `go fmt`,
  `db/schema.sql` and the removal without a name, is in the theorems, which are about
  any number of them and any `MaxFaults`, and, for two, in `scaffold_table`.

The properties, in words.

- `jwks`: `HitFresh`, `FetchFresh` (how old an answer is), `LockDiscipline` (who holds
  the mutex where), `CallsReturn`, `ImplementsKeySource`.
- `auth`: `KeyWithdrawn`, `TokenInTime`, `UserIsNamed` (nobody is served on a key
  withdrawn too long ago, out of the token's time by more than the skew, or as
  nobody), `RequestsAnswered`.
- `sample`: `RepliesCurrent` (a reply agrees with the table unless somebody else's
  write came in between, so the second statement of an update never shows an older
  row), `WritesStick`, `NoResurrection`, `ConnsAccounted`, `CallsAnswered`,
  `ImplementsStore`. `memory`: the last two.
- `users`: `ProfileCurrent`, `RolesDuringCall`, `ConnsAccounted`, `ErasedForGood`,
  `CallsAnswered`.
- `testlock`: `SlotsAccounted`, `AtMostMaxConcurrency`, `FixturesIntact`, `LockEnds`.
- `scaffold`: `RoutesComplete`, `RetryAfterClear`, `ImportsResolve`.
- Each module has one type invariant, `TypeOK`.

### Fairness

- `JwksCache`: a goroutine that can run is scheduled (WF). A request ends, by a
  body or an error, because `http.Client.Timeout` ends it (WF on
  `Receive \/ Fail`). The RWMutex steps are SF: `sync.RWMutex` admits waiting
  readers when the writer ahead of them unlocks, and queues writers. Nothing is
  assumed of the server, the clock or new calls.
- `SampleService`, `UserService`: one SF per worker on its `Progress`. It holds of
  taking a connection, since database/sql serves waiters in order, and of a write's
  lock, since InnoDB grants in order; running statements and commits end. No failure
  is assumed except the refusal of a value that does not fit. The server need not
  come back after it died, and `CallsAnswered` allows for its death: a request is
  again and again not under way, since it was answered, failed, or died with the
  server. Each of the two modules assumes that the other service gives its
  connections back (WF on `OtherGives`). The assumption is about single statements,
  which end by themselves, not about requests: a statement that runs has its
  connection and waits for no other, so the two do not rest on each other in a circle.
- `MemoryStore`: WF on a goroutine that is not blocked, SF on the mutex, which
  `sync.Mutex` hands to whoever has waited for a millisecond.
- `AuthInterceptor`: WF on the request's goroutine, and `KeyFor` returns, which is
  `CallsReturn` of `JwksCache`.
- `TestLock`: WF on the poller and on time. A holder may keep the lock for ever;
  `LockEnds` still holds because of the deadline. There is no fairness between
  waiters, as there is none in the code.
- `Scaffold`: none; a command may be killed anywhere.

### What the violations show

- `auth_skew`: `jwt.Parse` runs without `WithLeeway`, so a token whose `exp` or `nbf` is
  out by less than `AUTH_CLOCK_SKEW` is refused before the skew is looked at. AUTH.md says
  the skew absorbs the difference.
- `users_removed`: GetMe serves an account whose `deleted_at` is set; `db/schema.sql`
  says that an account is valid when it is NULL. No statement reads the column.
- `scaffold_clear`: the recipe of `make clear` sets `name` in one shell and filters
  `db/schema.sql` in another: the table stays, and the recipe reports success.
- `scaffold_table`: `ensureSchemaSQL` looks for `CREATE TABLE <name>` as a
  substring, so `news` counts as present when `newsletters` is.
- `scaffold_imports`: for `BlogPost` the registrar imports
  `gen/blogPost/v1/blogPostv1connect`, while `buf` writes
  `gen/blogPost/v1/blog_postv1connect`, which itself imports `gen/blog_post/v1`: `make
  scaffold` ends well, and none of these packages is there, so the server cannot be
  built. `BlogPost` is the generator's own example of a name.

## 4. The proofs

All theorems hold for every value of the constants that satisfies the named
assumptions (`TimesAssumption`, `NoneAssumption`, `ServedAssumption` of the JWKS
modules, `SourceAssumption` and `InputsAssumption` of `AuthInterceptor`,
`SampleAssumption`, `MemoryAssumption`, `UserAssumption`, `LockAssumption`,
`LimitsAssumption`, `EntitiesAssumption`), which TLC evaluates in the runs. Apart
from the ranges of numbers, they say that the value for "none" is none of the
others, that a scaffold's entity has a word (`isPascal`), and that there are finitely
many entities.

**JwksCacheProofs.** The properties are not inductive: they speak of callers that
are done, and nothing in them says where the table came from. `IInv` adds four
facts: who holds the mutex at each `pc` (`LockInv`); a body began to be served no
later than now (`SinceInv`); while the table lives, some body served no earlier
than `expires - TTL - FetchAge` builds it (`TableInv`); and each caller's place in
time (`CallerInv`): a body in flight was served when its request was sent or
later, and a caller that has stored finds the table no older than `FetchAge`
whoever has stored since. The last one is the heart: another caller's store can
only bring a body whose request is at most `FetchAge` old, by the guard of `Tick`.
From it follow `TypeCorrect`, `HitsAreFresh`, `FetchesAreFresh`,
`LockIsDisciplined`, and `Refinement`: every step is a step of `KeySource` or
leaves its variables alone. `LastEntryWins` says what `refresh` makes of a body
whatever its length: a `kid` has the key of its last usable entry. That there is a
last one is the library's theorem on minimal elements of a well-founded order
(lemma `Smallest`).

**ListParamsProofs.** `SanitizeBounds`: whatever paging is asked for, what is
queried is within bounds, and sanitizing again changes nothing. Lemma `FirstPage`
says which rows an empty `ListParams` gives, for the two modules that use it.

**AuthInterceptorProofs.** The invariant follows each request: what it is asking
(`Asking`), that its signature was verified by a key it was entitled to
(`Verified`), that its times were tested (`InTime`), and whom it may name
(`Named`). The two environments of a request, the clock and the provider, are
handled once, in `StepsGoOn`: no step takes back what was published, so that being
entitled to a key, which counts from the arrival, is for good. From it follow
`WithdrawnKeysDie`, `TokensAreInTime` and `UsersAreNamed`, for every finite history
of key sets, every environment and every set of requests.

**SampleServiceProofs.** `IInv` has five parts: the types (`Core`); that a
statement belongs to its operation at each place (`Shape`); that no row, no dead
id and no two open writes share what they must not (`Rows`: ids from `nextId` up
are unused, an open INSERT's id has no row and never had one, two transactions
that are open, orphans included, never name the same row); the pool (`Conns`); and,
for requests nobody else has touched, that what they have written, or report, is in
the table (`Truth`). `Rows` is why an update, or a transaction of a dead server,
cannot bring a row back, and `Truth` carries the update from its commit through
`queued` and `exec` to its second statement.

`TypeCorrect` needs what a page holds, so `Listed` is shown to be a sequence of rows
of the table in falling order of id (lemmas `DescendingIds`, `ListedRows`), and
`Replied`, that every reply was made of such rows, is added to the invariant.
`Refinement` is proved action by action: a COMMIT, sent by a live server or left to
MySQL by a dead one, is the effect of its write, and the SELECT that of a read;
taking a connection, or an UPDATE that has not committed, is no step of
`SampleStore`. `Rows` is what makes a commit enabled there: the id of an INSERT is
still unused, and the row of an UPDATE or a DELETE is as its statement found it. A
crash is the loss of every call at once.

**MemoryStoreProofs.** `Mutex`: the holder is between `Lock` and `Unlock`, and so what
it has looked up stays true until it uses it (`Shape`), and the id `Create` took is
nobody else's. `Objects`: what the map or a goroutine points to is an object, and the
map's bears the id it is stored under. `Numbered`: no row has an id still to be
handed out, and the Creates under way leave room for one each. `Refinement` then
needs one thing of the heap, that the object a handler points to is what it was
when the method returned: objects are only written where nothing points (lemma
`PutAt`), and what is reachable is not collected (`Reachable`). If `Update` wrote the
object in place, the mutant of `ImplementsStore`, this is what would fail.

**UserServiceProofs.** The same plan: `Shape`, `Conns`, and then what the next
statement will rely on. `Granted`: no role is granted to an account that is not
there, kept by the cascade of `Erase`. `Truth`: the roles of the account lie between
those it always had in the call and those it ever had, before the second statement
of FindByID and after it. `Profile`: the row read by the first statement, or
written, is still the row if nobody touched it. `ErasedStayErased` is an action
property: it needs the invariant for the account an open UPDATE has locked.

**TestLockProofs.** `TypeOK /\ SlotsAccounted /\ FixturesIntact` is inductive.
With one lock file two tests that hold it are the same test, so the last one to
load is the one that runs. `LimitIsKept` maps each holder to its lock file, an
injection into `Slots`.

**ScaffoldProofs.** `Complemented` says of every entity that is not `bare` what
`RoutesComplete` does. `Scaffolding` says what the generator at work has written, all
from the model of its job, and, after a clear, that what it has still to write is
not there, or was left by `rm`; `Clearing` and `Cleared` say the same of what a
removal has passed. Three lemmas follow the three ways a file changes: `Filled`, the
generator's write, rests on the order of `Generated` (lemma `Order`: all that the
registrar needs comes before it, and the code generation after it); `CodeMade`, that
`buf` makes the code a registrar imports from its own proto; and `Emptied`, that what
`rm` was given is gone or in `left`, and that a registrar that stays and is not `bare`
has lost nothing. `RoutesAreComplete` and `RetriesWork` are the two that follow, the
second by lemma `Removals`, that the arguments of `rm` are all the kinds there are. They
speak of any entities, of any names, but `RetriesWork` of those of one word, since the
removal names the files of no other as the generator does; that no two entities share
a name is lemma `NamesDiffer`.

`OneWordImports` settles `ImportsResolve`: it holds after every `make scaffold` of an
entity of one word, among any others, and after none of an entity of several words.
The proto is written first and still there when `buf` runs (`ProtoThere`), so the code
generated is that of the job's model, and `go fmt` leaves it (`Generation`); for one
word the three packages that are imported are the two `buf` writes, for several the
service's package is never there (`Found`). `scaffold_imports` shows an instance.

Every invariant, every action property and every refinement that a passing run
checks is the subject of a theorem (`ImportsResolve` for the names for which it
is true). Only model-checked are the liveness properties
(`CallsReturn`, `RequestsAnswered`, `CallsAnswered`, `LockEnds`): fairness and
ENABLED are beyond the prover. The refinements are proved for the safety part of the
abstract specifications, which state no fairness.

## 5. What is not modelled

- The e-mail of the principal and the roles of a token, which no handler reads; the
  replacement of the JWKS singleton when URL or ttl changes, since the environment
  of a running process does not change.
- `created_at`, `updated_at`, `last_login_at`: no property is about them.
  `user_identities` and `sessions`: no code uses them.
- A client that repeats a Create which failed after its commit: nothing identifies
  the request, so the row is there twice. No document promises otherwise;
  `CommitLost` is the step at which it happens.
- DSN, connection lifetimes, idle connections, the startup that ends because the
  database does not answer; environment defaults of the test harness; wording and
  logging.
- The text of the generator's templates beyond imports, fields and the repository
  in memory: the generated MySQL repository is that of samples with other columns.
  `scripts/clear.sh`, which nothing calls, and the DROP that `make clear` can apply
  to a database.
- The logging interceptor, generated code, CI and containers.

## 6. Plan

Order: what every request depends on first, then the data, then the tooling. Done:
all modules of section 2 and the proofs of section 4. Left:

- `AuthInterceptor` over `JwksCache` in place of `KeySource`, in one theorem: today
  the two are joined by `Refinement` of `JwksCacheProofs` and by both using the
  actions of `KeySource`.
