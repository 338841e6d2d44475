# ivy-nestjs in TLA+

Specifications of ivy-nestjs (`src/lib`): the cache service and the responses cached
through it, accounts with their mails, sessions and logins, files, and the way of a
request through the library, from the router over policies to what a resource service
finds, changes, deletes and answers. TLC checks the modules on small instances; TLAPS
proves most of their properties for all constants, in the eight modules `*Proofs.tla`.

    tlc -config Requests.cfg MCRequests.tla
    tlapm CacheServiceProofs.tla

## The system

ivy-nestjs is a library of NestJS modules for REST and GraphQL back ends over MongoDB
(mongoose) or a SQL database (typeorm). One node process runs every request on one
event loop: code between two awaits is atomic, and everything else may interleave.
There are no locks. Redis, the database, the storage and the queue are outside the
process, and survive it.

| Component | State | Operations | Talks to | Correct when | Modules |
|---|---|---|---|---|---|
| cache service `cache/cache.service.ts` | `keysMeta` in memory, entries in Redis, `metadata.json` | get, set, del, expire, evict, load and store metadata | Redis; called by requests and resource services | no entry escapes the limit; every call returns | CacheService |
| response cache `cache.interceptor.ts`, `auth.service.ts`, `cache.util.ts` | the table of model names | look up, query, fill; name a key | cache service, database | stale answers only where a cause can be named; a key names what it shows | ResponseCache, Relations |
| resource services `resource/services` | documents | create, update, delete, bulk, query, aggregate, populate | database, file manager, cache service | filters mean what they say; nothing dangles; a change expires what depends on it | Filters, Pages, Populations, Aggregates, Cascades, Bulk, ResourceFiles, Uploads |
| file manager, storage `storage` | files, FileMeta documents, directories | store, move, delete, persistFiles, stream | storage adapter, database | names have files and files have names; a download is what was asked for | ResourceFiles, Uploads, Directories, Downloads |
| accounts, verification tokens `auth/account` | users, tokens | register, verify, reset | database, mail | a token is used once, by whom it was mailed to, and to some effect | Accounts |
| mail `mail`, queue `queue` | Bull jobs | send, process, retry | Redis, mail adapter | a mail accepted is sent or reported | MailDelivery, MailQueue |
| authentication `auth` | logoutAt, cached user, admin user | log in (password, token, provider), log out, validate, boot | cache, database | a session that ended is over; who logs in may | Sessions, Logins, Authentication |
| controllers, resolvers, guards `resource/helpers`, `auth-multi.guard.ts` | none | route, guard | strategies, services | an operation is reached, and by whom it should | Routes |
| policies `resource/policy` | limits of a request | combine rules | resource services | a request sees what its rules allow | Policies |
| health, redis, config, logger, templates, events | none | | | | |

Hard to get right, and to test: what a request read before an await and uses after it;
replies that cross in memory what they did in Redis; an expiration beside a fill; a
step that fails after others have succeeded; a process that dies in between; two
libraries that are to do the same; declarations whose combinations nobody has listed.
`PROJECT.json` lists the hazards line by line, each with the properties that cover it.

Several properties have the form "X, unless one of these causes". The code makes no
stronger promise there (no lock, no version, no transaction that holds), so the strongest
thing to say is which causes there are, and that there is no other.

## Modules

### CacheService

`CacheService.tla` is `cache/cache.service.ts` over Redis, the default store.

| TLA+ | code |
|---|---|
| `store` | the entries in Redis, with the time they expire |
| `keysMeta`, `metaFile` | the field of the service, and `metadata.json` |
| `pending` | commands sent to Redis whose replies have not been processed |
| `scans` | key scans (`redisKeys`) whose promise has not been resolved |
| `phase`, `now` | the life of the process; the clock of process and Redis |
| `Get`, `Set`, `Del`, `Expire` | the calls, up to their first await |
| `GetReply`, `SetReply`, `DelReply`, `ExpireKeys` | the same calls after it; `SetReply` includes `evict` |
| `Start`, `LoadKeysMeta`, `Ready`, `Stop`, `Exit` | onModuleInit, onModuleDestroy, the end of the process or a crash |
| `Tick` | time, and the expiration of entries in Redis |

A process has one connection, on which commands take effect, and are answered, in the
order they are sent; so a command is applied to `store` when it is issued. A scan is the
exception, and is answered at any later time. `Exit` may come at any moment.

`StoreTracked`, `StaysTracked`: every entry of Redis has metadata that outlives it or a
set in flight that will write it; `MaxItemsHeld`: more than `maxItems` entries only while
a set that will evict is in flight; `ReloadTracks`: what a recent `metadata.json`
restores; `CallsReturn`: liveness.

### ResponseCache and Relations

`ResponseCache.tla` extends `CacheService` with readers (`Lookup`, `Answer`, `Load`,
`Fill`: `findAndCacheUser`, and any request under `CacheInterceptor`) and writers (`Save`,
`FailAfterSave`, `ExpireOnChange`: the resource services). The resource is its version.
`raced` and `lapsed` are history: fills that lost a race against a save, and saves that
were never followed by an expiration.

`StaleIsExplained`: an entry older than the database is there only while a writer has yet
to expire it, or because of one of the two histories. `CleanStartIsFresh`: onModuleInit
removes what an earlier process left. `UsesCacheService`: `CacheService!SafeSpec` is the
abstract specification; the detailed one implements it, under the identity refinement.

`Relations.tla` is which models a key names: `relationModelNames` follows the relations
of every model, and `createResourceCacheKey` (`cache.util.ts`) not only reads the table but
pushes a name onto it. `HitsAreCurrent`: a response that shows a model is found no more
once that model has changed, unless its key was made for the path of a user whose model
it does not name (line 14).

### MailDelivery, MailQueue and Accounts

`MailDelivery.tla` is abstract: a mail that is accepted is sent at most a number of times,
counts as delivered only if it was sent, and is settled in the end. `MailQueue.tla` is
`MailJob` over Bull: attempts, back-off, stalled workers. `DeliversMail` is that the queue
implements the promise under a refinement mapping (`status` from the state of the job and
the answer of the adapter, `Limit` from the stalls), its fairness included.

`Accounts.tla` puts `AccountService` and `VerificationService` on top: `Create` with its
tries, `Compose` with the context that mails may share, `SendToQueue` or `SendDirect`, and
on the other side `Find`, `Use` and `Apply`, one await apart. Calls may throw and the
process may crash, with what it has in hand.

* `LateRequestsFail`: a request that comes when its token is used changes nothing. (Two at
  the same time may both succeed.)
* `ChangesComeFromOwnMail`: an account changes only by a link that was mailed to it for
  that, unless a template of the options keeps the first link of all
  (`account.service.ts:245`).
* `BurntTokensAreExplained`, `TokensAreMailed`: what a failure costs.

### Sessions, Logins and Authentication

`Sessions.tla`: the JWT of one user as the time it was issued, validated against the
cached user; logins, logouts and new passwords are updates that read the row, save it, and
expire the cache afterwards. With TypeORM, `save` writes every column that differs from
the row, so it may take back what another update has written: `reverted`.
`EndedSessionsFail`, `CachedUserIsCurrent` and the action property `RevertsAreRaces` name
the causes.

`Logins.tla` is about who gets in at all: reCAPTCHA, the local, basic and JWT strategies,
Facebook and Google with the registration of a new account, and the admin user that every
starting process looks for and creates. `LoginsAreJust`: each is decided as some state of
the account in the meantime asks for, with two exceptions, an error and an outdated copy.
`Authentication.tla` composes the two for one run.

### Requests, and the parts of a request

`Requests.tla` composes the modules of this section: a request goes from one to the next,
and carries what the next one reads. A part that several clients share (pages, uploads,
relations) has its own interleavings. The application chooses its declarations and the
client its request once, at the beginning of each part.

| Module | code | State | Property |
|---|---|---|---|
| `Routes` | `resource-controller.helper.ts`, `resource-resolver.helper.ts`, `resource.decorator.ts`, `app.util.ts`, `auth-multi.guard.ts` | `call` | `HandlersAreGuarded`: nobody reaches a handler without a way to authenticate of the nearest entry about it; `DisabledOperationsAreOff`; `RoutesReachTheirHandlers`: the first handler that fits is the right one, but for a path that `find` takes |
| `Policies` | `resource-policy.interceptor.ts`, `resource-policy.service.ts` | `policy` | `PolicyIsKept`: what an operation finds, reads and writes is what its rules permit, against a reference of one rule at a time, or a cause is named; operations beside it change the same limits at any time |
| `Populations` | `relationsToPopulate`, `makePopulationArray` | `population` | `JoinsStand`: the joins form a tree that the database accepts; `PolicyDecidesPopulation`: a projection decides which relations are shown, by their names or by a column of theirs |
| `Filters` | `prepareFilters`, `buildWhereQuery` and the utilities they use | `search` | `FiltersKeepTheirMeaning`: a reference semantics of a filter, against the aggregation of one library and the SQL of the other |
| `Pages` | `prepareQueryParams`, `query` | `stock`, `walk`, `opened` | `WalksShowEverything`: pages miss or repeat a document only when another moved it; `ConnectionsAreReturned` |
| `Selections` | filters and splices of arrays | | what is left of a sequence, for `Pages` and `Uploads` |
| `Aggregates` | `aggregate` | `summary` | `ItemsStandForSteps`: the items of an answer are the counts of the steps of its range |
| `Cascades` | `delete`, `cascadeRelations` and TypeORM's foreign keys | `status`, `refs`, `files`, `deletion` | `ReferencesFollowDeletions`, `FilesFollowDeletions`, `OnlyDependentsAreDeleted`, each unless another request came in between or a declaration named in the property |
| `Bulk` | `createBulk`, `updateBulk`, `deleteBulk` | `rows`, `bulk`, `others` | `BulkAnswersAreExplained`: what is missing from an answer, and why |
| `Uploads` | `upload`, `unlink`, `persistFiles`, `update` | `document`, `temp`, `disk`, `metas`, `client` | `FileAnswersHold`: the answer has what was sent, the temporary directory is left clean, and an unlinked name is gone; `FilesLeaveForAReason` (an action property) |
| `Downloads` | `storage.controller.ts`, `checkFileAccess`, `stream` | `download` | `DownloadsAreExact`: status, headers and bytes agree while another request deletes the file |
| `Directories` | `storeFile`, `deleteFile`, `removeEmptyDirectories` | `dirs`, `content`, `recorded`, `caller` | `StoredFilesStand`: a recorded name has its file, and directories are empty only after a sweep that met another |

Differences between the libraries that the modules keep: TypeORM follows relations one
level deeper than mongoose for the same `maxDepth`; mongoose protects an array by its
version key, TypeORM by the rows of its tables; mongoose counts in the snapshot of the
query when there is replication, TypeORM after other commits.

### ResourceFiles

`ResourceFiles.tla` is create, update, upload and delete of the resource services with
`FileManager`, when each of their steps may fail. A request is a record with its program
counter and the local variables of its calls. Each action is the code between two awaits
that change state: `Store` and `SaveMeta` are the halves of `storeFile` (or
`moveFromTemp`), `Persisted` the return of one `persistFiles`, `Insert` and `Save` the save
of the document, `Collect` and `CollectRemoved` `resourceFilesToDelete`, `Unlink` and
`ForgetMeta` the halves of `deleteFile`, `PersistFails` and `Undo` the two catches.
`Faults` says which of them may fail, and how; `Orms` which library runs. The version key
of mongoose refuses to save an array that another request has set since the document was
read (`stale`); `save` of TypeORM inserts a row again that another request has removed.

The code leaves files behind, and names without a file, in several places. `orphaned`
collects, at each such place, the files that are lost there, and `broken` the names:

* `PersistFails`: the files of calls of `persistFiles` that returned before, and the one
  whose metadata could not be saved;
* `Save`: files another request has saved into a field of one file since this one read it;
  all the files of an array that becomes null (`getFilesToDelete` compares only two arrays);
* `CollectFails`: the catch of update deletes the files the document names by now;
* `Remove`: files an update has saved since delete read the document;
* `DeleteFails`: the files of a document that is gone although its transaction aborts;
* `Unlink`: files that cannot be deleted; `Crash`: all that requests had in hand;
* `MoveFails`: a name of the temporary directory that stays in the field.

`FilesAreAccountedFor` and `MissingFilesAreExplained` say that there is no other place.
`NamesHaveFiles` and `FilesBelongToOneDocument` do without the histories, where the field
is an array, never null, and nothing fails after a save.

What it leaves out, several fields, the order and duplicates of an array and directories,
is in `Uploads` and `Directories`, where in turn few things fail.

## Runs and bounds

| Run | Bounds | Shows |
|---|---|---|
| `CacheServiceSafety` | 2 callers, 3 keys, maxItems 2, times 1 to 3, ttl 0 (default) or 2, 2 scans, 2 uses | the invariants, LRU, clean start |
| `CacheServiceRestart` | 1 caller, 2 keys, maxItems 1, deferred eviction | the action properties, LFU, restarts with `metadata.json` |
| `CacheServiceLiveness` | 2 callers, 2 keys, maxItems 1 | every call returns, FIFO |
| `ResponseCache` | 2 readers, 2 writers, 1 key, versions 0 to 2, expire-related and awaited, restarts that keep the entries | `StaleIsExplained`, the refinement |
| `ResponseCacheDeferred` | the same with a second, unrelated key, expire-all and deferred, clean restarts | `CleanStartIsFresh` |
| `ResourceFilesArray` | 2 requests, 2 documents, 2 files, mongoose, failures before the save, crashes; 0.5 million states | names, files and owners |
| `ResourceFilesSingle` | 2 requests, 1 document, 3 files, both libraries, all failures; 3 million states | no unexplained loss or leak |
| `ResourceFilesNames` | no failures, default null | violated: a file with two owners |
| `ResourceFilesErrors` | a failing metadata save | violated: a file left behind |
| `Accounts` | 2 mails, 2 accounts, 2 requests that redeem, 2 attempts, 1 stall, 2 tries, 2 faults; queued or not, shared template or not; 1.1 million states | tokens, links, mails, and the refinement |
| `Sessions` | 3 requests and 2 points in time after the first session, with either library; or 2 logins, 2 tries for the admin user, 1 change of the account; 2.4 million states | sessions, cached users, logins |
| `Requests` | see below; 1.3 million states | one property for each question above |

Three keys over a limit of two make evictions overlap; two callers are enough for a set,
a del, an expiration and an eviction of one key to cross, because evictions and deferred
expirations are flows of their own. Times up to 3 let an entry expire while its metadata
lives and the other way round. In the file runs two requests overlap on one document, and
one file in the document, one new for each request is what an update that replaces needs;
names nobody knows any more are used again, so behaviours are not cut short. Two mails
show what a template that is shared does to the second; two faults, a retry that fails
again. Three requests are what it takes to log out between a read and a save of a third.

`MCRequests.tla` defines what comes to the parts of `Requests`:

* Routes: two ways to authenticate, of which entries list one; configs with an entry for
  the operation, its base and All, one or two at a time or all three (most values of an entry
  for `find`, fewer for the others); for each operation the variations of the settings of both APIs; identifiers with and without a dot.
* Policies: two attributes with two values; the keys of the id, of two fields, of a relation
  and of a field below it, in lists of up to two; one rule of any kind, two rules, or two with
  one that forbids everything between them, for one handler that reads and one that writes,
  and a few for the others; and one operation beside (`MaxBeside`), before the interceptor,
  between it and the reading of the filter, or between that and the reading of the projection.
* Populations: two models and four relations, every depth from 0 to the default, lists that
  include or exclude, empty ones among them, and six projections, with and without keys of
  columns.
* Filters: two values, two relations, operators over one or two items, nested once, and in a
  relation an `_or` under a `_nor`, and the filters in these: about 1900 filters, with and
  without a clash of the parameters' suffixes.
* Pages: three documents, pages of one or two, two connections, two changes meanwhile.
* Aggregates: up to two documents over seven half seconds, four filters, ranges of two
  starts, two ends and two steps, and none.
* Relations: all graphs over three models, one of which may refer to itself, up to the names
  of models that are alike.
* Cascades: two parents, two children, a grandchild, one change by another request.
* Bulk: two identifiers, two contents, two items (or three, which are too many), one change
  by another request.
* Uploads: two clients, two fields of several files and one of one, seven files, at most
  three in a field, three documents to begin with.
* Downloads: files of up to two bytes, ranges with numbers from 0 to 3, missing or none.
* Directories: two calls, which leave sweeps behind them, over four layouts of up to two
  levels, with and without a uuid in the name. (With three calls, a run of its own found no
  more: 1 million states up to symmetry.)

Bounds in guards: `MaxNow` (`Tick`), `MaxUses` (`Get`), `MaxScans` (`Expire`), `MaxVersion`
(`Save` of ResponseCache), `MaxFaults` (`Fault` of Accounts), `MaxTime` (`Tick` of
Sessions), `MaxChanges` (`ChangeAccount`), `MaxEdits` (`Edit` of Pages), `MaxOthers` (`Other`
of Bulk). `Attempts`, `MaxStalls`, `Tries`, `AdminTries`, `Pool`, `MaxBulk` and `MaxCount` are
settings of the code, `MaxLength` the longest file.

Symmetry sets hold only values the specifications treat alike, and no liveness run has
one. `CHECK_DEADLOCK FALSE` stands in the file runs, which stop when every name is taken
and every document is gone, and in `Accounts`, `Sessions` and `Requests`, which end with their
requests (a client of `Pages` also waits for ever once no connection is left). Type
invariants are no runs of their own: those that the inductions need are proved.

Fairness. `CacheService!Spec`: replies are processed and every scan ends, that is, Redis
answers and the event loop runs. `AccountsSpec`: a process goes on with the requests it
has, and Bull's workers and timers go on with the jobs. Calls, time, failures and the life
of the process are not fair.

## Disagreements between code and comments

* `ResourceFilesNames`: the check behind "Only file names from this resource and field
  property can be used" (`file-manager.ts:341`) is skipped when the field of the stored
  document is null, which `FileProp` makes the default. An update may then list the files
  of another document, and deleting either deletes the file of both.
* `ResourceFilesErrors`: "Remove all recently stored files if error occurs"
  (`file-manager.ts:385`) does not remove a file whose metadata could not be saved: its
  name is noted only after `storeFile` has returned.

## Proofs

The theorems hold for all values of the constants that satisfy the assumptions of the
modules: sets of any size and any limits, times and patterns of declarations. Each
invariant is proved from an inductive one, whose parts are defined and commented where it
is proved, and which TLC has checked on small instances.

`CacheServiceProofs.tla` proves `TypeOK`, `StaysTracked`, `StoreTracked`, `MaxItemsHeld` and
`ReloadTracks`.

* `TypeCorrect`: `TypeOK` is inductive.
* `NeverLosesTrack`: no step makes the service lose track of an entry. Besides `TypeOK` it
  needs `StoreFresh` (no entry of Redis is past its time): metadata is purged once its own
  time is past, so metadata that outlives an entry Redis still holds cannot be purged.
* `StoreAlwaysTracked`: `StoreTracked` is inductive with `TypeOK`, `StoreFresh` and
  `CleanBoot` (while a process starts clean, its scan knows every entry, and once the scan
  is dealt with the store is empty): what serves begins with an empty store.
* `NeverTooManyItems`: `MaxItemsHeld` is not inductive by itself. The step that ends the
  last set in flight must evict enough, and it counts metadata; `StoreTracked` says that
  by then every entry has some. The lemma `EvictionSuffices` does the counting.
* `ReloadAlwaysTracks`: until a process that keeps its entries has loaded its metadata, its
  one scan knows all of Redis (`KeptBoot`), so what is loaded covers what is there, and the
  eviction that follows takes the entries with their metadata.

`ResponseCacheProofs.tla` proves the refinement first (`RequestsImplementCache`: each step
is one of `Next` or leaves the variables of CacheService alone), so that the theorems
about `CacheService` hold of the requests; then `StaleAlwaysExplained`, whose induction
needs only that boot scans are the only ones of a process that does not serve yet
(`OnlyBootScans`), and `CleanStartAlwaysFresh`, from what the boot scan has to delete
before the process is ready (`Cleaning`).

`AccountsProofs.tla` proves all four invariants of `Accounts` for any number of mails,
accounts, redeemers, attempts, tries, faults and deaths of workers, and the safety part of
`DeliversMail`.

* `MailIsDelivered`: each step of `AccountsSpec` is one of `MailDelivery!Next` or leaves its
  variables alone. A job that moves maps to a step if what is left of it tells how often its
  mail was sent (`Tells`): at most once for each stall and once for the answer it has. One
  worker has one job at a time (`QueueInv`), so that its death gives up one mail.
* `AccountsInv` is inductive. `HasToken` ties a mail to the token of its kind and account,
  `HasLink` what is received to its own link, unless the template is shared, and `Redeems` a
  request to a link that was mailed: `ChangesAlwaysComeFromOwnMail` and
  `LateRequestsAlwaysFail` follow from them. `BurntTokensAreExplained` and
  `TokensAreMailed` are inductive beside them.

`SessionsProofs.tla` proves the properties of `Sessions` and `Logins`, for any number of
requests, logins and tries and any times, of `AuthenticationSpec`, which composes them.

* `SessionsInv` says that, until a save takes something back, the row and what the cache
  has of it bear no session or password that has ended (`Ends`), so that a late request
  cannot match; that passwords come from requests that have saved (`Old`), so that none
  comes twice; and that a request no other save overlapped has the row of the database,
  which is not newer than its update (`Updates`), so that its save reverts nothing.
* `LoginsAreAlwaysJust`: a login on its way has seen the account as it is now, and the row
  that it goes by unless it was misled (`Sees`); and a copy that is not outdated either is
  the account, or waits for its expiration and was the account when each login on its way
  saw it (`CopiesAreKnown`), so that going by a copy is going by a state of the meantime.

`ResourceFilesProofs.tla` proves the four invariants of `ResourceFiles`, for any number of
requests, documents and files, and any set of `Faults`.

* `OrderInvariant`: the types, and what the local variables of a request may hold at each
  of its steps (`InOrder`). The other inductions rest on it.
* `FilesAccountedFor`: every file on the disk is named by a document, in the hands of a
  request (`Held`), or orphaned, and files that are unlinked are gone. It is the invariant
  that shows the list of places above to be complete: it is proved with every fault, for
  both libraries and all kinds of fields.
* `MissingFilesExplained`: a request has the files that it has stored (`OwnIsThere`), nobody
  else has them (`OwnIsNew`, `OwnIsApart`), and what a request is about to remove is in no
  document, or broken (`CondemnedAreUnnamed`).
* `NamedFilesAreThere` has the hypothesis `ArrayAlone`: an array that is never null, and no
  fault after a save, where the code makes the promise. `NothingBreaks` then adds to the
  invariant that `broken` stays empty, because what a request has found is what the
  document has when it saves (`FoundIsCurrent`, from the version key).
* `FilesOfOneDocument` has `KnowsItsNames`: a field of one file, or an array that is never
  null. These are the configurations of `ResourceFilesArray` and `ResourceFilesSingle`; the
  run `ResourceFilesNames` shows what happens without it. What requests are about to name
  (`Claimed`) must be apart as well.

`AccessProofs.tla`, `ServiceProofs.tla` and `CascadesProofs.tla` are about the parts of
`Requests`. Each theorem is about a specification of the part by itself, which begins with
any declarations and any request, and of which `Requests` takes just those steps.

* `HandlersGuarded`, `DisabledOperationsOff`, `RoutesReachHandlers` (`RoutesSpec`): a call
  knows the entry that is nearest to its operation, and what the route has made of it
  (`RouteInv`), for any config and any set of ways to authenticate.
* `DownloadsExact` (`DownloadsSpec`): what a download may hold at each step
  (`DownloadInv`), for files and ranges of any length. Range arithmetic is done here for
  every integer; TLC has files of up to two bytes.
* `PolicyAlwaysKept` (`PoliciesSpec`): any number of rules, and of operations beside. A
  condition in the filter is that of the first rule about its attribute (`FilterSays`), or of
  an operation that came after (`Follows`, which the interceptor makes hold and others keep:
  `AggregatedFollows`, `FollowsBeside`; it is the core of `PolicyInv`). So where none has been
  replaced a document that the filter finds meets a rule that permits and that none takes back
  (`LimitsAreKept`), and the fields read or written are keys of the rules, or all, or one of
  the named exceptions (`TakenIsListed`). That sets of
  positions have a first and a last is an induction over numbers, for which
  `WellFoundedInduction` is used with sets (`LeastNumber`), as the prover does not take
  operators. `lasting` is there because what was permitted before a rule
  that forbids still counts in the limits, which takes three rules to see.
* `JoinsAlwaysStand`, `PolicyAlwaysDecides` (`PopulationsSpec`): for any models and
  configurations, as long as each has a depth (a number, of which none is the largest) and no
  circle of relations is loaded eagerly, which `eagerRelationsList` would follow for ever.
  The recursions of the code are recursive functions here. The prover knows nothing of what
  such a function returns before there is one, so each has a rank, the levels that a call may
  still go down (`PopulateRank`, `EagerRank`, `ArrayRank`): a body that needs only results of
  lower ranks has a solution (`RecursionEnds`), and what holds when it holds for lower ranks
  holds (`RankInduction`). With them `PopulatedStand` and `EagerStand` show each path to lead
  on from the table of its call, with its front, and `ArrayFiltered` that
  `makePopulationArray` with a projection returns of the paths it returns without those whose
  every field is allowed at its level.
* `FiltersAlwaysKeepTheirMeaning` (`FiltersSpec`): for filters of any depth over any values
  and relations, and any document. `FiltersAssumption` says what a filter is: it is finite
  (`Depth`), it and the lists of its operators have entries, and there is no relation below
  a relation. `Matches`, `MongooseFinds`, `Statements`, `NestedKeys` and the `truth` of
  `WhereHolds` are recursive functions, which have values because each needs only results
  for the filters in a filter (`FiltersFollowed`); what holds for a filter when it holds for
  those in it holds (`FilterInduction`).
  * mongoose: the fold over the entries keeps them all while an even number of virtual fields
    has merged and no `$and` was there (`TransformedKeeps`), so an object that does not lose
    one keeps its entries (`MongooseKeepsMeaning`).
  * TypeORM, the logic of SQL: brackets whose terms all have AND, or all have OR, are true
    when all of their terms are or when one is (`SqlAnd`, `SqlOr`, `BracketMeans`). A filter
    without relations is true or false as it means for the value shown (`PlainTruth`). In a
    relation, where the value may be NULL, one condition may be unknown, but is true only for
    a related document (`ChainTruth`, `RelationTruth`).
  * TypeORM, the joins: a path has one statement, and of two statements one is earlier
    (`MadeInLine`). Every statement on a relation is at a key that `nestedKeys` has listed
    for it alone (`KeysCover`), so there are joins enough (`EnoughJoins`) and no two
    statements share one (`JoinsDiffer`); any values for the statements are those of a row
    (`RowShows`).
  * So a row that the where clause takes means a match (`WhereSound`), and a match has a row
    (`WhereComplete`, with one related document for all statements of an entry).

  The property has two of its exceptions because of this proof, as TLC's filters are too
  small for them: an object with four virtual fields, whose second `$and` replaces the
  first, and an `_or` over several items within another `_or` or `_and` of a relation's
  filter, whose items `nestedKeys` counts no joins for.
* `HitsAreAlwaysCurrent` (`RelationsSpec`): for any finite set of models and any graph of
  relations between them, which may have circles. `relationModelNames` passes what it has
  found through a loop over the relations of a model and calls itself in the loop; the size
  of what is yet to do (`LoopSizes`) shows that it ends, and that what it has found is closed:
  a relation of a model that was found leads to a model that was found, or that an outer loop
  excludes until it finds it (`NamesAreClosed`). So a key names whatever its response shows
  (`ShownAreNamed`), and `RelationsInv` says of each entry that a change of what it shows has
  expired it.
* `ConnectionsReturned` (`PagesSpec`): connections are counted step by step.
* `WalksAlwaysShowEverything` (`PagesSpec`): for any documents and any changes of them, any
  pages, and either library. Where no other document has its rank, the place of a document
  is one more than the documents of a lower rank (`PlaceOf`, which `PlaceInOrder` finds again
  in every order of a query), so it moves only by what comes or goes ahead of it. `WalkInv`
  says that until a document is shown its place is past those that the client has skipped
  (`NotMissed`), and then before them (`NotTwice`), what the choice of the page means for both,
  and that the total will fit the items while nothing is torn (`TotalsFit`).
* `BulkExplained` (`BulkSpec`): each item that is over is explained by what it has met
  (`BulkInv`), for any number of items.
* `DeletionTakesDependents`, `DeletionClearsReferences`, `DeletionClearsFiles`
  (`CascadesSpec`): `CascadesInv` follows a deletion through its work list. References wait
  for their step (`ReferencesWait`), what is doomed dies (`DoomedDie`), only dependents die
  (`OnlyDependentsDie`). `CascadesAssumption` says that the levels of documents are apart.

* `StoredFilesAlwaysStand` (`DirectoriesSpec`): for any number of calls, any patterns of
  names and any directories. What carries `DirectoriesInv` is that a sweep which met no other
  call finds everything as it has listed it (`SweepIsCalm`), so it cannot fail; that its
  walks form a tree, of which only the leaves are not waiting (`SweepInOrder`); that a
  pattern with a uuid gives a call a name nobody else knows (`NamesAreNew`); and that a
  directory without files is about to be written into, or a sweep is at it or has yet to
  list one above it (`LookedAfter`).
* `FilesAlwaysLeaveForAReason` (`UploadsSpec`): for any requests to upload and unlink, with
  any files, and either library. `UploadsInv` says of each request between its find and its
  save that it knows the document unless another has written it since (`KnowsDocument`;
  with mongoose, unless another has written an array), and which names what it will write
  keeps (`KeepsNames` of an upload, `KeepsOthers` of an unlink). What
  `transformDeleteFilesRequest` leaves and what a many-to-many table stores are selections
  by position (`At`), so that `Picks`, `OncePicks` and `OthersRemain` follow from the sizes
  of sets of positions, without an induction over the data.
* `FileAnswersAlwaysHold` (`UploadsSpec`): for any requests and files as well, and whatever
  fails. A file that is yet to be moved has a name that nobody has (`PendingAreNew`), and
  metadata is made after that of the files that the upload has found, and in the order of
  what it sends (`MovedInOrder`). What a request writes is what it has found, then what it
  sends (`WritesAreMerged`), so that the latest by their metadata are what it has sent
  (`LatestAreSent`); or has not what it was asked to take out (`WritesAreRid`), so that
  `getFilesToDelete` takes the file, if the second find of the unlink has it. The property
  says so because of this proof: it takes three requests that the name goes before that find
  and the file stays, one of them by a document that it has read before the file was there.

* `ItemsAlwaysStandForSteps` (`AggregatesSpec`): for any documents, any filter and any range.
  The dates of the steps are in order because later steps have later dates (`LaterSteps`);
  a date is truncated to the start of its step (`TruncatedToStep`), and the half step of
  TypeORM's window is the half of a step or half a second more, which `TypeormCounts` tells
  apart only at the middle between two dates. The dates of the answer are ordered by the
  number of dates up to each (`InOrder`), so no induction is needed.

Only model-checked:

* `CallsReturn`, and the fairness in `DeliversMail`: liveness.

## Plan

1. `ResourceFiles` with TypeORM's arrays, and arrays that may be null.
2. The resources that share one process: `ResponseCache` with the graphs of `Relations`.

## Not modelled

* Of requests: the merge of the user's filter with the `_or` of a policy, SQL's NULL in a
  field, relations two levels deep in a filter, the functions of aggregate other than
  count, roles, the strategies for API keys and OAuth2 (which an application completes),
  TypeORM's `cascade` option and lazy relations, the attributes selected in populated
  documents, embedded documents, the names of GraphQL fields, the answer that a write reads
  again with the limits for reading, and selections of TypeORM that the database refuses (a
  key of a relation to many below another, or of a relation that is not joined).
* Of authentication: signatures and the expiration of tokens.
* Of files: the validation of types and sizes (a refusal may come at any time), a crash
  during an upload of several fields, the copy that replaces a move across devices, an
  array that an update sets to null (`file-manager.ts:215`, whose files stay; `Save` of
  `ResourceFiles` has it, but no run has an array that may be null).
* Of the cache: the filesystem and memory stores; `CACHE_TTL=0` (`DefaultTtl` is assumed to be
  positive: with 0 no entry would ever leave).
* Connections, migrations, health, configuration, logging, templates and the command line
  generator, which have no state that outlives a call; the samples.
