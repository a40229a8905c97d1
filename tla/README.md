# Verification of the enterprise information platform

TLA+ models of the platform's Django application (`src/`), the TLC
configurations that check them on small instances, and proofs of their main
safety properties that TLAPS checks for every value of the constants.  The
models are translated from the Python source; where documentation and source
disagree, the source is modelled and the disagreement is a finding.

The platform is a set of Django apps behind a REST API, a Celery worker pool
with a beat scheduler, PostgreSQL, Redis (cache, Celery broker and the event
stream) and a file store.  `ATOMIC_REQUESTS` is off and the only
`transaction.atomic` of the code base stands in
`apps/dms_ingestion/services.py:91`, so nearly every database call is a
transaction of its own.  That is the theme of these models: **each database,
Redis, broker or storage call is a step, and whatever else runs at the same
time may run between two of them.**

## 1. Inventory

| Component | State it keeps | Operations | Interacts with | Modelled in |
|---|---|---|---|---|
| Event bus (`sys_eventbus`) | Redis Stream and consumer group; `ProcessedEvent`, `DeadLetterEvent`; handler registry | `publish`, `poll_stream`, `dispatch_handler` | publishers call it; handlers are called by it; Celery runs it | `EventBus` |
| Worker pool and beat | one broker queue, N worker processes | beat enqueues `poll_eventbus`; workers take tasks in order | polls and handlers share the workers | `PollWorkers` |
| Upload ingestion (`dms_ingestion`) | `UploadSession` row (`state`, `storage_key`), stored files | `UploadView.put`, `run_pipeline_task`, `run_pipeline` | publishes `document.created` | `Ingestion` |
| Document creation (`dms_documents.event_handlers`) | `Document`, `DocumentVersion` | `handle_document_created` | handler of the bus | `DocumentFlow` |
| OAuth2 server (`iam_oauth`) | `AuthorizationCode`, `OAuth2RefreshToken`, `OAuth2Client` | authorize, exchange, rotate, revoke | HTTP clients in parallel | `OAuthTokens` |
| Account lockout (`iam_auth/lockout`) | two cache keys with TTLs | count, lock, clear | logins, unlock, password change | `Lockout` |
| MFA (`iam_mfa`) | `MFADevice`, `MFABackupCode` | setup, confirm, disable, backup codes, verification | login | `Mfa` |
| Login and sessions (`iam_auth`) | `OutstandingToken`, `BlacklistedToken`, `UserPasswordHistory`, user attributes | login, refresh, logout, logout of all sessions, password change, unlock | lockout, MFA | `Account` |
| Rate limit (`core/middleware`) | one counter per caller, path and window | add, EXISTS, INCR, repair | around every request | `RateLimit` |
| Idempotency (`core/middleware`) | one cache entry per key: absent, in flight, complete | look up, mark, store | around every mutating request | `Idempotency` |
| Tenant scope (`tenants`, `core/base/context`) | context variables of the worker thread | bind at authentication, read in managers, filters and plugins, unbind | every query of a tenant-scoped model | `WebRequest` |
| Base views and serializers, audit log (`core/base`, `sys_audit`) | the row and its `AuditLog` entries | create, update, destroy with plugins around them | every REST view | `WebRequest` |
| Permission catalog, roles (`sys_permissions`, `iam_roles`) | the catalog files of a release; `TenantRole` rows | merge, check, seed, validate, save, authorise | every permission check | `Roles` |
| Tenant settings (`tenant_settings`) | `TenantSetting` rows, the cached merged catalog | read through the cache, coerce, validate, save, invalidate | deployments | `Settings` |
| Metadata rules (`dms_metadata`) | `MetadataDefinition` rows | validate types, rules, defaults, definitions, documents | documents | `Metadata` |
| Documents, versions, types, users, teams (REST) | one row each | the base viewset | base views, metadata | partly: `WebRequest`, `Metadata` |
| Storage backends, result backend, health checks, core helpers, deployment | files; task results; none | thin I/O or stateless | - | no |

### What is hard, and what makes each part correct

* **Event bus.**  Poll runs overlap, because beat starts one per interval
  whatever is still running; they share one consumer name, one cursor and one
  pending list, and entries once read are never read again.  The check of
  `ProcessedEvent` and the insert after the handler are two statements, around
  which siblings, retries and redeliveries pass.  Two retry limits apply to one
  task.  *Correct means*: no task is enqueued twice in one life of the group; an
  acknowledged message has its tasks; a record has a handler run behind it and
  exactly one task that wrote it; attempts are bounded, and a task that leaves
  neither a record nor a dead letter does so for one of a few known causes.
* **Worker pool.**  A poll keeps its worker while it waits for an entry, and the
  handlers it enqueues need the same workers.  *Correct means*: every published
  message is eventually handled.  The code does not keep this (section 5); what it
  keeps is that nothing but waiting polls stands in the way.
* **Ingestion.**  Several uploads of one session run pipelines on copies of one
  row; `publish` cannot be rolled back; every exception is retried.  *Correct
  means*: no completed session without an event; a session published again only
  after a failure in doubt; no session stuck between two states.
* **Upload to document.**  Two queues and a stream, with three transactions in
  the handler.  *Correct means*: a recorded message has its document; an upload
  becomes a document or fails where somebody can see it.
* **OAuth2.**  Read, check, issue and save are separate statements; rotation
  saves last.  *Correct means*: chains stay chains, grants never grow, single
  use unless two requests really overlap, a revoked token has no successor.
* **Account.**  Logins, second factors, logouts and password changes of one user
  work on the same keys and rows, each in several queries with no transaction.
  *Correct means*: as many failures as are allowed lock the account, whatever
  else happens meanwhile; the session limit and a logout of all sessions hold
  for what existed when they began; a backup code and an enrolment count once; no
  login goes round a device; a replaced password is remembered.
* **A web request.**  Middlewares, authentication, permission, lookup,
  validation, plugins and save run in a fixed order on a thread that is used
  again; a failure anywhere must leave thread, key and log in order.  *Correct
  means*: a window admits its rate; a key runs its view once; a request reads and
  writes rows of its own tenant only; who changed a row can be read in the log.
* **Catalogs and rules.**  What is validated today is stored, and interpreted
  tomorrow against another release or other definitions.  *Correct means*: viewers
  write nothing of the catalog their permissions were checked against; after the
  cache of the settings was deleted nothing of releases that are gone comes back;
  documents conform to the definitions they were validated against.

The lines at which each of these bites are the hazards of `PROJECT.json`.

## 2. Modules

| Module | Models | Abstract or detailed |
|---|---|---|
| `EventBus` | publisher, consumer group, poll runs, `dispatch_handler` tasks, both tables | the handler is abstract: it returns or raises |
| `PollWorkers` | the same bus on a finite pool of workers and one queue | failures are abstract, workers are detailed |
| `Ingestion` | one upload session, its upload requests and pipeline tasks | the contents of validators and processors are abstract |
| `DocumentFlow` | `Ingestion` and `EventBus` composed, with `handle_document_created` in the handler's place | implements both |
| `OAuthTokens` | codes, refresh tokens, token and revocation requests | PKCE, redirect URIs, secrets and lifetimes are abstract |
| `Lockout` | the two keys and the requests that count, lock and clear | a specification of its own (`LockSpec`), implemented by `Account` |
| `Mfa` | devices and backup codes and the requests on them | TOTP and signatures are abstract |
| `Account` | every endpoint of a user's account, composed with `Lockout` and `Mfa` | implements `LockSpec` |
| `RateLimit` | one window's counter | a specification of its own (`RateSpec`) |
| `Idempotency` | one key | a specification of its own (`IdemSpec`) |
| `WebRequest` | a request from the first middleware to the answer, composed with both | one resource with a unique field, any of its operations |
| `Roles`, `Settings`, `Metadata` | catalogs, merges and validators as operators; requests and deployments as actions | data reduced to what the validators tell apart |
| `MC...` | values for TLC: model values, registries, mixes of requests, symmetry; `MCRules` puts the last three modules side by side | |
| `...Proofs` | theorems and proofs about the module of that name; `RulesProofs` about `Roles`, `Settings` and `Metadata` | |

How state and actions correspond to the code is in `PROJECT.json` ("map") line
by line; in outline:

* **`EventBus`.**  `stream`, `groupExists`, `cursor`, `pel` are the Redis Stream
  and its group (a message id is a position).  `pollPc`, `next`, `last`, `todo`
  are the local state of each `poll_stream` run: `PollStart` is `_ensure_group`,
  `PollRead` the XREADGROUP, `PollSkip`/`PollBegin` the `ProcessedEvent` check,
  `PollDispatch` one `delay`, `PollAck` the XACK, `PollAbort` an exception or a
  dead worker at any of these points.  `status[<<message, registration, epoch>>]`
  is a `dispatch_handler` task: `TaskSkip`, `TaskDrop`, `TaskRun` are the head of
  the task, `HandlerReturns`/`HandlerRaises` the handler, `RecordProcessed`,
  `RecordDuplicate`, `RecordFault` the insert into `ProcessedEvent` and its three
  outcomes, `OnException` the except branch (retry, celery's own refusal, dead
  letter).  `GroupLost` removes the group alone (`XGROUP DESTROY`), the stream
  stays; the next poll recreates it at id 0, and `epoch` counts these lives.  `succ` and `fault` are history variables.
* **`PollWorkers`.**  `queue` is the broker queue, `work` what each worker does;
  `Beat`, `Take`, `PollReturns`, `Handle`.  A poll that has begun its read keeps its
  worker until there is something to deliver: nothing else ends it.
* **`Ingestion`.**  `valid`, `state`, `key` are the row; `put[u]` is an upload
  request between `storage.save`, `session.save` and `delay`; `pc[t]`, `local[t]`
  and `attempt[t]` are a pipeline task, the `storage_key` of the copy it read and
  its `request.retries`.  `TaskPublish` and `TaskCommit` are apart because XADD
  is no part of the transaction around it.  `doubt` is a history variable.
* **`DocumentFlow`.**  Instantiates both modules; a step that extends `events`
  is also a `Publish` (`Carry`), and a running handler makes its two inserts
  (`CreateDocument`, `CreateVersion`) or is cut short (`Abandon`).
* **`OAuthTokens`.**  `codes` and `tokens` are the two tables; `req[r]` is a
  request with the values it has read: `ExchangeRead`, `ExchangeMark`,
  `ExchangeIssue`, `RefreshRead`, `RotateIssue`, `RotateSave`, `Answer`,
  `RevokeRead`, `RevokeRefused`, `Walk`.  `raced`, `walked` and `turned` are
  history variables.
* **`Lockout`, `Mfa`, `Account`.**  `pc[r]` is where a request on the account is;
  `lockPc[r]` and `mfaPc[r]` where it is in its calls of the cache and of
  `iam_mfa`.  `Account` is a product: an action of an endpoint moves `pc` and,
  where the code calls `lockout.py` or `iam_mfa`, takes an action of `Lockout` or
  `Mfa` in the same step or hands over to it (`LockWork`, `VerifyProof`,
  `DisableWork`, `CodesWork`).  A failed login is counted in three calls
  (`add`, EXISTS and INCR, `set` of the flag), a login's token in one step, its
  count of sessions, slice of the oldest and each blacklisting in further ones.
  `Breaks` ends a request anywhere.
* **`RateLimit`, `Idempotency`, `WebRequest`.**  `thread`, `scope` and `token` are
  the worker thread of a request, what is bound in it, and the token to unbind;
  `call[r]` says what a request is (endpoint, claim of its JWT, Django session,
  key, superuser).  `pc[r]` goes through tenant middleware, rate limit,
  idempotency, authentication, permission, lookup, validation, the write and the
  plugins' audit entry, and back through the same middlewares.  `rows` and
  `audit` are the two tables, `copy` the instance a request has loaded.
* **`Roles`, `Settings`, `Metadata`.**  A catalog, a release or a definition is a
  function from names to records.  Merges, catalog checks, coercion and the
  validators are operators (`MergeActions`, `CatalogErrors`, `Coerced`,
  `OfType`, `RuleChecks`, `RulesFit`, `Valid`); the requests that use them are
  actions that validate in one step and save in a later one, with `Deploy`,
  `DeployTo` and `Invalidate` in between.  A PATCH of a setting reads the catalog
  three times (`get_object`, `get_queryset`, `validate`), each time in up to three
  calls (`CatalogGet`, `CatalogBuild`, `CatalogSet`).  A JSON Schema is the set of
  values it admits; `check` tells it from none and from one that jsonschema itself
  refuses with the uncaught `SchemaError`.

## 3. Runs

| Run | Instance | States | Shows |
|---|---|---|---|
| `bus_tasks` | 1 message, 2 sibling handlers, 1 poll run, 2 attempts, poll aborts, crashes, database and broker faults, 1 group loss | 3.7 M | `TypeOK`, `ProcessedHasWitness`, `SuccessBound`, `BoundedAttempts`, `UniqueRecorder`, `AckedMeansDispatched` |
| `bus_delivery` | 3 messages of 2 types, 2 siblings of which the worker has loaded one, batches of 2, 2 overlapping poll runs that may abort, crashes of workers | 1.3 M | `AtMostOnceDispatch`, `EndsAreTraced` |
| `bus_deadletter` | 1 message, 2 siblings, no faults | - | violation of `DeadLetterMeansFailed` |
| `progress` | either 2 workers, 3 messages and a queue of 3; or 1 upload, 1 retry, 2 handler attempts, 2 poll runs, storage and handler failures, 1 group loss; fairness | 0.1 M | `DeliveredOnce`, `HandledUnlessStarved`, `UploadAccountedFor`, `EventuallySettled` |
| `pool_starvation` | 2 workers, 1 message, queue of 2, fairness | - | violation of `EventuallyHandled` |
| `ingest_pipeline` | 2 uploads, 3 retries, all faults, valid or invalid file, fairness | 1.1 M | `TypeOK`, `CreatedMeansPublished`, `RepublishedOnlyInDoubt`, `SettledWhenDone`, `EveryTaskEnds` |
| `flow_faults` | 1 upload, 1 message, 2 handler attempts, faults of every part, 1 group loss | 0.3 M | `ProcessedHasDocument`, `ExtraDocumentsExplained`, refinement `KeepsBusSpec` |
| `oauth_tokens` | 1 code, 3 tokens, 2 clients, 2 scopes, 2 requests at a time that may break off | 0.3 M | `TypeOK`, `ChainsLeadForward`, `GrantNeverWidens`, `WalkHasNoSuccessor`, `SingleUseUnlessRaced`, `RevokedIsTheLast`, `RowsOnlyAdvance` |
| `oauth_chain` | 1 code, 3 tokens, 1 request at a time | - | violation of `RevocationEndsTheChain` |
| `account` | 3 requests in 6 mixes of endpoints, 2 sessions with a limit of 2, 2 failures lock, 2 passwords, 1 backup code per set, one request may break off | 0.5 M | `TypeOK`, `LockedOnceCounted`, `SessionsKept`, `MfaKept`, `ReplacedIsRemembered` |
| `request` | 3 requests in 6 mixes on 2 threads, 2 tenants, 2 names, a rate of 2, one request may fail or lose its worker | 3.0 M | `TypeOK`, `WindowKept`, `KeyedOnce`, `TenantKept`, `TrailKept` |
| `rules` | 5 permission files, 3 grants, 2 requests; 4 releases of one setting, 2 workers that are replaced, 3 texts; 9 definitions of one field and one of another, 13 documents | 0.8 M | `ViewersRead`, `SettingsFollowRelease`, `MetadataKept` |

### Bounds, and why they are enough

Bounds appear only as guards that stop the environment: `MaxPublished`,
`MaxGroupLoss`, `MaxUploads`, `MaxQueued`, `MaxCodes`, `MaxTokens`, and `Mixes`,
`Files`, `GrantSets`, `Edited`, `Releases`, `Fields`, `Metadatas`, which say what
requests and deployments there are.  `MayFail` and `Breaks` let one request of a
behaviour fail.  In `Metadata` no two requests on one definition overlap.

* Two siblings and one redelivery already give four tasks of one message that
  can all pass the `ProcessedEvent` check; two poll runs with batches of two over
  three messages give full, partial and empty reads and every overlap of two
  batches.  More messages only repeat this: messages share nothing but the cursor.
* `MAX_RETRIES` is 2 where the attempt logic is combined with redelivery (a
  first, a last attempt).  In `bus_delivery` the two limits stand at 1 and 0, the
  largest distance at which the dead letter is still reached, and workers may be
  lost: tasks end `done`, `skipped`, `dropped`, `dead` and `lost` there.
* Two concurrent pipelines show all pairwise overwrites of the row; the safety
  properties are proved for any number.  Uploads of different sessions share no
  state, so one session is enough.
* The flow runs bound the stream to one message: a repeated publish of the pipeline is
  checked in `ingest_pipeline`, several messages are checked in `bus_delivery`.
  `UploadAccountedFor` is stated for a lone upload.
* Three tokens give a chain of two rotations and a fork of two; two requests give
  every overlap of two operations.  The chain, grant and walk properties are
  proved without these bounds.
* `account`: three requests are two failures and whatever may come between them,
  two logins over the session limit and a logout, three password changes, two
  users of one backup code beside a regeneration.  The endpoints of different
  mixes share no state but the tokens, which `LimitMix` and `SessionMix` put
  together.
* `request`: three requests with one key are a first one, one that overlaps and a
  retry; with one row, a stale save, a delete and a new row of the name around it;
  with two threads a thread is used again while the other is busy.  Rate, key and
  scope are proved without these bounds.
* `progress` puts the pool and the composed flow side by side; a behaviour is of one
  of them (`focus`), as in `rules`.
* Settings: keys share nothing but the catalog, so one key is enough.  Four releases
  give it an integer with an enumeration, a string overridden by a boolean, a schema
  jsonschema refuses, and privacy; three texts are one that conforms, one that is
  coerced and refused, one that cannot be coerced.
* `rules`: each file, release, definition and value of `MCRules` is there for a
  branch of the merge or of a validator (a readonly override, a disabled access, a
  schema that jsonschema refuses, a bound that is a boolean, a NaN, a date
  written without dashes, ...).

Deadlock checking is off where the bounds let the system come to rest.

### Fairness

* `WF(PollStep(p))`: beat starts polls for ever and a poll goes on while Redis,
  broker and database answer.  Aborts, faults, publishers and group losses are
  under no obligation.
* `WF(TaskStep(s))`: a queued task gets a worker and a handler returns or raises.
  Handlers are not obliged to succeed: retries must end by counting.
  `PollWorkers` drops the assumption that a task gets a worker: there, beat and
  each worker are fair and the queue decides, and a read waits until there is an
  entry (`consumer.py:66` asks for `block=0`, `core/utils/redis.py:21-23` sets no
  timeout).  Under just these, `EventuallyHandled` is violated
  (`pool_starvation`) and `HandledUnlessStarved` holds: a published message is
  handled, or from some time on its handler is queued while every worker waits in a
  read; and it is handled wherever fewer polls stand before it than there are
  workers.
* `WF(PutStep(u))`, `WF(TaskStep(t))` of `Ingestion`: a request that has begun
  goes on unless a fault ends it, a free worker takes tasks.
* `OAuthTokens`, `Account`, `WebRequest` and the rules have no fairness: a request
  answers or is lost, it waits for nothing, and everything stated is safety.

## 4. Proofs

All proofs hold for every value of the constants under the assumptions named in
the modules (`ConfigAssumption`, `IngestionAssumption`, `FlowAssumption`,
`PoolAssumption`, `OAuthAssumption`, `LockoutAssumption`, `AccountAssumption`,
`RateLimitAssumption`, `WebRequestAssumption`, `MetadataAssumption`: types of the
constants, at least one attempt, a batch size of at least one, and what `Metadata`
says below).  `Settings` assumes nothing.  Every safety property that a passing run
checks is a theorem.

* **`EventBusProofs`.**  Layered invariants.  `TypeOK` first.  `AtMostOnceDispatch`
  alone is not inductive: a read must not overlap the batch of another run, which
  needs that what a run of this epoch holds lies below the cursor (`PollerInv`),
  and that tasks exist only for delivered entries (`DispatchedInv`).  The
  statements about attempts need what each status says of the counters
  (`AttemptInv`: a handler about to run has succeeded at most as often as
  recording failed; one waiting for a retry may be one ahead only if its message
  is recorded, so that the check stops it) and `RecorderInv` (a finished task is
  the recorder of its message and there is one).  `AckedMeansDispatched` needs
  `ProgressInv` (a run in the middle of a message has enqueued what it no longer
  has to do) and that entries, records and tasks are never taken away.  Proved:
  `TypeOK`, `AtMostOnceDispatch`, `AckedMeansDispatched`, `SuccessBound`,
  `BoundedAttempts`, `ProcessedHasWitness`, `UniqueRecorder`, and `EndsAreTraced`,
  for any limits and faults: tables only grow, so what an ended task left stays
  (`TraceStays`), and each way to an end leaves its trace (`ExceptionTraced`,
  `EndTraced`).
* **`PollWorkersProofs`.**  Conservation: `PoolInv` says that what the group has
  delivered is queued, held by a worker or handled (`Somewhere`), in one of these
  places only (`Apart`) and there once (`QueuedOnce`, `HeldOnce`).  The counts of
  `DeliveredOnce` follow from it.
* **`IngestionProofs`.**  `IInv` = `TypeOK`, `KeyInv` (a task exists only after its
  request has ended, and then row and copy have a key, so that an event always
  names a file) and `PublishInv` (a task at or past its commit has published).
  Proved: `TypeOK`, `CreatedMeansPublished`; with `AloneInv`, which counts
  events against failed attempts at each control point, `RepublishedOnlyInDoubt`;
  and with what the row's state says of the requests and tasks still at work,
  `SettledWhenDone`.
* **`DocumentFlowProofs`.**  Step simulation: each action of the composition is a
  step or a stutter of either part.  Proved: `KeepsBusSpec` and that the
  composition implements `Ingestion`.  The module instantiates the proof modules
  of both parts, so that `PartsInvariant` brings what is proved there to the
  composition.  On it rests `DocInv`: stream and events go together, a running
  handler's document is for its message, and a handler that returned has left a
  complete one, which gives `ProcessedHasDocument`.  `ExtraDocumentsExplained`
  needs to know which task to put a document down to: `CountInv` counts the tasks
  that are making one, have made one, or can make none any more because their
  message is recorded; every other failed attempt is in `redone`.
* **`OAuthTokensProofs`.**  `IInv` = `TypeOK`, `RowsOK` (a row with a successor is
  revoked, and the successor is a later row issued for it), `RequestsOK` (what a
  request in the middle of a rotation or walk holds: the scope a rotation asks
  for lies within the old token's; its new row is later than the old one and has
  it as parent; a walk's copy names no successor) and `GrantNeverWidens`.
  Proved: `TypeOK`, `ChainsLeadForward`, `GrantNeverWidens`, `WalkHasNoSuccessor`.
  For single use `CodesOnce` and
  `TokensOnce` say that, unless requests raced, one request at a time is at work
  on a code or token and none once it is consumed or revoked, and that a token is
  revoked before its successor goes out: `SingleUseUnlessRaced` and
  `RevokedIsTheLast`.  They also give the action property `RowsOnlyAdvance`: whoever
  replaces a recorded successor is at work on a revoked token, so somebody raced.
* **`AccountProofs`.**  Step simulation shows that `Account` implements `LockSpec`,
  so that `LockedOnceCounted` is proved about `lockout.py` alone.  It is not
  inductive: the flag might expire before the counter that set it.  `LockInv` says
  that behind a full counter there is a request about to lock, one of the named
  exceptions, or a flag that outlives the counter.
  `ReplacedIsRemembered` needs `PassInv`: who is about to set a password has put
  the one it loaded into the history.  `MfaKept` is three arguments: `CodesInv`
  (between match and save a code has admitted nobody, or is known to be raced
  for), `DevicesInv` (an enrolment that nothing has overtaken still finds no active
  device) and `BareInv` (between the two device queries of a login there is a
  device, or one was turned off).  `SessionsKept` needs to follow the counts:
  `LimitOf` says what a login nobody overlaps knows after each query - its token is
  the newest while it counts, the excess is exact, its plan spares its own token
  and leaves the limit - and `LogoutOf` that the plan of a logout covers what still
  lives of its list.  `SeenKeeps` shows that what other requests do either leaves
  this true or ends being alone.  `TokenTypes` and `RestTypes` complete `TypeOK`.
* **`WebRequestProofs`.**  Four arguments about the one next-state relation.
  `WindowKept`: `RateInv` relates counter and admitted requests at each point
  between the cache calls; all else leaves the counter alone.  `KeyedOnce`: a step
  is a step of `Idempotency` or a stutter; `KeyInv` says that a request in the view
  has marked the key or carries none, and that a refused or replayed one has
  changed nothing.  The same two simulations show that `WebRequest` implements
  `RateSpec` and `IdemSpec`.  `TenantKept`: `ScopeInv` (each thread serves at most
  one request; what is bound belongs to it, and is unbound before the thread is
  free) and `RowInv` (a loaded copy is of the claimed tenant, and no save changes a
  row's tenant).  `TrailKept`: `TrailInv`, six parts, of which the hard ones are
  `OverlapInv` (two requests that work on one row at once are on record),
  `WrittenInv` (whoever is between its write and its log entry is the last writer
  of a row nobody overlapped on) and `LastInv` (an entry agrees with its row while
  it is the last one and no change is unlogged).  `TypeOK` puts these together.
* **`RulesProofs`.**  The three modules about what is validated today and read
  tomorrow.  `RolesInv`: not only the stored roles but the copies that requests
  have in hand must be read-only for viewers, because a save writes all their
  fields; it gives `ViewersRead`.  `SettingInv`: a catalog that waits to be stored is
  of a release its worker still runs, since no worker is replaced during a request,
  so a late store brings back nothing that was gone when the cache was deleted; what
  a request looked up since is of such a release, and so is the catalog its value
  conforms to (`WorkInv`, `RequestOK`, `SoundInv`); it gives `SettingsFollowRelease`
  for any schemas, also invalid ones and such as no value conforms to.
  `MetaInv`: a definition whose parts came
  together has rules that fit its type (`FieldInv`), a document that is fresh was
  valid under the definitions there are (`DocInv`).  `ValueSound`, type by type,
  says that what the validators admit under fitting rules is what the rules say,
  and that they crash for one of the named reasons only; with it `MetadataKept`.
  `MetadataAssumption` says that values have the attributes of `Value`, that NaN is
  not finite and that no rules come with a null.

What proving changed in the models.  `SettingsFollowRelease` needs no "nobody is
filling the cache" when it is deleted, and not that all workers run one release: it
speaks of whatever releases are run.  The `CASE`s of
`OfType`, `Check` and `ValidateRules` had guards that overlap, of which TLC takes the
first and the logic takes any; they are disjunctions and `IF`s now.
`Says` left out `pattern` and `precision`.  `MergedSettings` and `FirstFailure` are
definitions by `CHOOSE` instead of folds.

Only model-checked: the liveness properties (`EventuallySettled`,
`HandledUnlessStarved`, `EveryTaskEnds`, `UploadAccountedFor`), because the prover has
no rules for `ENABLED` and fairness.  The three violations are runs, not theorems.
The theorems of `RulesProofs` are about each of the three modules, which share no
state; a behaviour of `MCRules` runs one of them.

## 5. Findings

Three disagreements are shown by runs; `PROJECT.json` quotes both sides.

1. `bus_deadletter`: of two handlers of one message that both succeed, the second
   one's `ProcessedEvent` insert violates the unique key inside the handler's try
   block (`tasks.py:75`), is retried as a handler failure, and on the last attempt
   becomes a dead letter.
2. `oauth_chain`: `/revoke/` on a token that was rotated does nothing to its
   successor, because rotation has revoked it already (`views.py:255`).  The
   descendant walk of `revoke_refresh_token_chain` never makes a second turn
   (`WalkHasNoSuccessor`, proved).
3. `pool_starvation`: `poll_stream` reads with `block=0` and beat adds a poll every
   five seconds to the queue the handlers wait in (`consumer.py:66`,
   `config/settings/base.py:275-280`).  While nothing is published every worker ends
   up waiting in a read; the next message frees the one that delivers it, which takes
   the next poll of the queue before the handler.  `docs/architecture.md:138-139`
   says the consumer polls on an interval and each handler is executed.  The run
   takes the client as the code configures it: a Redis client or server that ended
   long reads by itself would free workers again.

Observations met while modelling, built into the models and not given a run:

**Event bus and ingestion**

* The check at the head of `dispatch_handler` is on the message alone, so a
  sibling whose message is recorded returns without running (`tasks.py:54`;
  `sys_eventbus/README.md:7` says "independent Celery tasks").  One handler per
  type is registered today.
* `_resolve_handler` finds handlers by bare function name (`tasks.py:133`); the
  argument is documented as fully qualified (`tasks.py:49`).
* With `EVENTBUS_MAX_RETRIES` above 4 celery's own limit re-raises before the
  dead letter (`tasks.py:97`): one of the ways out that `Traced` names.  Another is a
  worker that has not imported the handler: the task returns with a warning
  (`tasks.py:62-69`).
* A success whose record fails is executed again (`SuccessBound` counts exactly
  these); `docs/architecture.md:141` says double execution is prevented.  For
  `handle_document_created` that is a second document, and a failure between its
  two inserts leaves a document without a version (`event_handlers.py:47`).
* An upload that replaces the storage key while an earlier upload's pipeline runs
  may never be published: its own task finds the session completed and returns
  (`services.py:45`; `apps/dms_ingestion/README.md:38-40`).
* The processors' checksum and extension never reach the row: every later save
  names other columns (`services.py:111`; `models.py:47-48`).
* A failing publish leaves the session in READY, not FAILED
  (`services.py:29-30`), and a retry leads out of FAILED.

**OAuth2 and accounts**

* Two overlapping exchanges of one code, or rotations of one token, both succeed
  (`services.py:202`, `:296`; `models.py:78` "single-use"): `SingleUseUnlessRaced`
  says that overlapping is the only way.  The later of two rotations that overlap
  replaces the successor the other one recorded (`services.py:296-299`), which no
  chain leads to any more; `RowsOnlyAdvance` says that overlapping is the only way
  to this, too.
* Each right password writes a token row that is never answered, even if the login
  is then refused or challenged, and the session limit counts it.
* Overlapping logins may blacklist the token one of them is about to answer; the
  verification of a second factor issues tokens without looking at the limit.
* A refresh under way when all sessions are logged out keeps its new token
  (`SessionsKept` says that what survives was issued after the list was made).
* A counter whose key expired between EXISTS and INCR has no TTL any more; the
  challenge answer clears the lockout before the second factor was given.
* The current password may be chosen again; an expired one can only be changed by
  a session that is still alive.
* Disabling verifies a code of the newest device and then looks for the device
  again: a confirmation in between makes it turn off another one.

**Web requests**

* The audit entry of an update compares `validated_data` with the instance it has
  already been written to, so its diff is always empty
  (`sys_audit/plugins.py:78-91`; `sys_audit/services.py:36` "diff on update").
* The idempotency middleware sees only users of a Django session; for a JWT the
  user is anonymous there and the key is ignored (`docs/api-conventions.md:243-253`).
  The key does not name method or path, error answers are stored like others, and
  a lost worker leaves its mark for the whole TTL.
* `ThrottlingError` is raised in a middleware, outside the exception handler of
  the REST framework.  The first request of a window passes at a rate of 0.
* What authentication binds is bound in the view only: middlewares and telemetry
  before it see no tenant (`tenants/middleware.py:47`).
* Deleting a model without soft delete makes the audit plugin write an entry
  without a target, which is refused after the row is gone.
* A save writes every field of a copy loaded earlier: an update may bring back
  what another one replaced, or a row that was deleted meanwhile.

**Catalogs and rules**

* The check of a catalog looks at viewers' rights on resources and not at
  `access`; unknown codenames pass for viewers and may become writes with the next
  deployment; soft-deleted roles go on authorising their members.
* A PATCH of a setting that has no row fails, since the plain serializer runs no
  plugins that would give it a tenant.  Defaults are not validated against their
  schema.  A catalog of an older release is cached after the invalidation, and stays
  as the cache has no timeout, as long as a worker still runs that release.
* The check of a release compares of a schema its `type` only (`catalog.py:88-101`):
  an `enum` or bounds that no coerced value meets, or an unknown type under `json`,
  pass it and leave a public key unwritable; in the last case jsonschema raises
  `SchemaError`, which `serializers.py:66-71` does not catch (500).
* A PATCH of a setting without a value saves the row it loaded, and so undoes a PATCH
  in between; this is the one store `SettingsFollowRelease` does not vouch for.
* Deleted metadata definitions still bind documents (`services.py:41`) and their
  codes stay taken.  Booleans pass as bounds and NaN and infinities as values, and
  crash a later validation; date bounds are compared as strings; the parts of a
  definition that a PATCH does not send are not looked at; a document sent without
  `document_type` is not validated.

### What the carve-outs leave

Where the code does not prevent an overlap, a property that names it says that this
overlap is the only way to the outcome, not that the outcome does not happen:
`raced` (a code, token, backup code or key used at once by two requests), `late` and
`dropped` (two confirmations of a device; a device turned off during a login),
`undone` (a lockout deleted while failures are counted), `fresh` (definitions changed
after a document was validated), `overlap` (updates of one row at once), uploads and
requests that broke off, and the session limit of logins that overlap.
`CreatedMeansPublished` asks for an event of the session, not for one with the last
key, and `ViewersRead` compares with the catalog a viewer's permissions were checked
against, not with later ones.  The notes of the hazards in `PROJECT.json` say which
hazards this concerns.

## 6. Not modelled, and why

* Storage backends, result backend, health checks, users, teams and memberships:
  thin I/O, or single-row CRUD through the base viewset, whose lifecycle
  `WebRequest` models.  The numbering of document versions and archiving likewise
  wait (section 7).
* The creation of an upload session and the contents of its validators and
  processors: they only decide whether a file is accepted.
* `validate_all` of the settings' catalogs: a command of its own that changes no
  state.  A file that is no JSON fails every request that builds the catalog; that and
  definitions without a type or a default are left out.
* The loss of the stream or of Redis as a whole: only the consumer group is lost.
* Envelope (de)serialisation, file contents, formatting, logging, telemetry,
  OpenAPI: no property depends on them.
* TOTP, PKCE, signatures and password hashes: the right secret is a request that
  is made, a wrong one is refused.
* Times: a lifetime or TTL that runs out is an event that may happen at any time.
* PostgreSQL isolation below single statements: each ORM call is atomic.
* List and retrieve: they read one queryset, narrowed by the same scope as the
  lookup of an update.

## 7. Plan

All modules of the plan are written and every safety property that a passing run
checks is proved.  What is left, in this order:

1. An abstract specification of the audit trail and of single use (one writer at a
   time, one use at a time), implemented by `WebRequest` and `OAuthTokens` where no
   requests overlap.
2. `PollWorkers` as a refinement of `EventBus` without failures, so that the pool's
   conservation and the bus's dispatch are one argument.
3. The numbering of document versions (last + 1, `dms_document_versions`) and the
   creation of upload sessions.
