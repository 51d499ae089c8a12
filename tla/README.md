# QuotaGate in TLA+

TLA+ modules, TLC configurations and TLAPS proofs for the server of QuotaGate
(`src/core`) and the libraries it is built on (`src/kex-utils`). Paths below are
relative to `src/`. `PROJECT.json` holds, for machines, which lines each
definition stands for, what each run checks, and the list of hazards.

## 1. The system

QuotaGate is a multi-tenant API gateway server in Go. At this commit its
business tables (billing, gateway, growth, analytics) are declared but unused;
its logic is in its infrastructure.

| component | state | operations | what is hard |
|---|---|---|---|
| webhook outbox and workers (`core/internal/worker`, `repository/webhook.go`, `event/publisher.go`, `util/tx`) | table `webhook_outbox`, goroutines, `stopCh` | publish in or beside a transaction, claim, dispatch, log, three marks, replay, Start/Stop | leases, crashes between two statements, several instances, two nested retry counters |
| HTTP dispatcher (`event/dispatcher.go`) | one call's loop | `Dispatch`, `DispatchWithRetry` | cancellation, Retry-After, 64-bit backoff |
| in-process bus (`kexswiftbus/bus.go`, `memory_store.go`) | channel registry, goroutine per subscription | Subscribe, Publish, CancelFunc, Close | sends outside the lock, Close racing Subscribe |
| Redis event store (`kexswiftbus/redis_store.go`) | subscriptions and their consumer goroutines | the same store interface | closing a channel while its goroutine sends, subscriptions that end unnoticed, repeated commands |
| key-value store (`kexswiftdb`) | Badger or Redis database, `closed` | Set, Get, Delete, Increment, SetNX, CompareAndSwap, CompareAndDelete, DeleteByPrefix, `MutateJSON`, `ConsumeJSON`, Close | optimistic transactions, expiry, nested retries |
| authorizer and policy sync (`authz/authz.go`, `policy.go`, `boot/authz.go`) | enforcer (p and g rules), policy table, `autoSave`, `lastDefs`, `lastAssignments`, subscriptions | assign, revoke, reload roles or policies, add and remove policies, events between instances, start, Close | one switch and one cached slice for all goroutines, events out of order or lost |
| role registry (`authz/rolegistry.go`) | role graph | load, expand inheritance | cycles, partial loads |
| tokens (`kex-utils/pkg/jwt`) | keys and configuration of an instance | sign, encrypt, parse, validate, refresh | boundary seconds, two instances with almost the same configuration |
| request path (`middleware/auth.go`, `authz.go`) | a request's context | `BearerAuth`, `Authz`: RBAC, ABAC, rate limit, the role resolver | roles that change while the request is decided, each way a check can fail |
| tenant scope (`tenant/tenant.go`) | GORM callbacks | add the tenant to queries, check it on writes | which statements and contexts the callbacks do not reach |
| webhook configurations, WebAuthn counter (`service/webhook.go`, `repository/webhook.go`, `webauthn.go`) | tables `webhook_configs`, `webauthn_credentials` | create, update, rotate, delete, verify and count | read-modify-write of two callers, rows of other tenants |
| audit log (`audit`, `repository/audit.go`) | table `audit_logs`, signing key | clean, sign, store, list and verify | rows changed by others, a key, a time zone or a tenant that is not the one of the signature |
| SSO providers (`plugin/sso/standard`) | discovery and key caches | `BeginAuth`, `CompleteAuth`, fetches with expiry | keys and documents renewed between two steps, several sources of one identity |
| ABAC rules (`authz/abac_validator.go`) | none | `validateABACRule`, `AddABACPolicy`, `RemoveABACPolicy` | a documented grammar, a parser that reads another one, and a list of forbidden truths beside both |
| mail (`kexsmtp`) | channel of connections, counter, `closed` | Get, Put, Close; Send of the SMTP and SendGrid senders | leaks, use after Close, a reply lost after acceptance |
| signer, address filter, boot | little or none | mostly pure functions | time windows, start and stop order |

How they interact. A service opens a business transaction and publishes into the
outbox table through `TransactionalBus`; an event that did not come with a
transaction travels through the in-process bus to `NewOutboxHandler`, which
writes the same rows. Worker goroutines of all instances poll the table, and
call `DispatchWithRetry` while they hold a row's lease. Authorizer instances
tell each other of policy changes through the bus (Redis in production).
Sessions, one-time tokens and counters live in the key-value store. A request
passes `BearerAuth`, which asks the token service, then `Authz`, which asks the
authorizer and may ask a resolver for the roles of the day; repositories then
run their statements through the tenant callbacks with the context it carries.

What makes each part correct:

* outbox: one owner per entry; rows exist exactly for committed publications;
  completed means acknowledged; everything settles; Stop strands nothing.
* dispatcher: bounded and counted attempts, nothing after a cancellation or a
  final answer, an end.
* bus: order, no duplicates, no unaccounted loss, silence after a cancel, a
  Close that waits and returns, no panic but in two known races.
* store: conditional writes are atomic; one-time values are used once.
* authorizer: enforcer, cached list and table agree when nothing is going on;
  rebuilds exclude each other; an instance agrees with the database again after
  an undisturbed rebuild.
* tokens: what an instance accepts was issued with its keys, for its issuer and
  audience, and is inside its lifetime.
* request path: a request that is served was authenticated and is entitled by
  the rules at one moment of its decision.
* tenant scope: a statement under a tenant neither sees nor changes rows of
  another; only overlapping calls lose an update.
* audit: a listing says of each entry truly whether it is as it was written.
* sign-in: endpoints are no older than cache and fetch allow, a token the
  provider signed verifies, an address is called verified only when the provider
  says so.
* ABAC: what is stored is readable to its end and no listed truth, and on
  ordinary rules that is the documented grammar.
* mail: no connection is shared, none escapes Close without a QUIT; Send reports
  success only of an accepted message and keeps its number of attempts.

## 2. What is modelled, and how it corresponds to the code

### Webhook outbox: `OutboxTable`, `WebhookOutbox`, `WebhookDelivery`

`OutboxTable` has a row and what each SQL statement does to it. A row is
`status` (with `staged` for a row of an uncommitted transaction), `attempt`,
`due` (`next_attempt_at` has passed) and `age` (ticks since `updated_at`,
compared with the lease). `WebhookOutbox` has the publishers, the goroutines
(`worker`), the processes (`instance`) and operators.

* One action is one database statement or one step of a goroutine between two of
  them: `Claim` (`FOR UPDATE SKIP LOCKED` and its update are one transaction),
  `Request` (one HTTP request of the dispatch), `CreateDeliveryLog`,
  `MarkOutboxCompleted`, `MarkOutboxDead`, and `MarkOutboxFailed` as its two
  statements (read, then write by id).
* `StatementFails`/`StatementSucceeds` are the two outcomes of each statement;
  an error is only logged by the code, so the goroutine goes on.
* `Crash` takes the goroutines of a process and leaves the rows; `Restart` is
  `NewWebhookWorker` and `Start`; `Stop` closes `stopCh`, `ExitOnStop` is the
  select that sees it and `StopReturns` is `wg.Wait`.
* Time is `Tick` (rows age, holders hold longer) and `BackoffElapses`. `MaxHold`
  is the longest a goroutine takes from claim to mark.

`WebhookDelivery` is what the rest of the server may rely on: a delivery is
absent, queued, done or dead. `WebhookOutbox` is shown to implement it with
`pending` and `processing` both mapped to queued.

### HTTP dispatcher: `Dispatcher`, `RetryLoop`

One call of `DispatchWithRetry`. `Reject` is every check of `Dispatch` that
fails before the request, `Send` and `NoResponse`/`Response` are `client.Do` and
what comes back, `Decide` is the chain of returns and the backoff. `BackoffBase`
does the 64-bit product of `defaultBackoff`: in nanoseconds 2^a seconds wraps
from a = 34 on, where its sign is bit 54 - a of 1953125. `RetryLoop` is the
abstract loop: at most N + 1 tries, the first success ends it, success is never
reported otherwise. `WebhookOutbox` uses the dispatcher at that level
(`Request`).

### Event bus: `SwiftBus`, `RedisBus`

`SwiftBus` is the bus over the memory store. Each method is cut where it
releases a lock or blocks: Subscribe into check, `store.Subscribe` and `wg.Add`
with the goroutine; Publish into check, copy and one send per channel;
CancelFunc into its signal and `Unsubscribe`; Close into flag, `closeCh`, store
and `wg.Wait`. A send on a closed channel panics.

`RedisBus` EXTENDS it, chooses the store (`backend`) and adds what the Redis
store does between a command and the bus's channel: the network buffer of a
subscription (`wire`) and the goroutine `consume` (`consumer`, `carried`). A
turn of its loop ends with `ConsumeStops` (the select on `closeCh`; the context
is `context.Background()` and never ends), `ReceiveMessage` or `ReceiveFails`
(any other error of `ReceiveTimeout`: a broken connection, five idle seconds, a
PubSub that was closed), and `Forward` is its send on the channel. `onError` is
optional and `core/internal/boot/event.go:24` sets none, so `ReceiveFails` tells
nobody. `RedisPublish` is a PUBLISH command, which the client library repeats
when its answer is lost: the number of copies that arrive is 0, 1 or 2 and the
caller is told success or failure accordingly. `RedisUnsubscribe` closes the
PubSub and the channel on which `consume` may be about to send; `RedisClose`
closes the PubSubs and leaves the channels open, and `RedisCloseReturns` waits
for every `consume`. `MarshalFails` is the typed bus's encoding of an event.

### Key-value store: `SwiftStore`, `AtomicStore`

`backend` chooses Badger or Redis. On Badger every conditional write is `Read`
(which ends the call when there is nothing to write) then `Commit` or
`Conflict`, repeated by `update`; on Redis CompareAndSwap and CompareAndDelete
are the same with WATCH, INCR and SETNX are single commands (`Command`) and
EXPIRE follows as another (`ExpireCommand`). `stale` says that a key the
transaction has read was written since. The back ends differ where the code's
environment does: an expiry spoils a WATCH and not a Badger transaction, and
deleting a missing key is a write in Badger and none in Redis. MutateJSON and
ConsumeJSON (`BeginLoop`, `Get`, `Lose`) turn around these calls. A value is a
number, the count of a counter or the version of a document, and calls pass a
positive time to live.

`AtomicStore` has one step per write, on the value the caller was told. A key
that has expired may show its last value to a call that was under way.

### Authorization manager: `AuthzManager`, `RoleRegistry`

`RoleRegistry` has the pure part: definitions as records, the graph of each
domain and `expandInheritedRoles` as a recursive function of the map `visiting`
that yields the expansion of every role; its reference is reachability along
paths.

`AuthzManager` is one server instance. `p` and `g` are the rules in the
enforcer, `pTable` and `gTable` the rows of `casbin_rule`, `cache` is
`lastAssignments`, `mu` the owner of the lock. `call[t]` is what a goroutine is
doing: a service call, one of the three subscriptions or the start of the
process (`Boot`). `pc` names the next step:

| pc | code |
|---|---|
| `save`, `rule`, `cache`, `restore` | `AssignUserRole` and `RevokeUserRole`: switch saving off, change the enforcer, change the cached list under `mu`, switch saving on |
| `publish` | `PublishRoleAssign`, `PublishRoleRevoke`, `PublishRoleChanged` |
| `roles`, `assignments` | the loader of `boot/authz.go` (or the read of a service call) |
| `lock`, `clear`, `add`, `unlock` | `rebuildGroupingRelations` and `ReloadRoleRegistry` |
| `load`, `read` | `ReloadPolicy`; `load`, `policies`, `roles` ... `subscribe` is `InitAuthz` |

`op` tells apart what shares these steps. An operation of casbin's
`SyncedEnforcer` is one step; it writes the table if saving is on then, and only
then can the adapter fail. A slice given to a rebuild without copying
(`ReloadPolicy`) is `shared`: `filterAssignment` and `append` may then change
the elements its holder sees (`Shifted`, `Overwritten`).

Instances share the database and the bus and nothing else, so one of them is
modelled against all others: their commits and, at any later time and in any
order, their publications. The bus delivers each topic in order and may lose an
event. The repositories and services that change roles are not part of this
repository; the model follows the comments of the functions they call: commit,
then call the manager, then publish. Events with an empty name, which the
handlers drop, do not occur. Seeding system roles and merging them into what is
read is part of the definitions the table holds.

`raced`, `unsaved`, `cut` and `clean` are history variables: the grants whose
calls have overlapped a conflicting one (or a failing rebuild) since the list
was last loaded, or that the loaded list names twice, the policies changed while saving was off, whether the last
rebuild stopped half way, and whether the last one from the database was alone.

### Mail: `ConnPool`, `Mailer`

`ConnPool` has the goroutines that call Send, with the SMTP sender on a pool, on
one connection each time (`plain`), or the SendGrid sender (`kind`). No lock
spans the steps of a pool operation, so `Get` is cut into its test of `closed`,
the two selects on the channel (`pool`, `waiting`), the comparison of
`activeCount` and the dial, `Put` into its test and its select, `Close` into the
switch, the close of the channel and the draining. The server may drop a
connection at any time and a reply may be lost after the message was accepted. A
goroutine that takes the zero value of the closed channel, or sends on it,
panics and leaves behind what it holds. `Quit` is `client.Quit` of net/smtp with
its error ignored: a live connection is closed; on one the server has dropped
QUIT fails, `Quit` returns before it closes the socket, and the connection is
`abandoned`. Quitting and the decrement of `activeCount` that follows it are one
step, and `ContextDone` comes only where the next step looks at the context.
`activeCount` is thus a count of what has not been quit, not of sockets. Of the
SendGrid service `Request` assumes that it accepts a message whenever it answers
below 400, since `sendgrid.go:145` takes every such status for success.

`Mailer` is what callers may rely on: a Send begins only while the mailer is
open, reports success only of a message some server has accepted, and hands its
message over at most `MaxRetries` times. That a message is accepted once, or
that a failed one was not, is not promised.

### Who gets at what: `Tokens`, `RequestPath`, `TenantScope`, `TenantRows`, `AuditTrail`, `SignIn`, `AbacRules`

Seven small modules that `MCAccess` runs side by side: the variable `part` says
which of them a behaviour is about, and the others rest. They are independent in
the code too: each is driven by its own callers.

* `Tokens`: two instances of `JWTManager` with any two of ten configurations
  (algorithm, signing and encryption key, issuer, audience). A token is a record
  of what its maker put into it; signature and encryption are ideal.
  `StartManager` is `NewManager` with its checks of keys, `Generate` makes an
  access or a refresh token, and `ParseToken` has every early return; clocks
  count seconds, so the boundary comparisons of `exp` and `nbf` are exact.
* `RequestPath`: one user's request from its arrival to the handler, one action
  per look at the database or the enforcer: `BearerAuth`, `sanitizePath`, the
  role resolver with its failure modes, `EnforceRBAC`, the check by rule type.
  Roles, the enforcer and the user's token may change between any two steps.
  The user has an id; a token without one would skip the resolver
  (`middleware/authz.go:148`). The issuer of tokens is not in the repository and
  external. `Setups` are the ways the middleware can be wired; the router uses
  no resolver.
* `TenantScope`: the GORM callbacks as operators: what a query, create, update,
  delete or raw statement becomes under a context that carries a tenant, a
  bypass or nothing, and when it is refused. The keys of a map are columns
  here; the code compares their text and looks up no field names
  (`tenant.go:396`).
* `TenantRows`: the configuration service and the credential repository,
  statement by statement through these operators, with the callbacks wired or
  not. `row` of a call is what it has read; two callers overlap freely.
* `AuditTrail`: `NewEntry` with its cleaning, `Create`, `BatchCreate`,
  `ListByFilter` with the verification of each signature; between them rows are
  altered by others, and key, time zone and tenant of the server may differ.
* `SignIn`: two sign-ins with an OpenID provider or GitHub over one cache of
  discovery documents, from endpoints over token answer, keys and user
  information to the assertion. The provider's documents and keys change at any
  time; `TTL` and `FetchTimeout` bound how old a document can be.
* `AbacRules`: `isConstantTruth` and the recursive descent of
  `abac_validator.go`, the latter as a recursive function of positions in a
  sequence of tokens (each procedure an operator over what the procedures answer
  further on), with what `AddABACPolicy` stores. Letter case does not matter to
  the list and is left out; blanks do, and `usual` says whether the rule's are
  those of the list (`1 == 1` and `1==1` are on it, with two blanks it is not).
  `Derives` says which pieces of a rule a grammar derives, by the comment of
  `validateABACRule` (`Documented`) or by what the parser reads (`Readable`);
  `Plain` rules are those on which the two cannot differ. The run types every
  rule of up to five pieces.

### Conventions

`MC*` modules give the constants; `*Proofs` modules hold the theorems. An
operator introduced by "Seeded fault" is a wrong version of the definition that
follows it; replacing that definition by it must make the property it is paired
with in `PROJECT.json` fail.

## 3. The runs

| run | question | bounds | result |
|---|---|---|---|
| `WebhookOutbox_crash` | several instances, crashes, failing statements, Stop and restart: one owner, bounded requests, delivered before completed, everything settles, Stop returns | 2 processes with a goroutine each, 1 entry with 2 attempts, 1 fault, 1 restart | holds |
| `WebhookOutbox_pool` | one pool: atomic publication, nothing stranded, dead letters exhausted, refinement of `WebhookDelivery` | 2 goroutines (symmetric), 2 entries, one undecodable, 1 fault, 2 replays, batches of 1 | holds |
| `Dispatcher_retry` | a long call against every answer, defect and cancellation | 36 retries, so that the backoff overflows | holds |
| `Dispatcher_retryafter` | does the call fit the lease? | 3 retries, 10 s timeout, Retry-After up to 120 s, lease 300 s | violated |
| `SwiftBus_delivery` | both stores: order, accounted loss, silence after a cancel, handling of what was sent, panics in the two known races only, a Close that waits and returns | 2 subscriptions (on memory a plain and a wildcard one, on Redis one), 1 publisher, 2 messages, channels of 1 | holds |
| `SwiftBus_cancel` | does a cancellation disturb the other subscribers? | 2 subscriptions, 1 message | violated |
| `SwiftStore_atomic` | both back ends: atomic writes, one-time use | 2 clients, 2 keys, 3 calls, 2 attempts | holds |
| `SwiftStore_window` | does a Badger counter expire? | 1 client, 3 calls | violated |
| `AuthzManager_rebuild` | what enforcer, cached list, table and database agree on after any history of calls, events, failures and restarts | 1 caller beside 3 subscriptions and the start, 2 grants (symmetric), 2 roles in line or in a cycle and 2 commits, or a chain of 3 roles and 1 commit, 1 policy, channels of 1 | holds |
| `AuthzManager_insync` | is the cached list in sync with the enforcer? | the same with 1 grant and 2 roles | violated |
| `ConnPool_close` | Sends of each kind against Close: one user per connection, a right count, nothing left without a QUIT, refinement of `Mailer` | 3 senders (symmetric), 3 connections (symmetric), a channel of 2, 1 active connection, 2 attempts, 3 Sends | holds |
| `Access` | the seven parts of "who gets at what", one at a time | tokens: 2 instances, 10 configurations, lives of 1 and 2, clocks to 4; path: 2 roles, 5 setups; rows: 2 callers (symmetric), 1 configuration, 1 credential, 2 tenants, 4 contexts, counters to 2; audit: 2 entries, 2 inputs, 3 servers; sign-in: 2 sign-ins (symmetric), `TTL` 2, timeout 1, time to 4, 2 documents, 2 keys; rules: 5 of 11 pieces | holds |

Why the bounds are enough to be interesting: every conflict in this code is
between two parties (two owners of a row, a sender and a closer, two
transactions on a key), so two of each are there. One lease tick separates
"fresh" from "reclaimable". Two attempts give a first, a retried and an
exhausted state; a fault of one kind is enough to reach each recovery path; a
channel of one slot is full after one message; two attempts per transaction and
per loop reach both the retry and its end. What the bounds leave open is
covered, for the properties of section 4, by proofs for every value. In
`AuthzManager` two commits are enough for a local call and a remote event about
the same grant to meet, and the three subscriptions with a call make four
goroutines; two grants are needed for a removal to shift another entry. The
chain of three roles, whose rebuilds are the longest, is an instance of its own
with one commit (`ChainIsForItself` in `MCAuthzManager`): that an ancestor's
ancestors are followed does not depend on commits. In
`ConnPool` a third sender waits while two race for the one place, and both modes
of the count (dialled and pooled) occur; the second attempt is the last. In
`Access` each boundary second of a token's life lies inside the clocks; two
callers make an overlap and two tenants a stranger; a document may be replaced
twice within the life of the cache; five pieces give nested parentheses and
arrays. TLC's deadlock check is off where the system may rest: all entries
settled, a call returned, a bus closed, the bounded number of calls made, or, in
`Access`, every identity used. (An instance of `AuthzManager` can always
restart.)

`CompletedWasDelivered` and `ProcessingIsHeld` are conditioned on `faults = 0`
where a failed statement or a crash really breaks them; the faulty cases are
then covered by `EventuallySettled` and `RequestBudget`.

Fairness. `WebhookOutbox`: goroutines keep running and the clock ticks (weak
fairness of claim, process, exit, wait and time); nobody must publish, stop,
crash, restart or replay, and settling is only claimed while some process is up.
`Dispatcher`: every request ends, at the latest by its timeout, and every timer
fires. `RedisBus` (`FairBusSpec`): the goroutines of subscriptions and `consume`
and a Close that has begun keep running, handlers return, and reads of what has
arrived or of a closed PubSub end (`ConsumeGoesOn`); the select between
a message and the closing of a channel is not assumed to be fair, no connection
is obliged to break, and nobody must publish, cancel or close.
`SwiftStore_window` assumes running clients and an `Expire` for each key that
has a time to live; without it nothing would ever expire. `AuthzManager`, `ConnPool` and `Access` state no liveness and need no
fairness: an SMTP command carries no context and the code does not make a silent
server answer, so a Send need not end.

### What the violated runs show

* `Dispatcher_retryafter`: `Retry-After` replaces the capped backoff uncapped
  (`core/internal/event/dispatcher.go:661`), so one endpoint can make a dispatch
  outlast `processingLeaseTimeout`, which must exceed "the longest possible
  dispatch" (`repository/webhook.go:170`). Then `MaxHold <= Lease`, the
  assumption of the ownership theorems, is false.
* `SwiftBus_cancel`: `MemoryStore.Publish` sends on a copied channel that
  `Unsubscribe` has closed; the panic keeps the remaining subscribers from their
  message.
* `SwiftStore_window`: `BadgerStore.Increment` writes a counter that exists
  without its time to live (`badger.go:167`), so it never resets.

* `AuthzManager_insync`: `AssignUserRole` has changed the enforcer and not yet
  the list when the handler of an older revocation removes the rule again and
  finds nothing to remove from the list; the assignment is then appended. The
  list keeps a role that was revoked, and `ReloadPolicy` or `ReloadRoleRegistry`
  would grant it again. `InSyncUnlessRaced` says how far the comment is true:
  only grants with such an overlap differ. The mark `raced` must outlive a
  rebuild from the database in one case: a `ReloadPolicy` that has read the old
  list before that rebuild loads it after, and if two overlapping calls left a
  double entry in it, a later revocation takes away one of the two
  (`Repeated`).

### Further differences between code and comments, kept in the models

* `DispatchWithRetry` makes `max_attempts + 1` requests on a first dispatch
  while the lease's comment counts `max_attempts` (`worker/webhook.go:267`);
  `RequestBudget` states the exact number of the nested retries.
* `runWorker` may claim once more after Stop, its select having no priority
  (`worker/webhook.go:198`).
* `ReplayDeadBatch` without a limit handles 1000 entries
  (`worker/webhook.go:168`).
* The backoff overflows at the 35th attempt and `Int63n` panics
  (`dispatcher.go:361`); `PanicsOnlyOnOverflow` says that nothing earlier does.
* `Attempts` counts attempts that made no request; 3xx and 429 are retried; a
  2xx answer with an unreadable body is a failure (`dispatcher.go:617, 216,
  48`).
* A Subscribe that passed its check before Close adds to the WaitGroup after
  Wait (`bus.go:62`): `CloseWaitsForAll` is stated for the subscriptions that
  were complete when Close began.
* On Redis `Unsubscribe` may close the channel under the send of `consume`, and
  the process panics (`redis_store.go:150`); Close leaves the channels open. On
  the memory store a CancelFunc, or Close alone (`memory_store.go:85`), closes
  channels that a publisher has copied and is about to send on.
  `PanicsNeedARace` says that these two races are the only ones.
* An idle subscription on Redis ends after five seconds: the network's timeout
  is not `context.DeadlineExceeded`, the error the comment calls normal
  (`redis_store.go:194`). Without `onError`, as the server is wired, the end is
  "silently lost" (`redis_store.go:55`). `SentIsHandled` says that nothing but a
  failed read silences a live subscription. The subscription to `*` of the
  webhook service (`service/webhook.go:38`) hears nothing on Redis, and a repeated PUBLISH
  delivers twice: `InOrder` allows repetitions.
* `BadgerStore.DeleteByPrefix` does not reset its count when its transaction is
  repeated (`badger.go:343`), and `RedisStore.Increment` may leave a counter
  without expiry between INCR and EXPIRE (`redis.go:76`).
* Grouping rules are to stay in memory (`authz/authz.go:173`,
  `authz/README.md:93`). All calls share one switch: whoever ends first switches
  saving on while others still change rules, whose rows then reach the table
  (`gTable`), and a later `LoadPolicy` brings them back. For the same reason a
  policy that is added while any role call is in progress is not stored and is
  gone after a reload (`unsaved`).
* `filterAssignment` "returns a new slice" (`authz.go:608`) and edits the old
  one, which `ReloadPolicy` may be about to use (`authz.go:560`).
* Connections `NewConnPool` opens are counted twice (`conn_pool.go:46` and
  `:169`), and each takes a place of `MaxActive` for good; check and dial are
  two steps, so more than `MaxActive` may be open. `CountIsConnections` states
  the exact relation. Closing a broken connection wakes nobody who waits. A Get
  that meets Close returns no connection and no error, and its Send panics; a
  Put that meets it panics too and leaks. `Put` is to close by force what has
  failed (`conn_pool.go:89`), but a connection the server has dropped stays open,
  there as in Get and Close, since its QUIT fails and net/smtp then does not
  close it (`conn_pool.go:63, 80, 96, 104, 116`). `CloseQuitsAll` says no more
  than that Close quits every connection.
* A permanent refusal of a recipient is retried like any error; a message whose
  reply was lost is sent again.
* `ParseToken` does not look at the type of a token, and `nbf` has no leeway.
* `EnforceRBAC` does not use the roles of the token, though the comment in
  `middleware/authz.go:65` says they are used. Without a resolver (the router
  wires none) a revocation counts when the enforcer has it.
* `RegisterCallback` is called only by tests: the server runs without tenant
  callbacks (`wired` is false), and `findActiveByEvent` then matches
  configurations of every tenant. With them `VerifyAndIncrementSignCount` is
  always refused, since its struct names `tenant_id`, and `handleEvent` finds no
  configuration under the background context. Upserts and raw SQL whose
  destination GORM cannot see are outside the callbacks.
* `VerifyAndIncrementSignCount` says "atomically" (`repository/webauthn.go:125`)
  and reads and then writes; `OnlyOverlapsLose` says that only overlapping calls
  can set a counter back.
* An invalid result is stored as "unknown" and not as "success" (`audit.go:56`).
  Severity, detail, address, agent and snapshots are not signed. The zone of the
  server is part of the signed text, so a change of zone makes entries
  unverifiable, and an entry stored under another tenant's context reads as
  altered from the start.
* User information overrides the `sub` of the id_token (comment at
  `oidc.go:211`), and the claims merge key by key, so the `email_verified` of
  one source may meet the address of the other.
* The grammar in the comment (`abac_validator.go:12`) allows `(expr) op ...`
  where an expression begins, which the parser refuses, and does not allow
  `(expr)` alone, empty arrays or arrays of other operands than literals, which
  it accepts. An empty rule is stored. Whether an attribute is of the subject or
  the object is not checked, and an unknown character counts as an identifier.
* A rule must name an attribute of the request, and constant expressions are
  always rejected (`authz/README.md:110`, `:226`): the list of
  `isConstantTruth` has four texts, and `1 != 2`, `(1 == 1)`, or `1  ==  1` with
  two blanks, are stored. Of the four the parser alone would refuse `true` and
  `r.sub == r.sub`.
* Between `ClearRules` and the last `AddRule` requests are decided with a part
  of the rules; the lock of the manager does not cover `Enforce`.
* What others commit between the start's reading of the tables and its last
  subscription is missed (`boot/authz.go:63`), and so is a lost event, until the
  next `role.changed`.

## 4. The proofs

All theorems hold for every value of the constants that the modules' named
assumptions allow; the bounds (`MaxFaults`, `MaxCalls`, ...) are arbitrary
naturals.

`WebhookOutboxProofs`
* `TypeCorrect`: `Spec => []TypeOK`.
* `OneOwnerPerEntry`: `MaxHold <= Lease` implies `[]SingleOwner`. Ownership
  alone is not inductive: a second claim is excluded only because the row is
  young. `Ownership` adds that the age of a held row equals the time its owner
  has held it and is at most `MaxHold`; so a held row cannot be older than the
  lease, and `Claimable` is false.
* `OutboxImplementsDelivery`, under the same assumption, with `WonIsAcked` (a
  goroutine that is about to complete its entry has the endpoint's 2xx): each
  statement maps to one step of `WebhookDelivery` or to a stutter.
* `PublicationIsAtomic`: `[]AtomicPublish`, without any assumption on time. The
  invariant says in addition what an open transaction has staged and that
  entries goroutines work on are visible.
* `NothingIsStranded`: `[]ProcessingIsHeld`, with `GoneAreOff` (a process that is
  stopped or down has no goroutine): else a Stop that returned could take a
  holder away.
* `CompletedMeansDelivered`: `[]CompletedWasDelivered`, without any assumption on
  the lease: what a goroutine that lost its lease writes is still true of the
  endpoint. `DeliveredInv` adds what the goroutine that is about to complete an
  entry knows (`WonIsAcked`) and has written (`WonIsLogged`).
* `DeadMeansExhausted`: `[]DeadIsExhausted`, also without an assumption on time:
  two goroutines may hold one row, and one may write the attempt it read before
  the other wrote. `ExhaustedInv` adds that only undecodable entries take the
  shortcut to a dead letter and that unseen rows have no attempts.
* `RequestsAreBounded`: `MaxHold <= Lease` implies `[]RequestBudget`. The bound
  is no invariant by itself, since it says neither how far a dispatch has come
  nor what an entry at attempt `a` has used. `BudgetInv` does: an entry nobody
  works on has used at most `a(2m + 3 - a)/2` requests, a goroutine's entry as
  much and what this dispatch has sent, each plus a dispatch for every fault.
  All is stated in doubled numbers, so that the provers meet no division; the
  lemmas about `TwiceUsed` are the only arithmetic.

`DispatcherProofs`
* `DispatcherType`, `AttemptsCounted` (`CountInv` gives the relation between
  attempt, total, sent and reported at each program point) and
  `DispatcherImplementsRetryLoop` (`WinInv`: a success is pending only between
  an attempt and the return).
* `NoPanicBeforeOverflow`: `[]PanicsOnlyOnOverflow`, and `SettledCallsAreSilent`,
  the action property `NoRequestOnceSettled`. `SettledInv` says of each program
  point what may have been decided there: no request is due after a success, a
  final answer or a cancellation that the loop has seen.

`SwiftStoreProofs`
* `StoreType`: in particular no transaction and no loop exceeds `MaxRetries`.
* `ConsumedOnce`: `[]OneTimeUse`. The invariant is `ReadIsCurrent` (a
  transaction about to commit that nobody has spoiled has read exactly its key,
  goes by its current value or, on Badger, by the value it had before it
  expired, and its condition held for that value) with `IssuedOnce` (a key that
  holds a value has no uses since it was issued).
* `StoreImplementsAtomicStore`: from `ReadIsCurrent`, each commit is the
  abstract write on what it read.

`AuthzManagerProofs` (over `RoleRegistry` and `AuthzManager`)
* `LoadRefusesCycles` and `RulesAreReach`: for every set of definitions, `Load`
  refuses exactly those with a cycle, and its rules are exactly reachability
  along paths. A recursive function is only known to satisfy its equation once
  some function does: `ExpansionExists` builds one, unfolding the equation once
  more for each role outside `visiting`. `Sound` then says of a role below a
  path that without a `Loop` the result is what the role reaches and none of it
  is on the path or on a cycle, and that with one it is not so
  (`SolutionsAreSound`). Both go by the number of roles left, as a set of
  naturals with 0 and every successor (`AllNaturals`). That reachability with
  paths no longer than the number of roles is closed under parents
  (`ReachedIsClosed`) needs the pigeonhole principle: a longer path meets a role
  twice and can be shortened.
* `TypeCorrect`: `[]TypeOK`. `BaseInv` adds to it what each program point has in
  its call (`Sane`) and that a rebuild that clears has put its list in the cache.
* `RebuildsNeverMix`: `[]RebuildsExclude`, for any grants, definitions and
  calls; it rests on `CallShape` (every goroutine has a call that is somewhere).
* `StoredWhenQuiet`: `[]PoliciesAreStored`. It speaks of moments when nothing is
  going on and says nothing of a step in between; the invariant adds
  `SavingReturns` (saving is on, or some call has yet to switch it on) and
  `StoredUnlessUnsaved` (from the first load of the process to its end, the
  copies differ in unsaved policies only). `OrdinaryStep` collects what most
  actions have in common, so that the other lemmas only show the exceptions.
* `InheritanceFollowsDefinitions`: `[]InheritanceIsReachability`, from
  `RulesAreReach` and `ReachInv`: outside a rebuild that was not cut short the
  rules besides grants are those of `lastDefs`, and a rebuild that adds has still
  to add just what is missing. It is claimed only while no call is `Doomed`:
  has put the rows of the table in place of the rules and has yet to take the
  lock, or is starting or ending the process.
* `CacheStaysInSync`: `[]InSyncUnlessRaced`. A grant whose change of the cached
  list is pending is, for that time, in one of the two and not in the other.
  `SyncInv` counts it: of a grant not marked as raced at most one change is
  pending, it lies in the list at most once (`Once`), and which of enforcer and
  list has it follows from the pending change (`SyncOf`); during a rebuild, from
  what it has yet to add. Steps are classified: `Steady` ones touch none of this,
  `Effective` ones are taken one by one. The shift of a shared slice under a
  `ReloadPolicy` is one of them.
* `RebuildsDoHeal`: `[]RebuildHeals`. Agreement at rest is the end of a chain, so
  `HealInv` has a link for each part. A rebuild whose inputs no commit has
  outdated (`Fresh`) finds bus and other calls calm and brings what the database
  holds (`FreshInv`); while `clean` holds, bus and calls are calm and the cached
  inputs are the committed ones (`CleanInv`); and in both cases rules, or rules
  and what the rebuild has yet to add, are those of the cached inputs
  (`RulesInv`).

`AccessProofs` (over `Tokens`, `RequestPath`, `SignIn` and `AbacRules`)
* `TokensAreOurs`: `[]AcceptedIffOurs`, for any configurations and clocks. The
  invariant keeps, of the token that is about, what its maker put into it; the
  key sizes follow from `NewManager`.
* `ServedWasEntitled`: `[]ServedIsEntitled`, for any roles and setups: each
  program point carries what has been established on the way to it.
* `SignInsStaySound`: `[]SignInsAreSound`, for any number of sign-ins, any life of
  the cache and any documents and keys. The invariant adds that a cached document
  expires no later than its fetch allows (`CacheInv`), that a fetch in progress
  began before its document was replaced, and that the key of a token which is
  waiting is published. `SignInAssumption` says that GitHub's answer is a list
  and that the provider has a first document.
* `ParserRecognisesGrammar`: a rule of any length is accepted exactly when it is
  empty, or readable and not the listed `1 == 1`; that the parser refuses the
  other listed truths anyway is part of the proof. `PlainRulesAreDocumented`: on
  plain rules the parser's grammar is the one of the comment, by induction over
  the length of pieces. `StoredRulesDerive`, `[]StoredAsDocumented`, follows from
  both for the store. Parser and grammar are recursive functions, so four
  facts make up the proof: the parser's equations have a solution, since every
  procedure looks only further on (`ReadingExists`), and the grammar's, which
  look only at shorter pieces (`GrammarExists`); what a procedure reads from a
  place on is derived, from the end of the rule backwards (`AllIsRight`); and what
  is derived is read, from the shortest pieces on (`AllIsRead`). For a list inside
  brackets the two sides differ in shape, the loop of `parseArray` against the
  grammar's nesting: what stands after an operand (`more`) has to be carried
  along. The inductions are over sets of naturals (`AllNaturals`), from the
  well-foundedness of `<`.

`TenantProofs` (over `TenantScope`, `TenantRows`, `AuditTrail`)
* `TenantsKeepApart`, `OverlapsAloneLose`: the action properties
  `TenantIsolation` and `OnlyOverlapsLose`. Both need that a caller's copy
  belongs to its tenant, and that the copy is the row as it stands unless the
  call is marked as overlapped.
* `ListingIsHonest`: `[]ListedAsAsked`, with the invariant that a row keeps the
  signature `NewEntry` made of what was asked for.

`ConnPoolProofs`
* `ConnectionsHaveOnePlace`, `CountIsRight`, `CloseQuits`,
  `SendersAreMailers`: the four properties of `ConnPool_close`. They rest on one
  invariant, `PoolInv`: the types, that a sender holds a connection exactly
  where it uses one, that attempts are within their limit, that those who wait
  are in order and find the channel empty, and that Close goes through its
  stages; connections then are in one place (channel, hand of a sender, or hand
  of Close). For the SendGrid sender `OneRequest` says in addition that a
  message is handed over once.

`RedisBusProofs` (over `SwiftBus` and `RedisBus`, both stores)
* `OrderIsKept`, `CancelIsSilent`, `CloseWaits`, `LossesAreKnown`,
  `PanicsHaveARace`: the five safety properties of
  `SwiftBus_delivery`, for any subscriptions, publishers, topics, capacity and
  number of messages. Neither order nor the account of losses is inductive for
  what handlers have got. `BusInv` speaks of `Path(s)`, the whole way of a
  subscription's messages from its handler back to the wire: it is sorted
  (`PathInv`), holds nothing its publisher has yet to send, nothing published
  after the cancellation (`LateInv`) and everything promised and not known to be
  lost (`SawInv`, `KeptInv`). Most steps move a message along the path; `Send` and
  `RedisPublish` alone lengthen it, and only the end of a subscription shortens
  it. `StoreInv` and `ConsumerInv` say what Close, a cancellation and a consumer
  have done so far, and `PanicInv` which publisher may meet a closed channel.

What the theorems assume of the constants, and why the code justifies it:
`MaxHold <= Lease`, where a theorem names it, is the comment on
`processingLeaseTimeout` (and `Dispatcher_retryafter` shows that the code does
not enforce it). `AuthzAssumption` has finitely many grants in the tables, as
rows are; no user that bears the name of a role, since users are ids the
database gives out and roles are names; and distinct identifiers for nobody, the
goroutines and the commits, which are the model's own.

Only model-checked: all liveness (`EventuallySettled`, `StopReturnsEventually`,
`Returns`, `BufferedIsHandled`, `SentIsHandled`, `CloseReturns`;
`CounterExpires` is refuted by its run), since TLAPS does not handle fairness
here. Every safety property of a passing run is a theorem.

## 5. What could follow

1. Proofs: the safety half of `EventuallySettled`, that a step that settles an
   entry is always possible while a process is up.
2. The ABAC enforcer beside the RBAC one in `AuthzManager`, and the matching of
   a request against policies with wildcards.
3. Pure functions: the tolerance window of webhook signatures, the address
   filter.
4. The composition of outbox, bus and configurations: an event from its
   transaction to the endpoints of the configurations that want it.

## 6. What is not modelled, and why

* Webhook signer, address filter, field validation, encodings, images and random
  strings: functions of their inputs without state; tests reach them.
* `pkg/crypto`: signatures and encryption are ideal in `Tokens` and
  `AuditTrail`.
* The mock SSO provider (a development aid), registries of plug-ins (filled once
  at init), the captcha providers (reCAPTCHA, Turnstile, GeeTest: one HTTP
  request each, no state), password identity (a comparison of hashes), payment
  and relay (types and a registry).
* `boot.go`: one goroutine wires the components and stops them in reverse order;
  their starts and stops are actions of the components.
* Schemas without code and the web front end.

Left out of modelled parts: decoding in the typed bus; request limits and
headers of `security.go`; `Update` and `DeleteByUserID` of WebAuthn credentials
as single statements; the lexer of ABAC rules (its texts of tokens: an
unterminated string or `1.2.3` is a token, a `false` loses its first letter);
the matching of a request, the ABAC enforcer and
`InitRoleRegistry` (tests only) of the authorization manager; gorm's `Save`,
which the repository does not use. `WithdrawKey` of `SignIn` assumes that a
provider keeps a retired key published while a token it signed is waiting.

Redis, the SQL database, Badger, casbin, SMTP servers and the client libraries
are modelled only as far as the code relies on them (external entries of the
map): atomic statements, row locks, visibility after commit, WATCH, lost and
repeated commands. Metrics, log lines and texts are left out. Handlers that call
Close of their own bus, zero times to live and JSON documents used as counters
do not occur in the repository and are not modelled.
