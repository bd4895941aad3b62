# TicketFlow: specification and proofs

TLA+ models of TicketFlow (a FastAPI help-desk API over PostgreSQL, Redis,
WebSockets and webhooks), the TLC configurations that check them, and theorems
about them checked by TLAPS. Paths below are relative to the repository.

## The system

| Component | State | Operations | How it meets the others |
|---|---|---|---|
| Ticket and comment store (`app/services/ticket_service.py`, `comment_service.py`, `models/`) | rows of `tickets` and `comments`; row locks of open transactions | create, update, delete, change status, comment; get, list | called by the routes, each request with its own session; commits before every side effect |
| Caches (`cache_service.py`, `dashboard_service.py`) | in Redis: the list version, list entries keyed by version, scope and filters, one dashboard entry | resolve key, look up, store, invalidate; four aggregate queries | filled by readers after their query, invalidated by mutations after their commit |
| Live events (`ws_manager.py`, `api/v1/ws.py`) | channel membership, in memory | connect, disconnect, broadcast | broadcasts follow commit and invalidation in the same handler |
| Webhooks (`webhook_service.py`, `models/webhook.py`) | registrations and the delivery log in PostgreSQL; background tasks in memory | register, deactivate, schedule, deliver, record | targets are snapshot in the handler, delivered after the response |
| Rate limiter (`rate_limit_service.py`) | one counter with a TTL per client | consume | before login and ticket creation; fails open |
| Accounts (`auth_service.py`, `core/security.py`, `core/deps.py`, `seed.py`) | users; signed tokens held by clients | register, log in, refresh, authenticate, seed | decides user and role of every request |
| Sessions and pool (`db/session.py`) | pooled connections, open transactions | open, close | every handler and every delivery |
| Routes, schemas, errors, health, start-up, migrations | none | translate, validate, wire | |

What is hard in it: sessions interleave at every `await`, and only a row lock
separates a check from the write it guards; `session.refresh` reads again
*after* the commit has released that lock; caches are filled and invalidated
outside any transaction; Redis may fail, lose its data, or expire a key at any
time; a connection or the process may be lost between any two statements;
notifications and webhooks are best effort and unordered between handlers.

What makes each component correct:

- **Store**: concurrent requests amount to atomic operations judged on current
  rows: edits and deletions only while `OPEN` and only by the owner, one
  workflow step at a time, one winner per step, no column lost, no comment
  without a ticket; every request is answered.
- **Caches**: an answer given after an invalidation contains the mutation it
  was for; what failed to be invalidated does not last.
- **Live events**: who is subscribed when a change commits is sent its event
  unless the connection breaks; no empty channel and no dead socket stays; a
  client that stops reading does not hold a publisher up for ever.
- **Webhooks**: each captured target is tried at most once, independently of the
  others, nothing is sent to who had left before, and the log tells the truth.
- **Rate limiter**: bounded bursts, a Retry-After that can be relied on, and a
  blocked client is admitted again.
- **Accounts**: one user per address, true answers, an agent to serve the
  customers, sessions that end.
- **Pool**: requests cannot wait for each other's connections for ever.

`PROJECT.json` lists every component, and under `hazards` each hard case at its
line with the properties that watch it.

## Modules

| Module | What it is |
|---|---|
| `Tickets` | vocabulary: the statuses, the workflow table, ids without a row |
| `TicketLifecycle` | abstract specification: the tables under five atomic operations |
| `TicketStore` | the request handlers over PostgreSQL, one action per statement; its properties; `Lifecycle == INSTANCE TicketLifecycle` |
| `MCTicketStore` | symmetry for TLC |
| `TicketStoreProofs` | theorems about `TicketStore` |
| `TicketCache` | the two caches beside a database reduced to a commit counter; its properties |
| `MCTicketCache` | symmetry for TLC |
| `TicketCacheProofs` | theorems about `TicketCache` |
| `LiveEvents` | sockets, the connection manager and the handlers that broadcast; its properties |
| `MCLiveEvents` | which request is about which ticket in the instance |
| `LiveEventsProofs` | theorems about `LiveEvents` |
| `DeliveryPromise` | abstract specification: what is promised of one event and one registration |
| `WebhookDelivery` | registrations, handlers, background deliveries, log and pool; its properties; `Promise == INSTANCE DeliveryPromise` |
| `MCWebhookDelivery` | the events of the instance |
| `WebhookDeliveryProofs` | theorems about `WebhookDelivery` |
| `AddressBook` | abstract specification: each address is given away once and each request answered once |
| `Accounts` | users, registrations, the seed and tokens; its properties; `Book == INSTANCE AddressBook` |
| `MCAccounts` | the addresses of the instance |
| `AccountsProofs` | theorems about `Accounts` |
| `RateLimiter` | the Lua script, `consume_rate_limit` and the clock; its properties |
| `RateLimiterProofs` | theorems about `RateLimiter` |

`TicketStore`, `TicketCache`, `LiveEvents` and `WebhookDelivery` are four views
of the same handlers: each keeps the commit and the part of what follows it that
is its own, and lets the rest fail where the code may (`FailAfterCommit`,
`HandlerFails`, `InvalidationFails`). They share no state but the database,
which each reduces to what it needs of it, so they are not composed further.

### TicketStore and the code

A request `r` goes `idle`, possibly `queued` (it waits for a connection),
`arrived` (it has one; authenticated, role checked, payload validated),
`holding` (inside its transaction, with the row lock), `committed` (the commit
is done and the lock gone, the refresh is not), `answered`.

- `Arrive`, `Connect`, `ConnectTimesOut`: the SELECT of the user begins the
  session's transaction and checks out a connection, which the handler keeps,
  also while it waits for a row lock, until the transaction ends (`Connected`).
  A request that finds the pool empty waits for one, 30 seconds at most.

- `SelectForUpdate` / `TicketNotFound`: `get_accessible_ticket(for_update=True)`
  and the locking SELECT of `change_ticket_status`. PostgreSQL re-evaluates the
  WHERE clause after waiting, so a waiter that outlives a delete finds nothing.
- `UpdateOpenTicket`, `DeleteOpenTicket`, `ChangeTicketStatus`,
  `CreateComment`, `TicketStateError`: check and commit, or 409. Nothing can
  happen between a handler's check and its commit that others can see, so the
  two are one action; other handlers' steps fall before, between the SELECT and
  this action, and after.
- `CreateTicket`: INSERT and COMMIT. There is no row to lock; `Fresh` is
  `uuid4()`: no id is drawn twice.
- `Refresh`, `RefreshFails`: `session.refresh` as the separate unlocked SELECT
  it is, for which the pool must have a connection again. `FinishDelete`: a delete has
  nothing to refresh.
- `LoseConnection`: the connection, the client or the process goes away. Before
  the commit everything is rolled back; after it the change stays although the
  client is told of an error, or nothing.

Content is abstracted to *who wrote it*: `content[t][f]` is the request that
last wrote column `f` of `t`. That is enough to see a lost update. `before`,
`after` and `outcome` are `old_status`, the refreshed `ticket.status` and the
response. `landed` is a history variable.

The role 403s of `require_agent` and `require_customer` change nothing and are
left out: `PermittedCalls` is what they let through.

### TicketCache and the code

A database snapshot is the number of mutations committed by then, so "older" is
`<`. `at[m]` and `bumped[m]` number a mutation's commit and the list version it
made current. An entry holds the age of the oldest statement it was computed
from; a dashboard entry also holds its four totals. `Begins` records in `seen`
which mutations had finished invalidating, the point of reference of both
freshness properties.

Every Redis call may fail where the code swallows a `RedisError`: `ResolveFails`,
`ListMiss`, `SkipStoreList`, `StatsMiss`, `SkipStoreStats`, `InvalidationFails`.
The last also stands for a handler that never reached the invalidation.
The two statements of `list_tickets` are one action: the first snapshot is the
older one, and the age of the response is its age. `LoseRedis` empties Redis.
The SHA-256 of the canonical parameters is the constant set `Keys`.

### LiveEvents and the code

A socket goes `new` (the handshake waits), `admitted` (token, user and access
are checked, the session is closed), `accepted` (the first half of `connect`),
`serving` (registered, waiting in `receive_text`), `closed`. A handler goes
`changed` (committed), `to_ticket`, `between`, `to_dashboard`, `done`: its two
calls of `broadcast`, first in the channel of the ticket it is about (the
constant `about`). All code runs in one event loop, so what stands between
two awaits is one action, and so is each body under the manager's lock, which
contains no await. `waiting` are the sends `gather` still waits for, each of
which ends by itself; `stale` those that failed; `CleanUp` subtracts them from
the membership as it is *then*.

`connections` is a function whose domain is the dictionary's keys, so an empty
channel that stayed would be visible. `line` is the client's side: `stalled`
stands for a client that does not read, to which `send_json` waits for buffer
space; uvicorn's keepalive ends that (`PingTimeout`). `due` is a history
variable.

### WebhookDelivery and the code

A request goes `idle`, `working` (its transaction is open), `committed`,
`refreshed`, `scheduled` (the task is added), `dispatching` (the response is
out), `done`, or `failed`; a delivery `queued`, `posting`, `answered`, `writing`,
then `logged`, `rejected` (by the CHECK of the table or its foreign key) or `lost`.
`known` is a history variable: what each registration was to the request when it
committed. The snapshot (`Captured`) is taken later, in another transaction.

Handlers and deliveries draw from one pool. A request has a connection from the
SELECT of its user to its commit, and takes another for its refresh, which it
keeps until its session is closed. Whether that is before or
after its background tasks depends on the FastAPI version, and
`requirements.txt` admits both; `outlives` chooses. What makes a circular wait
end is only the pool's 30-second timeout (`BeginTimesOut`, `RefreshTimesOut`,
`SessionTimesOut`), at the price of a 500 or of a row in the log.

### Accounts and the code

The container runs the seed and then, if it succeeded, the server (`server`);
registrations are lost when it stops. `CheckFree` to `Insert` is the time the
password is hashed in a thread, in which anybody else may register the address.
`Insert` waits for an uncommitted insert of the same address, as the unique
index makes it; `InsertViolates` is the `IntegrityError`. Spellings of an
address are values and `normalize` a function on them, so that what is stored,
compared and looked up may differ; `users` are keyed by who created them.

Tokens are stateless, so all that can be said of one is how long it will be
accepted: `access[i]` and `refresh[i]` are that for the latest token of user
`i`, which can do whatever earlier ones can.

The refinement of `AddressBook` forgets spellings, hashing, waiting inserts and
the server: `Table` is the rows, `Asked` the normalized address of each request,
`Answers` what it was told. The commit is where an address is given away, and a
stop leaves every request under way without an answer.

### RateLimiter and the code

One key, since keys do not influence each other. Redis runs the script
atomically; the interleaving is between requests and the clock. Time passes in
fractions of a second because TTL *rounds* to seconds while expiry is exact, and
`Retry-After` comes from TTL. `count` stays at `Limit + 1`, past which the code
tells no values apart. `EvalFails` is a call that raised, with the script run or
not. `LoseTtl` is what the script's repair is for, and `LoseRedis` a restart.
`ages` (when the latest admissions were), `calls` (the same of the latest runs
of the script, whatever became of them) and `promised` (the soonest end a
refused client was told) are history variables.

## Runs

| Run | Shows | Instance |
|---|---|---|
| `store` | safety of the handlers, the inductive invariant, and that they implement `TicketLifecycle` | 1 ticket, 2 customers, 1 agent, 2 columns, 3 requests, 3 connections |
| `store_progress` | every request that arrives is answered | 1 ticket, 1 customer, 1 agent, 3 requests, 2 connections |
| `status_report` | *violated*: an acknowledged status change reports one transition | 1 ticket, 2 requests, 2 connections |
| `cache` | freshness of lists, and its inductive invariant | 2 mutations, 2 list clients that repeat, 1 key |
| `cache_heals` | stale entries do not last | 1 mutation, 1 list client and 1 dashboard client that repeat, 2 keys |
| `dashboard_stale` | *violated*: the dashboard reflects completed invalidations | 1 mutation, 2 dashboard clients |
| `dashboard_torn` | *violated*: the counts add up to the total | 1 mutation, 2 dashboard clients |
| `live` | membership, delivery of events once and to all, access; handlers finish | 2 sockets, 2 handlers of different tickets, 2 tickets and the dashboard |
| `webhooks` | deactivation, the refinement of `DeliveryPromise`, no starved receiver, no circular wait | 2 requests of different events, 2 registrations of any event, 2 connections |
| `webhook_unlogged` | *violated*: every attempt that reached the database is in the log | as `webhooks` |
| `accounts` | unique addresses, true answers, an agent, ending sessions, and that it all implements `AddressBook` | 3 registrations, 3 spellings of 2 addresses, either the agent's; lifetimes 2 and 3 |
| `rate_limiter` | bursts, no early refusal, Retry-After, recovery | limit 2, window 3 seconds of 4 ticks, 2 lost TTLs |

Bounds. In `TicketStore` the bound is the number of requests, each made once
(hence no deadlock check: all requests may be answered). Three requests on one
row are a holder, a waiter and one that comes after either; the table starts in
any status, so no run spends requests on getting there. Rows only interact
through requests that name the same ticket, so one ticket suffices. In `store`
every request finds a connection, so that nothing keeps their steps apart; in
`store_progress` a holder of the lock and a waiter that keeps its connection can
fill the pool, with a third request queued for a connection. In
`TicketCache` mutations are bounded and clients are not: they ask for ever.
Two mutations give the orders of commit and invalidation that differ, and two
readers a slow and a fast one.

In `LiveEvents` two sockets may share a channel or not, so one can fail, join or
leave while the other is being sent to, and two handlers overlap in the
dashboard's channel and each have a ticket into whose channel the other's event
could stray. In `WebhookDelivery` both registrations may match one event, one, or
none, and with two connections two requests can hold the whole pool while their
deliveries wait for it. In `Accounts` two registrations race for one address in
different spellings while a third takes, or is refused, the other, which a later
start wants to seed. In `RateLimiter` a second has four ticks, so that TTL rounds
down, up and to 0, and three seconds leave room for a `Retry-After` of one, two
or three; a limit of two tells the first call of a window from the last it
admits; `MaxLosses` bounds how often the TTL is lost, without which
no client would ever be sure to get through.

The bounds do not limit the proofs, which are for every value of the constants.

Fairness. `TicketStore!FairSpec` assumes weak fairness of each request's handler:
uvicorn's event loop runs what can run, PostgreSQL grants a row lock that
stays free, and the pool hands out a connection or gives up. Strong fairness
is not needed: finitely many requests contend.
Clients need not call and connections need not fail. `TicketCache!FairSpec`
only assumes that what has a TTL expires, per key; clients, handlers and
mutations may stop anywhere. `LiveEvents!FairSpec` assumes that uvicorn's ping
ends a stall that lasts, and strong fairness of a handler's own steps: a send to
a client that stalls and resumes for ever gets through one of those times, since
every resumption empties the buffer. `WebhookDelivery!FairSpec` assumes weak
fairness of each request's own work, the pool's timer included, but *nothing* of
receivers: the HTTP client's timeout is per read, so an answer may never come.
The liveness properties are therefore that every target is *tried*, and that a
request ends once its receivers have answered or failed. `RateLimiter!FairSpec` assumes
that time passes and that clients keep trying: a key that lost its TTL is only
repaired by the next call. `Accounts` has no liveness property.

The four violations are what the code does, and each contradicts a docstring
quoted in `PROJECT.json` under `findings`:

1. `change_ticket_status` pairs an `old_status` read under the lock with a
   status read after it. Two agents who move a ticket on in quick succession can
   make the first one's response, event and webhook say `OPEN -> RESOLVED`.
   What does hold, and is proved, is `ReportedChangeMovesForward`.
2. `dashboard:stats` is a fixed key, so a slow dashboard request can put the old
   statistics back after a mutation deleted them. The versioned list keys do not
   have this problem, which is proved; the TTL ends it, which is checked.
3. The dashboard's total and groupings are four READ COMMITTED statements.
4. A receiver that answers with a status from 600 to 999 violates the CHECK of
   `webhook_delivery_logs`: the attempt is in no row.

## Proofs

`PROJECT.json` lists the theorems under `theorems`. Every safety property that a
passing run checks is a theorem, the action property and the three refinements
included. Others are stated only in a proof module, beside their theorem: they
speak of every step, or bound how far something that does go wrong can go.
They hold for every value of the constants under the assumptions named here.

`TicketStoreProofs`: any tickets, users and requests, from `StoreAssumption`
(roles are disjoint, there is a column to edit, the "nobody" values are not
requests, and the pool has a connection):

1. `TypeCorrect`. Its content is that `None`, what follows `CLOSED` in the
   workflow table, is never written.
2. `LockingHolds`: `LockDiscipline` (a row lock is held exactly while its
   request is `holding`), `JudgedOnCurrentRow`, and `IdsAreFresh`, together. The
   last is needed because an INSERT also writes the status column and must not
   hit a row somebody holds. `StatusCommit` is the lemma for the three commits
   that write that column.
3. `EffectAtCommitHolds`: a request takes effect once, and is acknowledged only
   after that. From it, `RefusalsLeaveNoTraceHolds` (a 404 or 409 can be relied
   on; a 500 cannot) and `EveryChangeIsOneCommitHolds`.
4. `WorkflowingHolds`: `WorkflowOnlyAdvances` with `OneWinner`. `OneWinner` is
   not inductive by itself: that the second agent's change cannot commit follows
   from the first leaving the row at or past its target, and ranks only grow.
5. `StatusChangeKeepsItsRowHolds`, `ReportedChangeMovesForwardHolds`,
   `CommentsHaveTicketsHolds` from these.
6. `Refinement`: `Spec => Lifecycle!Spec`. Every commit is one abstract
   operation on the current row, every other step stutters (`StepRefines`).
7. `RowsAndThreadsHold`: what the refinement rules out for rows and comments. It
   combines `StepRefines` with `OperationsOnRows`, which looks at the five
   abstract operations only: what is shown of them holds of all interleavings.
8. `ReportsAreExplainedHolds`: how wrong the report of finding 1 can be. The
   status it names was really set, by its own change or by a later one.
   Inductive with `Authored`: a ticket whose status was changed has the status
   some committed change gave it, since such a ticket is past `OPEN` and can
   neither be deleted nor created again.
9. `WaitingIsNotChainedHolds`: who is waited for holds its lock and waits for
   nobody. This is the safety half of `EveryRequestAnswered`: row locks cannot
   form a cycle.

`TicketCacheProofs` proves `ListReflectsInvalidations` from `Covering`: an entry,
and a reader about to store one, contain every mutation that bumped no later
than the version in their key. A mutation that bumps now bumps past every
version anybody holds, so the promise is never extended; a reader whose key is
at least the current version is owed at least what it must see. All of it is
conditional on Redis keeping its counter (`lost`). `ComputedAnswersAreFreshHolds`
is not: an answer a handler computed itself reflects what was invalidated before
the request began, for the dashboard's four statements too. So finding 2 is the
cache's doing alone.

`LiveEventsProofs` proves, for any sockets, handlers and tickets, each handler
being about one of them (`AboutAssumption`), and the dashboard none:
`WorkingSocketsStayRegistered` and `RegistryIsTidy` (only a broken socket is
ever stale, a broken line never works again, and only a socket that was in the
channel's set can be in a broadcast's snapshot), and `EverySubscriberHears`. The
last is not inductive: `SentSoFar` says where a broadcast stands with each
subscriber it owes, and `DueAreServed` that such a subscriber is still being
served. `NoEventTwice` needs the opposite bound, `HeardSoFar`: until its handler
turns to the dashboard, an event has been heard in its ticket's channel only.
`EventsStayInTheirChannels` follows from
`ServedWereAllowed`. `OnlyTheServedHearHolds` speaks of each send: a broadcast
may well pick a socket that has closed since, but with `ClosedAreGone` (an
endpoint that let its client in ends only when the client is gone) such a send
fails. `HandlersOnlyAdvanceHolds` is the measure by which broadcasting ends.

`WebhookDeliveryProofs` proves, for any requests, registrations and pool:
`NothingToTheDeactivated`, from a deactivation being final; `LogIsExact`, that
the log is the rows of the recorded deliveries and no others, and from it
`OneRowPerDelivery`; the `Refinement` of `DeliveryPromise`, in which handlers,
pool and crashes are hidden (a crash is the loss of all deliveries under way);
`DeliveriesOnlyAdvance`, by giving the stages of a delivery a `Phase` that every
step increases, a crash included; and `OnlyCodesAreRejected`, how far finding 4
can go: the database refuses a row for its response code only. That the foreign
key never refuses one needs `TargetsKeepTheirRow`: deactivating keeps the row.

`AccountsProofs` proves, for any requests, spellings and lifetimes, from
`normalize` being idempotent (the seed normalizes its addresses, too):
`OneUserPerAddress` and `AnswersAreTrue`, which need that rows hold normalized
addresses (`RowsAreNormalized`) and that uncommitted inserts exclude each other
and every row (`InsertsExclude`); `AgentWhileServing` from `SeededFirst`, that
the table is empty until the first seed; `SessionsEnd` from `TokensRunOut`,
which ties what is left of a token to the time since the log-in. The
`Refinement` of `AddressBook` has one lemma per kind of step. `InsertsExclude`
makes a commit the book's `Register`, and a 409 its `TurnDown`: the row that is
in the way is somebody else's. `WrittenOnce` says that no row is overwritten, by
a seed or a registration, and that answers are final; `AgentsAreConfiguredHolds`,
that registering never makes an agent.

`RateLimiterProofs` proves, for any limit, window and grain of time:
`AtMostTwiceTheLimit` from `EarlierAreOlder` (admissions other than the counted
ones came before the window began, and all but `Limit` of those are a window old
already); `WaitingIsEnough` from the arithmetic of the rounding (`TtlRounds`,
`ToldCovers`); `RefusedOnlyOverLimit` from `CountedAreRecent`, that what the
counter counts came within its window, which a lost TTL breaks, hence its
condition; and `WindowsAreFixedHolds`, that no request prolongs a window.

Only model-checked are the six liveness properties, since fairness and `ENABLED`
are out of the prover's reach. Of most of them the part that is safety is proved:

| Checked by TLC | Proved about it |
|---|---|
| `EveryRequestAnswered` | `WaitingIsNotChained`: lock waiters form no cycle |
| `StaleEntriesHeal` | `ListReflectsInvalidations`, `ComputedAnswersAreFresh`: what can be stale at all |
| `HandlersFinish` | `HandlersOnlyAdvance`: what a broadcast waits for only shrinks, whoever joins |
| `EveryTargetTried`, `AnsweredRequestsEnd` | `DeliveriesOnlyAdvance`: a delivery can only come closer to its end |
| `NeverBlockedForever` | `WindowsAreFixed`: a client that keeps trying does not prolong its window |

Every inductive invariant listed in a module is also a property of its run.

## Not modelled

- The list query (`list_tickets`: filters, ILIKE escaping, pages; the canonical
  cache key): pure translation of parameters into one SELECT. That its count and
  its page are two statements is listed as a hazard without a property.
- Who may see which ticket is a guard in `TicketStore` (`Accessible`) and the
  constant choice `allowed` in `LiveEvents`; a socket is not checked again after
  the handshake, and no property says it should be.
- The order in which the events of two handlers reach a subscriber: nothing in
  the repository promises one, and the model shows both.
- Several API processes: channel membership is per process by design.
- Payloads, their canonical serialisation and HMAC signature, password hashing
  and the cryptography of tokens: library calls on values.
- The health endpoint, settings, start-up wiring, the JSON error envelope and
  the migrations keep no state at run time. The constraints that matter
  (CASCADE, the unique address, the log's foreign key and its CHECK) are modelled
  where the services meet them.
