# Verification of the real-time chat backend

TLA+ models of the chat backend in `src/`, the TLC configurations that check
them on small instances, and TLAPS proofs of their safety for instances of any
size.

The backend is a FastAPI application. PostgreSQL keeps users, conversations and
messages; Redis Pub/Sub carries WebSocket frames between API instances. Most of
its code is a straight line from a request to a commit. What is hard to test
lies elsewhere: in the way sockets, Redis subscriptions, timeouts and
cancellations of one process interleave, in the way a message goes through
commit, publication and several processes while parts fail, in requests that
meet between their statements, and in pools that parts of the program share
without knowing of each other.

## 1. Inventory

| Part | Code | State | Operations | Model |
|---|---|---|---|---|
| Redis subscription manager | `app/websocket/pubsub.py` | `_subscriptions` (task and ready event per conversation), `_stopping` | subscribe, unsubscribe (forced or not), the subscription loop, publish, start, stop | `SubscriptionLifecycle`; publish in `ChatPipeline` |
| Connection manager | `app/websocket/manager.py` | `_connections` per conversation | connect, disconnect, broadcast, count | `SubscriptionLifecycle`, `ChatPipeline` |
| WebSocket endpoint | `app/routers/ws.py` | where each handler is | admit, connect, subscribe, serve, abort, leave | `SubscriptionLifecycle`; its authentication in `Accounts` |
| Chat service | `app/services/chat.py` | where each handler is | message.send: store and publish question and reply, report errors | `ChatPipeline` |
| Message repository | `app/repositories/message.py` | messages table | create; list, count | create in `ChatPipeline`, the rest in `Listing` |
| Accounts and tokens | `app/services/auth.py`, `app/security.py`, `app/dependencies.py` | users table, tokens in clients' hands | register, login, refresh, use | `Accounts` |
| Conversations | `app/services/conversation.py`, its repository and router | conversations table | create, rename, delete; list | `Conversations`; list in `Listing` |
| Message history and pagination | `app/services/message.py`, `app/schemas/common.py` | none (reads) | a page of messages or conversations | `Listing` |
| Pools and readiness | `app/database/session.py`, `redis.py`, `app/routers/health.py` | connections in use, and lost | take, give back; SELECT 1 and PING | `Pools` |
| Lifespan | `app/main.py` | engine, session factory, client | init, close | start and stop of the subscription manager in `SubscriptionLifecycle` |
| Errors | `app/exceptions/` | none | exception to answer | the `answer` of each request |
| Protocol, schemas, configuration, logging, migrations | | none | | not modelled, section 8 |

How they interact. A WebSocket handler calls the connection manager and the
subscription manager of its process, then runs the chat service until the
client goes. The subscription manager runs one task per conversation, which
waits for Redis and calls the connection manager to broadcast. The chat service
writes through the repository and publishes through the subscription manager.
Handlers, tasks and the lifespan share two module-level objects,
`websocket_manager` and `redis_websocket_pubsub`. REST requests meet each other,
and the chat service, only in PostgreSQL. All of a process draws on one pool of
database connections and one of Redis connections.

What makes the parts correct:

- subscription manager: registered entries, tasks, events and cancellations
  agree; a subscription exists as long as somebody needs it and no longer; nothing
  waits for ever; stop() stops everything;
- connection manager: the table holds sockets with a running handler; one bad
  socket does not disturb the others;
- chat: nothing is shown that is not saved, replies follow questions, order is
  kept, the sender learns how each message ended;
- accounts: one user per address, tokens for committed users only, sessions that
  end;
- conversations: answers are true, deletion is final, only owners change;
- lists: whoever reads all pages gets all rows, and causes come before effects;
- pools: nobody's wait takes from others what they need to go on.

The hard behaviours, each at its line with the properties that would catch it,
are the `hazards` of `PROJECT.json`.

## 2. Modules

| Module | What it is | Proofs |
|---|---|---|
| `SubscriptionLifecycle` | one API process: handlers, connection table, subscription tasks, lifespan | `SubscriptionLifecycleProofs` |
| `Listener` | what the rest may rely on in the broadcasts of a process; `SubscriptionLifecycle` implements it, and so do the processes of `ChatPipeline` | `SubscriptionLifecycleProofs`, `ChatPipelineProofs` |
| `ChatPipeline` | a message.send through several API processes | `ChatPipelineProofs` |
| `Feed` | what clients of a conversation may rely on; `ChatPipeline` implements it | `ChatPipelineProofs` |
| `Accounts` | registration, login, refresh and use of tokens | `AccountsProofs` |
| `Directory` | what people who register may rely on; `Accounts` implements it | `AccountsProofs` |
| `Conversations` | creation, renaming and deletion of conversations | `ConversationsProofs` |
| `Notebook` | what users may rely on in their requests about conversations; `Conversations` implements it | `ConversationsProofs` |
| `Listing` | reading messages or conversations page by page | `ListingProofs` |
| `Pools` | the connections of a process to PostgreSQL and Redis | `PoolsProofs` |
| `MC...` | instances of each for TLC: sets, bounds, symmetry | |

Some definitions come with a *faulty form* just before them, the change an
unlucky edit of the code might make. No specification uses them. Each property
is paired with one in `PROJECT.json` and TLC finds the property violated when
the faulty form takes the place of the definition.

### SubscriptionLifecycle

*Steps.* The process runs on one asyncio event loop. A step is what a task does
between two real suspensions. `asyncio.Lock` suspends only when the lock is
taken, and neither `_lock` is ever held across a suspension: the only awaits
inside a critical section are `connection_count`, whose own lock is free for the
same reason, and `start`/`stop` have none. So locks never block, critical
sections never interleave, and the code between two awaits of I/O, an event, a
sleep or a task is one action. `Accept`, for instance, is everything from the
return of `websocket.accept()` to the wait for the ready event.

*State.* `connections` and `subscriptions` are the two tables; `task`, `ready`,
`cancelled`, `pending` and `failed` describe the tasks of the loop; `endpoint`
and `awaits` the handlers; `lifespan` and `draining` the application. A
SubscriptionState and its task have one identity, since they are created
together. An identity is used again once its task has ended and no handler
refers to it. A handler that is past the wait keeps no reference, so three
identities are enough for three sockets.

*Cancellation.* `cancel()` puts a task into `cancelled`; `DeliverCancel` is the
moment the task sees it. A task that has not started ends at once, one in the
finally clause leaves it, any other runs it (`closing`). While a task is
cancelled its ordinary steps are disabled: asyncio throws the error in at the
next resumption.

*Timeouts.* The 5 s wait may expire in every state of the wait, also after the
event has been set and before the handler resumed (`woken`): `asyncio.timeout`
then cancels a task whose future is done already, and the wait still raises.

*Environment.* Clients go at any time (`Drop`, which includes frames without
text, over which `receive_json` raises what the service does not handle); Redis
fails and comes back (`ToggleRedis`); the lifespan stops and, because the
objects live as long as the module, starts again.

### Listener

The abstract specification of one process as seen by frames: `members` is the
connection table, `hearing` the conversations whose frames arrive, `targets` the
sockets that the frame in hand has still to go to. A listener hears, takes a
frame for the members of the moment, sends it to one after the other, and may
fall silent at any time; the next one begins when there is nothing left of it.
`SubscriptionLifecycle` maps the tasks of a conversation that still act, neither
ended nor cancelled, to this one listener. `ChatPipeline` models the same steps
per process, with the frames in them, and its instance `Broadcasts` says how: a
process hears while Redis delivers to it or it has frames in hand (`Hearing`), its
members are the connected sockets (`Members`), its targets are `pending`. Then
`FeedUp` is `Hear`; `FeedFails` and `Cancel`, and `FeedLost` with nothing
buffered, are `FallSilent`; `Take` and `Send` are themselves; and members come and
go with `Join`, `Disconnect` and `Crash`. Both refinements are proved, so the two
models meet in one interface, and what is shown of `ChatPipeline` does not depend
on how tasks are replaced.

### ChatPipeline and Feed

One conversation, several processes. A handler goes through inserting,
committing and publishing, once for the question and once for the reply. Each
call can fail. A commit that raises may have been carried out; a PUBLISH that
raises may have been taken, and the Redis client may send it again (`Attempts`
is its limit, one more than its retries). `told` collects error frames. The
subscription is reduced to what frames see of it: `feed` (Redis delivers),
`inbox` (buffered), `current` and `pending` (the running broadcast).
`published` is the history of the channel, `committed` that of the table: both
only record. Processes crash and lose handlers and buffers. The conversation may
be deleted at any time that the foreign key allows, and takes its messages.

`Feed` is the abstract specification, three variables and three actions: a
message is saved, then posted; a client sees posted frames only, each posting at
most once, in channel order, and may miss any. The refinement maps `saved` to
`committed`, `log` to `published`, `seen` to `delivered`.

### Accounts

Each request has a session of its own and is suspended at every statement.
PostgreSQL is modelled at READ COMMITTED: a statement sees what is committed
when it runs, and an INSERT with the key of an uncommitted row waits for that
row's transaction. A user is named by the request that made it. A token is its
claims; it also carries `root`, the time at which the password behind it was
given, which the code does not keep. Users are deactivated and removed by an
operator: the code checks for both, no endpoint does either. The clock is read
where the code reads it, when a token is decoded and when one is made, and may
advance in between by the time the request takes (`Latency`).

`Directory` is the abstract specification of registrations: an entry is taken in the
step that answers the request, if nobody has the address at that moment; a conflict is
answered if somebody has it at that moment; an error leaves open whether there is an
entry. The mapping hides uncommitted rows (`Entry`) and spellings (`Asked`). It asks
more than `ConflictIsTrue`, a theorem besides, which allows the holder to have been
removed before the answer.

### Conversations

The same reading of PostgreSQL, with row locks: an UPDATE or DELETE waits for
the transaction that holds the row and then acts on what that one left. What
SQLAlchemy adds is modelled where it changes the outcome: a title that equals
the loaded one is not written (`Reread`), an UPDATE that matches no row raises
`StaleDataError`, a DELETE that matches none only warns. `titles` is the history
of a conversation's committed titles.

`Notebook` is the abstract specification: the pages of a user's notebook, which
requests create, rename and delete each in one step, the step of their answer. A
success without an effect tells of something that has come true since the request
began (somebody else deleted the conversation, or gave it that title); "not found"
is answered when there is nothing of that user at that moment; an error leaves open
whether there was an effect. The mapping hides uncommitted rows (`Page`, `Owner`)
and everything between the first statement and the answer. That deletion is final
and that only owners change a conversation holds of `Notebook` by its shape; of
`Conversations` both are theorems besides.

### Listing

One client reads a list page by page while its rows are written: the messages of
a conversation, oldest first, or the conversations of a user, newest first
(`list` says which). A row is dated by `now()`, the start of its transaction, and
becomes visible when that commits, so dates and commits may be in different
orders and dates may be equal. `Orders` are the sequences that `ORDER BY
created_at` allows. A page is the statements of the services in their order, each
of which sees what is committed at that time: for messages the ownership, the
page, the count. `Pages` is the computation of `pages` by floor division of a
negative number. A request may fail and be repeated. Messages go with their
conversation only; conversations are deleted one by one, which moves others up.
`owed` is a history variable: the rows that were visible when the client began
and that no deletion has moved, less those it has been given.

### Pools

The connections of one process. A subscription task takes a Redis connection in
`pubsub.subscribe` and keeps it until the finally clause of its attempt; a
message.send takes a database connection for a transaction and afterwards a
Redis connection for one PUBLISH; a readiness probe keeps its database
connection until its PING has been answered. The Redis pool raises when it is
full, the database pool lets requests wait. Redis is up, down (commands raise)
or hung (they do neither, and no timeout is configured). `lost` counts the
connections that nobody will give back: `unsubscribe()` and `aclose()` stand
under one `suppress`, and a cancellation can cut that clause short.
When subscriptions come and go is `SubscriptionLifecycle`'s; here it is free.

## 3. Runs

| Run | Instance | States | Shows |
|---|---|---|---|
| `subscription_safety` | 3 sockets of 1 conversation, 3 identities | 1.9 million | the table, tasks, handlers and cancellations agree; only force strands sockets |
| `subscription_liveness` | 2 sockets, 2 identities | 126 thousand | waits end, handlers of departed clients end, subscriptions recover, stop() returns; refinement of `Listener` |
| `stranded_socket` | 2 sockets | | finding 1 |
| `chat_fan_out` | 2 processes, a sender and a listener, 1 retry | 1.4 million | replies follow questions, senders learn what happened, nothing unsaved is reported as saved; refinement of `Feed` |
| `chat_liveness` | 1 sender, 1 listener | 10 thousand | sends end, buffered frames arrive; refinement of `Listener` |
| `accounts` | 3 requests, 2 spellings of an address and another one, clock to 3 | 2.3 million | one user per address, no tokens without user, bounded sessions; refinement of `Directory` |
| `accounts_liveness` | 3 requests | 9 thousand | nobody waits for ever |
| `conversations` | 3 requests, 2 users, 2 titles | 81 thousand | true answers, nobody waits for ever; refinement of `Notebook` |
| `rename_race` | 3 requests | | finding 2 |
| `listing` | 4 rows, pages of 2, clock to 3 | 2.7 million | complete walks, causal order |
| `pools` | 1 subscription, 2 senders, 1 probe, 5 Redis and 2 database connections | 42 thousand | subscriptions come back while the pool has room; saves go on when Redis is silent |
| `lost_connections` | 1 subscription, 1 sender, 2 Redis connections | | finding 3 |

*Why the bounds are enough.* The hazards of the subscription manager involve a
conversation's entry, the handler that takes it away, the one that is waiting
for it and one that is served: three sockets. Conversations share nothing but
`_stopping`, so one is enough for TLC (the proof covers any number). Two sockets
suffice for liveness, where the question is whether a wait can outlast the task
it waits for, and for the refinement, where one task replaces another. In the
chat the actors are a sender and a listener elsewhere: one send gives two
messages, five points of failure, a retry, a crash and a deletion. Two sends of
one handler are strictly sequential, and senders meet only in the channel, of
which nothing is asked that relates the messages of two of them. Three
registrations allow a winner, a waiter and one that comes after a rollback; a
session is a registration, a refresh and a use, or two refreshes, and the clock
runs to 3, the two lives of its tokens and the latency between them. For conversations
one request creates, and two meet on the row. Four rows fill two pages, so a
late commit or a deletion can move rows over the edge of a page in either
direction; four dates suffice for them to be all different. The Redis pool has room for
everybody beside one lost connection, the case in which `RecoversWithRoom` is not
vacuous with anything lost; one probe fewer than database connections is what
`SavesGoOn` needs.

`CHECK_DEADLOCK FALSE` is set throughout: requests and sockets are used up, and
a system whose requests are all answered stops.

## 4. Fairness

- The event loop resumes every task that can run, and socket sends, sleeps and
  Redis calls end by answer, error or timeout: weak fairness of each handler's
  steps and of each task's `TaskProgress`. `Receive` is not fair, frames come
  when somebody publishes. Clients, Redis, the lifespan and `Admit` owe nothing.
- In `ChatPipeline` database and Redis calls return or raise, the task reads
  what is buffered, sends end.
- In `Accounts` and `Conversations` statements and commits return or raise. A
  statement that waits for a row needs the transaction that holds it to end;
  that one is fair itself.
- In `Pools` tasks run and statements end in the same way, and a command ends
  unless Redis is silent. One action is strongly fair: `TakeDatabase`, because
  SQLAlchemy's pool keeps a queue and serves whoever waits in turn, so that a
  request which keeps seeing connections come free gets one in the end.
  `pool_timeout` may end its wait, and is not relied upon.

`RecoversAfterOutage`, `RecoversWithRoom` and `SubscribesAgain` assume that Redis
stays up from some time on; nothing else is assumed of it.

## 5. Proofs

Six modules hold proofs, one for each model and one invariant each, which
is inductive and whose conjuncts or consequences are the properties TLC checks.

**`SubscriptionLifecycleProofs`**, for every set of sockets, conversations and
subscription identities. Assumptions: `Room` maps sockets to conversations, there
is a conversation, and `NoSubscription` is no identity. `LifecycleInvariant`:
`Spec => []LifecycleInv`, and from it all invariants of `subscription_safety`.
None of them is inductive alone. That a task finds its own entry by conversation
id (`OneTaskPerConversation`) needs that entries have live, uncancelled tasks of
their conversation (`RegisteredIsAlive`); that a new task gets an unused identity
which nobody cancelled needs that cancelled tasks are alive
(`CancelIsInProgress`); that ready events are honest (`ReadyIsListening`) needs
that the event cleared on failure is the caller's; that subscriptions do not
outlive sockets (`NoOrphanSubscription`) needs that the connection table holds no
ended handler (`ConnectionsAreAttached`). `LifecycleInv` is their conjunction. It
falls into `TaskInv` (table and tasks) and `HandlerInv` (handlers): steps of
handlers that touch no task keep the one by `TaskFrame`, steps of tasks that touch
no handler keep the other by `HandlerFrame`, and one lemma per action does the
rest. `OnlyForceStrands` goes through the actions that can remove an entry.
`OneListener` is the refinement of `Listener`: by the invariant the task that acts
for a conversation is the one in its entry, so the abstract listener can be read
off the entry (`ListenerOf`), and each step either leaves it idle, silences it, or
is a step of the one registered task. `CancelIsFinal` says of each step what it may
do to a cancelled task: nothing, or bring it nearer to its end; no second cancel and
no new handler undoes that. `NobodyWaitsInVain` is what the liveness properties rest
on: no lost wakeup, and whoever waits for a task to end waits for one that is ended
or cancelled. It needs that a handler holds its SubscriptionState exactly while it
waits (`HoldsWhatItAwaits`), or an identity could be used again under it. From
`LifecycleInv` alone follows `ProcessComesToRest`: with the last handler gone the
tables are empty and no task is left.

**`ChatPipelineProofs`**, for every set of processes and sockets, every number of
sends and every retry limit. Assumptions: each socket has a process, askers are
sockets, at least one PUBLISH is attempted. `PipelineInv` adds to the properties
what ties the program counter of a handler to the table and the channel
(`HandlerInv`: who publishes has committed, who works on a reply has posted the
question), what bounds the channel and the reports by the sends of each sender
(`ChannelInv`, `OutcomeInv`), and the order of what is buffered, being sent and
delivered (`DeliveryInv`). `ClientsSeeFeed` is the refinement of `Feed`: a commit is
`Save`, a PUBLISH that Redis took is `Post`, a send is `See`, and `DeliveryInv` says that its position
is later than all that the socket has seen. `BroadcastsEnd` (a frame is in hand
exactly while there is a socket to send it to) is what the other refinement,
`ProcessesListen`, adds to the invariant. Two theorems bound duplicates. A message
has nothing on the channel before its handler publishes it, and then no more copies
than commands were sent so far (`CopiesInv`), hence `CopiesBounded`; and since a
socket's positions on the channel ascend strictly, it is sent a message no more
often than the channel has it (`ShowingsBounded`). `NoFrameIsSkipped` is an action
property: a frame that is due to a connected socket is still due after the step, or
was sent, or the socket went or its process lost the subscription.

**`AccountsProofs`**, for every set of requests and addresses, every normalisation,
every lifetime and latency. Assumptions: `Nobody` is neither a request nor an
address, normalisation maps addresses to addresses, times are natural numbers.
`AccountsInv` ties a users row to the registration that made it (`RowInv`), extends
uniqueness to uncommitted rows (`UniqueInv`), says that whoever a request has looked
up was committed (`SubjectInv`), and bounds how far a request and its token are
behind the clock (`TimeInv`). `RegistrationsAreAtomic` is the refinement of
`Directory`: a commit finds the address free because `UniqueInv` counts the
committing row too, and both places that answer a conflict look for the address in
the same step. `SessionsBeginWithPasswords` follows a session back through its
refreshes: behind each token there is a registration or login of its user, answered
within the latency of its `root`; the induction is over the steps, with what a
request has decoded from a token in its hands (`SessionInv`). `NoDeadlock` says of
an INSERT that waits for a row that it waits for one, whose request has only its
commit to come.

**`ConversationsProofs`**, for every set of requests, users and titles. `RequestInv`
says in which state the conversation of a request may be meanwhile (`PhaseInv`), who
holds which row lock (`LockInv`), that the owner test still holds when the statement
runs (`OwnerInv`), and that the title a rename has read is in the history from where
it began (`TitleInv`). From it `NoFalseAnswer`, and the action properties
`NeverRevived` (`DeletedForGood`) and `OwnersOnly` (`OnlyOwnersChange`). `RequestsAreAtomic`
is the refinement of `Notebook`: the commit is the effect, and by `OwnerInv` and `LockInv`
the row is at that time what the look-up found, owned by the user and live, or the
transaction has written nothing and the answer has come true already. `NoDeadlock`: a
request takes its only row with its last statement, so whoever waits for it waits for a
commit, and, as the owner test comes first, for a request of the same user.

**`ListingProofs`**, for every finite set of rows and every page size.
`ListingInv` is the argument for complete walks: of a row that is owed and not tied
at least `(page - 1) * PageSize` rows are ahead, so it is on the page in hand or
beyond it, and since the count comes after the listing, and rows ahead of it only
become more (`AheadGrows`), the number of pages reaches it (`PagesCover`).
`PagesAreExact` says what `pages` is for every number of rows and every page size: the
floor of a negative quotient is the ceiling meant. `WalkBounded`: no client is sent
beyond the page that all the rows together would fill.

**`PoolsProofs`**, for every finite set of tasks and requests and all limits.
Neither pool is overdrawn, and what cleanups lose takes the place of what a task
held, so it is bounded by the pool as well. Three theorems say when that matters.
`AttemptsFindRoom`: the pool refuses an attempt to subscribe only when what is lost
leaves less than one connection for each task and request. `SavesWaitForTheDatabase`:
with fewer probes than database connections, an exhausted pool is waiting for the
database and not only for Redis, because handlers commit before they publish.
`NothingLostWithoutFault`: a connection is lost only in a cleanup, one at a time, and only
while Redis refuses or when a cancel cuts the cleanup short.

Only model-checked: liveness with its fairness, which the prover does not handle
(`ENABLED` included): `WaitEnds`, `DroppedHandlerEnds`, `RecoversAfterOutage`,
`StopEnds`, `SendEnds`, `FrameArrives`, `RequestEnds` of both modules,
`RecoversWithRoom` and `SavesGoOn`. What safety they rest on is proved for instances of
any size: `NobodyWaitsInVain` for the waits of the lifecycle, `NoFrameIsSkipped` and
`BroadcastsEnd` for frames, `NoDeadlock` for requests, `AttemptsFindRoom` and
`SavesWaitForTheDatabase` for the pools. What remains is that the steps which are on
their way are taken, which is fairness. Nothing proved rests on induction over data:
`Pages`, the sequences of titles and the channel are handled by arithmetic and by lemmas
about `Append`, counts of copies by the theorems about finite sets.

## 6. Findings

1. **A timeout strands other sockets** (`stranded_socket`). When the wait of one
   socket for its subscription times out, `subscribe_conversation` unsubscribes
   the conversation by force, and the endpoint does so once more. Neither asks
   who else uses the entry. A socket that was served already stays connected to
   a process that no longer listens, until another one of the conversation
   connects. The project's README says that an instance with local clients
   subscribes. `OnlyForceStrandsSockets`, which is proved, shows that the two
   forced calls are the only cause besides stop().
2. **A rename can show another title** (`rename_race`). A rename to the title
   the session loaded writes nothing; its refresh reads, without a lock, what a
   concurrent rename committed in between, and the response shows that. The unit
   test expects the title asked for.
3. **Outages use up the Redis pool** (`lost_connections`). When Redis is down,
   `unsubscribe()` in the finally clause of the subscription loop raises, the
   `suppress` around it skips `aclose()`, and the connection stays in use as far as
   the pool knows. After enough outages no subscription succeeds although Redis is
   back, and no PUBLISH either, until the process is restarted.
   `RecoversWithRoom` shows that subscriptions do come back as long as the lost
   connections leave room.

## 7. Plan

Done: the subscription lifecycle, the message pipeline, accounts, conversations,
listing and pools, each with its invariants proved; four abstract specifications,
`Listener`, `Feed`, `Directory` and `Notebook`, and the five refinements that show them implemented.
What would come next:

1. a client that follows the feed and fills its gaps from the history: `Feed` and
   `Listing` together, with the point at which it may stop looking back;
2. the identities of the users behind several sockets in `ChatPipeline`, so that the
   deactivation of a user while its socket is open could be followed;
3. startup and shutdown of engine and Redis client in a module of their own, should
   they ever overlap with requests.

## 8. Not modelled

- `close_conversation_connections`: nothing calls it. `_started`: read only to
  be set. `active_subscription_count`: read by tests.
- The cancellation of a WebSocket handler by the server, after its graceful
  shutdown has timed out: the process is about to exit.
- The opening and closing of engine and Redis client by the lifespan: they come
  before the first and after the last request, and a failure ends the process.
- Redis that is silent, outside `Pools`: elsewhere a call returns or raises.
- A socket that outlives the expiry of its token, its user or its conversation:
  the code promises nothing beyond the check at connect time. What it means for
  messages is in `ChatPipeline` (`NoOrphanMessage`).
- Lengths of time: the backoff doubles from 1 to 30 s, the wait is 5 s; the
  model lets each end whenever it is running.
- Pings, invalid frames and unsupported types: an answer, no change of state. An
  invalid payload from Redis is `PollNothing`. The two liveness probes: constant
  answers.
- Password hashing, signatures, validation of fields, layout of responses,
  logging, configuration, and the migration, which runs before the application;
  the unique index and the cascade it creates are in `Accounts`, `ChatPipeline` and
  `Listing`.
