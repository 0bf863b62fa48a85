# diocon-tickets in TLA+

A specification of the ticket system under `src/backend/src`: a FastAPI application over PostgreSQL
(SQLAlchemy, asynchronous sessions), Redis and an S3 store. The modules here state what its
components do when requests overlap, fail or are repeated, check it with TLC on small instances and
prove the central parts with TLAPS for every instance.

All paths below are relative to `src/backend/src`, those under `docs/` to `src/backend`.

## The system

One HTTP request is one coroutine with one database session (`core/database.py:53`,
`autoflush=False`, `expire_on_commit=False`, PostgreSQL's default isolation READ COMMITTED). A write
follows one pattern: read the aggregate through a repository, check the rights and call a domain
method on the object in memory, give it back with `upsert` (`session.merge`,
`shared/infra/repos.py:102`), commit, publish the domain events the aggregate collected. Nothing
locks a row and no version column is compared. Components meet only through the database, through
the in-process event bus, and through direct calls inside one request.

| Component | State | Operations | Interacts with | Hard behaviour | Correct when |
|---|---|---|---|---|---|
| Ticket aggregate, `TicketService` (`tickets/domain/entities/ticket.py`, `tickets/services/ticket.py`) | row of `tickets`, rows of `ticket_history_entries` | create, edit, archive, assign_to, change_status | comments (which merge the ticket too), project rights, event bus | stale and torn reads, lost updates, failed flushes, a crash after the commit | no work without approval, the history loses nothing and explains the status, events are facts, one request at a time is the life cycle that `tickets/domain/constants.py:3` permits |
| Ticket numbers (`TicketNumber.create`, `get_total`) | the numbers stored, unique | count, then insert | create | two creations count alike; namespaces that share a prefix | numbers unique, dense per namespace; somebody always gets through |
| Comments (`tickets/services/comment.py`) | `comments`, `reply_count` of a parent | add, reply, edit, delete | ticket aggregate | the counter is merged from a stale parent; a ticket closed meanwhile | a counter never exceeds the replies made and is exact while requests do not overlap; authors find what they wrote; deleted is final |
| Reactions (`tickets/services/reaction.py`) | `reactions`, unique triple | toggle | comments | two toggles at once | each successful toggle turns the reaction round |
| Projects (`tickets/services/project.py`) | `projects`, `project_memberships` | create with retry on the key, add_members | rights of tickets | key race and retry, the same member added twice | who is refused finds every key taken; one membership per user |
| Event bus (`shared/infra/events.py`) | bounded queue, handlers, a consumer task | publish, subscribe, start, stop | every service | full queue, failing handler, cancellation in the middle of a dispatch | each published event dispatched once, in order, while the bus runs |
| Invitations (`iam/services.py`) | `users`, `invitations` | send, register, revoke | mail | revocation racing registration, two registrations, expiry, a crash between commit and mail | one account per invitation and address, account and used invitation have each other; what was mailed is stored |
| Tokens (`iam/services.py`, `iam/security.py`, `iam/infra/blacklist.py`) | black list in Redis | authenticate, refresh, logout | accounts | fractions of a second in expiry and time to live; a refresh token that comes again | no request is made with a token that was revoked or exchanged; a revoked refresh token buys no pair (it does) |
| Rate limiter (`shared/infra/rate_limiter.py`) | sorted set per client and endpoint | check_limit (one Lua script) | the endpoints that depend on it | clocks of several servers, window boundaries, Redis failures | at most `limit` per window |
| Websocket and SSE managers (`shared/infra/websocket.py`, `sse.py`) | connections per user | connect, disconnect, send | notifications | the collection changes while a send awaits | nobody who stays connected is skipped |
| Notifications (`notifications/`) | notifications, preferences | on_ticket_created, notify, mark_as_read | event bus, channels, accounts | accounts stored between the pages of a search; a channel that fails | the right people are told |
| Contracts (`contracts/domain/entities.py`) | hours, packages, status | add_package, consume_hours, suspend, reactivate, close | none yet (no service) | hours at the limit, three fields kept in step by hand | what was bought is spent or remains |
| CRM (`crm/`) | counterparties, branches, contacts, products linked | create, add_branch, add_contact_person, link_product | tickets, invitations | uniqueness checked before the insert; a list written whole | a branch has its head; one head per INN; contacts stay |
| Checked values (`crm/domain/vo.py`, `iam/domain/vo.py`, `tickets/domain/vo.py`) | columns that a mapper builds values from again | construct, read back | every mapper | a normal form its own checks refuse or change | what is stored can be read and means the same |
| Media (`media/`) | attachments, objects in S3 | presigned upload, confirm, download | tickets, comments | a URL that is still valid after the confirmation; two confirmations | an attachment has its object, of its size |

## Modules

| Module | What it is |
|---|---|
| `TicketDomain` | rights and graphs of statuses as operators, no state |
| `TicketLifecycle` | abstract: one ticket changed by single legal operations |
| `TicketService` | the service: requests as database sessions on one ticket |
| `NumberSequence` | abstract: a counter per namespace, which a New Year makes lag |
| `TicketNumbers` | the numbering in `TicketService.create`: count, compute, insert |
| `EventBus` | the in-process bus: queue, consumer tasks, start and stop |
| `Discussion` | the comments of a ticket, their replies and reactions, as concurrent sessions |
| `Lists` | part of a list in its order, for the texts of `Values` and the lists of `Connections` and `Notifications` |
| `Desk` | requests with a session each, shared by the modules below |
| `Projects`, `Invitations`, `Tokens`, `Counterparties`, `Attachments`, `RateLimiter`, `Connections`, `Notifications` | one service each, over `Desk` |
| `Contracts`, `Values` | an aggregate and the value classes, one call at a time |
| `MCTicketService`, `MCTicketNumbers`, `MCEventBus`, `MCDiscussion`, `MCServices` | the instances TLC checks; `MCServices` puts the ten smaller modules side by side |
| `TicketServiceProofs`, `TicketNumbersProofs`, `EventBusProofs`, `DiscussionProofs` | the theorems about the modules of the same name |
| `DeskProofs` | lemmas about `Desk` and `Lists`: what one request leaves of the others, and lists that lose or gain elements |
| `IamProofs`, `CrmProofs`, `ServicesProofs` | the theorems about invitations and tokens; contracts, counterparties and checked values; the other services |

`TicketService` contains neither the number nor the bus: its `Create` is the insert of
`TicketNumbers` for a ticket that gets one, and its `Publish` the call of `EventBus.Publish`. The
three meet only there: a refused number is a `Create` that does not happen, a publication that waits
is a request that stays before its end. `Discussion` and `TicketService` meet in the ticket's row: a
comment's merge of the ticket is `TicketService!Discuss`, a change of the ticket's status is
`Discussion!TicketMoves`.

### TicketService

State: `ticket` (the row), `history` (its entries), and per request `pc`, `snap` (the row read),
`seen` (the history read), `work` (what the session holds after the merge); `published` is the
history of publications. A request that starts is `ReadTicket`, then `ReadHistory`, because
`selectinload` is a statement of its own and READ COMMITTED gives each statement a fresh snapshot;
then one of `Edit`, `Archive`, `AssignTo`, `ChangeStatus`, `Discuss` (the guards of the service and
of the domain method, then `Upsert`), then `Commit` or `Conflict`, then `Publish`. `Fail` is an
exception or a death before the commit, `LoseEvents` a death after it. `Create` is one step: the new
id is known to nobody before the commit.

Three facts about SQLAlchemy carry the model. `merge` copies the entity over the object in the
identity map, which is weak: the object read before, or, when it has been collected, the row as it
is now; `Upsert` allows both. The flush writes the columns in which the merged object differs from
what was loaded (`Written`). The history is merged as a whole, so an entry that the reload found and
the entity lacks is detached; its `ticket_id` is NOT NULL and the flush fails (`Flushable`,
`Conflict`).

Left out: `updated_at`, the number, product and attachments of a ticket; `title` stands for title,
description and tags; texts and timestamps are named by the request that wrote them; a user keeps
one role. Membership rights are those of `get_membership` at one moment, which in this code never
changes for a user with a membership (`removed_at` is never set).

### TicketNumbers

State: `rows` (namespace and number of every ticket), the clock's `year`, and per request `pc` and
the `row` it is going to insert. `TakeNumber` is `get_total` and `TicketNumber.create`; `Insert` is
the INSERT with its commit, `Refuse` the violation of the unique index. A transaction is one step
because PostgreSQL makes the second INSERT of a value wait for the first transaction. `PrefixOf`
stands for `ProjectKey` and `get_latin_slug(...)[:10]`, which may give two namespaces one prefix or
a counterparty none. The rights of the creation and its other columns are `TicketService`'s.

### EventBus

State: `queue`, `handlers`, `isRunning`, `current` (`_task`), all consumer tasks ever created, the
calls of `stop()` that await one, the publishers that wait in `put`. Everything runs on one event
loop, so a step is what a coroutine does between two awaits. `Publish` is one round of
`publish_all`; `Take` and `HandlerEnds` run `_dispatch` up to the next handler that awaits, over the
handlers that do not; `Cancelled` is the `CancelledError` that `cancel()` has raised in the
consumer. A handler's failure is logged and the next one is called, so `HandlerEnds` stands for the
return and for the exception. `accepted` and `calls` record what happened, for the properties.

### Discussion

State: `comments` (a row per request that made one), `reactions`, whether the ticket is
`commentable`, and per request `sawOpen` (the status it read), `snap` (the comment it read),
`parent` (the parent a deletion read) and `work` (what its session will flush). A handler is
`ReadTicket`, `ReadComment`, for the deletion of a reply `ReadParent`, then the guards and the merge
(`AddComment`, `Reply`, `EditComment`, `DeleteComment`, `DeleteReply`, or `ReadForReaction` and
`Toggle`), then `Commit` or `Refuse`. As in `TicketService` a merge copies over the row read or over
the row as it is now (`Bases`), and the UPDATE writes what differs (`Updated`).

What the code does and the model shows: staff other than the support team (ACCOUNT_MANAGER, FINANCE)
may comment a ticket they cannot open, since `can_comment_ticket` restricts customers only; a note
in reply to a comment is listed to nobody, its author included, though `tickets/domain/vo.py:62`
calls notes visible to their author; replies to a deleted comment stay and are reached no more; two
overlapping deletions of one reaction both succeed and amount to one. `docs/ticket_comments_rbac.md`
gives customers notes, which `Comment._can_create` forbids.

### Desk and its services

A request of `Desk` starts one operation (`Start`), goes through the awaits of its handler (`Step`)
holding what its session has read, and ends (`End`) or is abandoned: a check that raises, a
statement that fails, a death of the process, at any moment before its commit. The row a request
creates has its name. A list that loses elements (`list.remove`, a filter on a role, the characters
that `strip` or a comprehension drops) is what `Lists` picks of it.

- `Projects`: `InsertProject` flushes a key and holds it until `CommitProject`, so a second INSERT
  of the key waits (`KeysInserted`) and is refused only when the first has committed (`TryNextKey`);
  a counterparty that is not there is taken for a taken key, as in the code. In `AddMembers` the
  detached rows are those the merge finds beyond the members read.
- `Invitations`: `FindInvitation` or `DraftInvitation`, `StoreInvitation`, `MailInvitation` are the
  background task; `ReadInvitation`, `DraftAccount`, `MergeInvitation`, `Register` the registration,
  whose merge reads the invitation once more. Invitations to other staff than support can be sent
  and never used; an expired one is found and mailed again.
- `Tokens`: time in ticks, several to a second. `Valid` cuts the expiry to whole seconds,
  `TimeToLive` the current time, and Redis counts from the moment it stores the entry (`Revoke`).
  `Late` and `Revocable` are the two ways in which a revocation in the last second is no entry.
  The blacklist is asked only for the token that a request or a websocket brings along
  (`Bears`); `ValidateRefresh` and the two steps of a logout validate and nothing else, and take
  tokens of either kind. `withdrawn` and `exchanged` record revocations stored and pairs bought.
- `Counterparties`: the searches for an INN and an email compare a mapped attribute with `None` in
  Python and find nothing (`ParentIdIsNone`); the unique index on emails remains (`Insert`).
  `AddContactPerson` appends to the list it read, `CommitContact` writes the list whole.
- `Attachments`: `Upload` may come again while the URL is valid, also after `ConfirmUpload` has
  asked the storage for the size; `rewritten` records that.
- `RateLimiter`: `SendCheck` stamps with a server's clock, `Allow` and `Deny` are the Lua script,
  run later and in any order; `LetThrough` is a Redis that does not answer; `Pass` is time, with the
  expiry of the key.
- `Connections`: `SendNext` walks the live list of websockets by position, `PutNext` a copy of the
  SSE queues; `Break` is a peer that died. Each step is what happens between two awaits.
- `Notifications`: `TargetProject` or `TargetSupport`, then page by page `CountSupport` and
  `FetchSupport` (`_paginate` is two statements), then per target `StoreNotification` and `SendBy`.
  Nothing of it is wired in `main.py`, and the repositories it needs have no source: they are taken
  to store and find what their protocols say.
- `Contracts`: each method is one action; `bought` and `spent` record what was asked.
- `Values`: `Built` is the constructor of a class, `ReadBack` the mapper that applies it to the
  column again. Characters are the few that the constructors tell apart, lengths are constants.

## Runs

| Run | Instance | Shows |
|---|---|---|
| `ticket_overlaps` | from no ticket and from tickets with a past: 2 requests at once of 4 roles, with 2 priorities, after each of 8 statuses; 3 requests at once of a customer and a manager, after none, one and six changes of status | types; no work without approval; no event without its committed entry; the history only grows, explains every status, holds whole transactions; a conflict means progress; the ticket departs from its legal life only by a stale commit, whose status is still the one its request read, or a permitted successor |
| `ticket_refines` | 5 requests one at a time, from no ticket | each step is one of `TicketLifecycle`; `closed_at` and `deleted_at` agree with the history |
| `numbers` | 4 creations at once, 3 namespaces, years 99 to 101, sequences up to 3 | a counter per namespace is implemented, atomic and dense in the first year; who is refused was overtaken, over New Year, over the turn of the century and at the limit of digits |
| `bus` | 2 publishers of 2 events, queue of 2, an asynchronous and a plain handler, 2 starts, any stops | one live consumer while the bus runs, none while it does not; quiet after stop; calls in the queue's order; a publisher's order; nothing is through unhandled; while the bus stays up every accepted event is dispatched, over a restart, and no publisher waits for ever |
| `discussion` | 3 requests at once of a customer and an agent, on no comment, a comment, a comment with an internal answer | types, counters of at least zero and at most the replies made, comments their authors find; a counter goes wrong, or a deleted comment changes, only among overlaps and by a commit over rows that have changed; until requests overlap exact counters, reactions that alternate |
| `services` | each smaller service on its own under up to 3 requests at once, after a request of the past | what each of the ten promises (below) |
| `ticket_lost_status` | 2 requests at once | violated: the stored status follows the graph of transitions |
| `numbers_shared_prefix` | 2 creations one at a time, two namespaces with one prefix | violated: a number generated is unique |
| `bus_never_started` | 2 publishers, queue of 1, no start | violated: `publish` returns |
| `discussion_lost_reply` | 3 requests at once | violated: `reply_count` is the number of replies |
| `tokens_revoked_refresh` | 3 requests one at a time, a login among them | violated: a refresh token whose revocation is stored buys no further pair |
| `crm_two_heads` | 3 requests, which need not overlap | violated: an INN has one head |

The promises checked by `services`: `RefusedKeysAreTaken` and `MembershipsReadable` (projects),
`AccountsMatchInvitations` and `MailedIsStored` (invitations), `RevokedBearsNothing` (tokens),
`BranchesHaveHeads` and `ContactsStay` (counterparties), `HoursAddUp` (contracts),
`AttachmentsAreStored`, `ReadsBack` (values), `WindowHolds` (limiter), `BroadcastReachesAll`
(connections), `StaffIsTold` (notifications).

Bounds. A request is used once; two requests already give every pair of reads and writes, the third
lets a request overlap two that do not overlap each other. From the empty database so few requests
reach only the first statuses, so `MCTicketService` also starts from tickets with a past
(`After(k)`): the states a manager's k changes of status leave behind, which the service reaches
from `Init`. Four roles in pairs and two roles in threes are two scenes of `ticket_overlaps`: a
behaviour belongs to one, whose users and priorities its sessions keep to (`InScene`), so the two
state spaces add up, to about 340 000. `MCDiscussion` and `MCServices` also start from a past, with
a comment, an answer, a project, an invitation, a counterparty, a notification. The requests are
symmetric; a run that checks a temporal formula checks only steps, for which symmetry is sound.
Deadlock is not checked: when every request has ended, the model stops.

For the numbers, four creations are one more than the namespaces, so two race in one and others go
on beside them; years 99 to 101 contain the step from 99 to 00 that `% 100` hides. `MaxSequence`
stands for 10^8 - 1. For the bus, a queue of one or two for 1000 makes it full within two events;
`MaxStarts` tasks let an old one be cancelled while a new one runs. Handlers subscribe once and
publishers send `MaxEvents`.

The services of `MCServices` share no rows, so a behaviour exercises one of them (`active`) and
their state spaces add up, to about 450 000 states. Three requests run, for notifications one
handler beside registrations, for connections two broadcasts; contracts and values have none. Two
ticks make a second, so that a token expires at one and is revoked at another fraction of it, and
lifetimes of one and two seconds within five ticks let an entry lapse. The limiter has two servers
one tick apart, a window of four ticks, a limit of two and scripts at most one tick late; its
property speaks of the window less what clocks and delays can take. Keys have at most four
characters and three attempts, so that attempts end by length and by number; texts have four
characters at most, which reaches every length of the numbers (2 to 4 for 8 to 12) and two parts of
a name; a page holds one account, so that the search has several.

Fairness. `EventBus` alone assumes any: weak fairness of `ResumePut` and of each consumer's step,
since asyncio runs every coroutine whose awaited future is done, and handlers end. Subscribing,
publishing, starting and stopping are never obliged to happen; `EventuallyHandled` speaks of a bus
that somebody started and nobody stops any more. The services promise nothing of the kind: a client
may go away, a process may die, and a queue of the SSE manager may never be read.

Findings on tickets. `constants.py:3` gives the permitted transitions of a status; a commit over a
stale read makes others (`ticket_lost_status`), and nothing else does: with `Serial` every change is
a permitted transition (`SerialTransitions`). Whatever overlaps, a change of the row that is not a
legal operation of `TicketLifecycle` on the ticket as it is comes from a commit whose ticket has
changed since it was read or merged, and the status it writes is the one its request read or a
permitted successor of that (`OnlyStaleCommitsDepart`). The same cause lets an edit, forbidden in
work by `ticket.py:165`, be committed over a ticket that has gone into work since it was read.
`docs/ticket_lifespan.md` lists three transitions that `constants.py:3` forbids (OPEN to WAITING,
REOPENED to IN_PROGRESS, REJECTED to CLOSED); `TicketLifecycle` and `TicketDomain` follow the code.

Findings on numbers and events. The number is not unique when namespaces share a prefix
(`numbers_shared_prefix`): the count is per namespace, the index is over all. Within a year that
index makes a stale count harmless; around New Year it does not see it, and a sequence number may
come in both years. The count never starts again, so the sequence numbers of a prefix are for good,
not for a year. The bus is created in `shared/dependencies.py:18` and nobody calls `start`
(`src/backend/main.py`, `lifespan`); its queue fills once and then every request that publishes
hangs after its commit (`bus_never_started`), where `events.py:34` means to drop the event.

Findings on tokens. A rotation or a logout stores that the refresh token is revoked, and
`refresh_tokens` (`iam/services.py:132`) never asks: until it expires the token buys one pair after
the other (`tokens_revoked_refresh`), against `iam/services.py:129` (with rotation) and `:161`
(withdrawal of the refresh token). `RevokedBearsNothing` is what the blacklist does achieve: with
the token itself no request is made any more. `RevokedBuysNothing` speaks of refreshes that begin
after the revocation; two at once would both pass a question asked at line 132, so a remedy has to
claim the entry and ask in one step.

Findings on the rest. Overlapping replies and deletions leave a counter that nothing corrects
(`discussion_lost_reply`); the commit that spoils it, or that touches a deleted comment, is one
whose comment, parent or merged row has changed since (`OnlyStaleWritesSpoil`). Two heads with one
INN are stored by requests that do not even overlap (`crm_two_heads`). Without a run of their own,
each visible in the model when `~overlapped` is dropped from a property: two requests can give a
user two memberships, on which `get_membership` raises from then on (the owner, who is a member from
the creation, keeps one, whatever overlaps), and two additions of a contact person leave one. In the
same way three properties exempt, by a record of the case, what the code gets wrong there: a
websocket is passed over when one before it in the list is removed during the walk (`disturbed`), an
account stored between a count and its page may end the search for the staff a page early
(`shifted`), and an upload after the confirmation has asked for the size leaves an attachment with
an old one (`rewritten`).

## Proofs

The assumptions, each checked by TLC on its instance: for tickets `ConstantsAssumption` (roles are
functions into the role sets, NULL is no request and no user); for numbers `NumbersAssumption`
(prefixes are strings, years and the largest sequence natural numbers, the clock starts before it
stops) and, where a theorem says so, `DistinctPrefixes`; for the bus `BusAssumption` (a queue holds
at least one event, bounds are natural numbers, the handlers that await are handlers); for comments
`DiscussionAssumption` (roles are roles, NULL is no request, a finite number of requests); for all
of `Desk` `DeskAssumption` (roles are roles, NULL is no request); for tokens `TokensAssumption`
(lifetimes are natural numbers and a second has at least one tick); for contracts
`ContractsAssumption` (bounds are natural numbers); for values `ValuesAssumption` (lengths are
natural numbers, a subscriber number has at least one digit); for attachments `AttachmentsAssumption` (NULL is
no upload); for projects `ProjectsAssumption` (bounds are natural numbers, there is a digit for each
further attempt); for the limiter `RateLimiterAssumption` (times are natural numbers, NULL is no
answer) and `SkewAssumption` (two of the clocks are as far apart as any two, which is so of any
finite number of servers and is what makes `Slack` a number); for notifications
`NotificationsAssumption` (the customer and the staff are users, a page holds at least one account).

Tickets and numbers:

- `TypeCorrect`: `TypeOK` is inductive; besides types it says what a request at each step holds.
- `TransactionsAreAtomic`, `ConflictsComeFromCommits`, `PublishedIsCommitted`,
  `HistoryNeverShrinks`: one inductive invariant `TxnInv`, the three properties and the fact that a
  session's new entries carry its own request. None of the three is inductive alone: what a merge
  takes out of the history belongs to somebody else because the history holds only committed
  requests, and an event is a fact because a committed request's entries are in the history.
- `ApprovalGateHolds`, `StatusIsExplained`: the invariant `Provenance` says of every row anybody
  holds - the stored one, each snapshot, each merged entity and base - that its status has its
  reasons in the history. The stored status alone would not be inductive, since a commit writes a
  status computed long before. The key lemma `MoveIsLegit` is about one permitted change of a
  legitimate row; a growing history keeps rows legitimate (`LegitMonotone`).
- `SerialRefinement`: with `Serial`, the invariant `SerialInv` says that one request runs at a time
  and that what it read is what is stored; merged into that row, the entity is written as it is
  (`FlushWritesEntity`), and each handler's entity is the result of one legal operation
  (`HandlersAreLegal`). `SerialTransitions` reads the graph of transitions off those operations.
- `LegalUnlessStale`: the refinement without `Serial`. What a request is about to store is the
  result of a legal operation on the row it read (`ResultInv`), whatever the others have committed.
  If that row, and the one its merge found, is the stored one, the commit is a step of
  `TicketLifecycle` (`FlushWritesEntity`, `LegalResultIsLegal`); if not, the request was overtaken,
  and what is left of the operation is that a merge that leaves the status alone changes none
  (`CommittedStatus`). Nothing but creations and commits changes the row (`TicketIsCommitted`).
- `SerialStamps`: `StampsInv` adds to the property that the row a lone request is about to store has
  stamps that match the history with the entries it is about to add. It needs `SerialInv`: over a
  stale read a stamp survives the entry it belongs to, or the reverse.
- `NumbersTypeCorrect`, `LosersAreOvertaken`, `AloneIsNeverRefused`: the invariant `BoundInv` says
  that prefixes are those of the namespaces and that no sequence, stored or on its way, is ahead of
  its namespace by more than one. With a prefix per namespace a taken number is therefore one of the
  same namespace, whose count has moved on. `AloneInv` adds, for `Serial`, that the count is
  current.
- `SequencesAreDense`, `NumbersRefineSequence`: for any number of requests, in the first year of the
  clock. `DenseInv` adds that all years are equal, without which the index would let a stale
  sequence through; a number not taken is then exactly the next one of its namespace
  (`InsertsTheNext`), so `Insert` is the abstract `Issue`. When a year has begun only `BoundInv` is
  left, and the abstract counter allows just that: a sequence it has passed.

The bus:

- `BusTypeCorrect`, `OneConsumer`, `StopIsQuiet`: `BusInv` says of each task that has not ended that
  it is cancelled and awaited by a `stop()`, or is the newest one of a running bus. Neither property
  is inductive alone: `start` on a stopped bus is harmless only because every older task is already
  cancelled, and `stop` returns late enough only because what it awaits has ended. The other half of
  `OneConsumer`, that a running bus has a consumer (`RunningMeansServed`), rests on `stop` being the
  only one to cancel or await a task, and clearing the flag in the same step.
- `PublishersKeepTheirOrder`, `HandlersSeeTheOrder`, `NothingIsSkipped`: `OrderInv` ties the three
  records together. The queue is the rest of `accepted` (`QueueIsRest`), a publisher that waits has
  not yet had its last event accepted (`Numbered`), and the calls are on the events taken, in their
  order (`Ordered`). What carries the order of calls over a restart is that a task at work has in
  hand the last event taken, and that the calls with it so far are exactly those of the handlers
  before the next (`HandInOrder`): a cancelled task keeps its event but makes no further call, and
  by `BusInv` no second task is at work.

Comments and reactions:

- `DiscussionTypeCorrect`, `CountersStayBelow`, `AuthorsKeepTheirComments`: a counter is written
  from a row read long ago, so `DiscussionInv` also counts what sessions hold: a row that was read
  has at most as many replies as are stored (`ReadSound`), an entity about to be flushed at most one
  more, if its session brings that reply (`MergeSound`). `CommitReplies` says that the replies grow
  by just the one the session brings. Types need the fact that parents are stored and never change,
  without which a deletion could read no parent.
- `CountersAreExact`, `TogglesTakeTurns`: the invariant `SerialInv` of this module says that, until
  requests overlap, at most one is under way, what it has read is what is stored (`Fresh`), and what
  its session would store now is a state in which every counter is exact, deleted comments are as
  they were, and the reactions are those toggled an odd number of times (`LandsWell`). The commit
  then has nothing left to do. Deleted comments stay, because the guards of the handlers exclude
  them, and the deletion of a reply writes a deleted parent as it is.
- `SpoiltByStaleWrites`: what the handlers make of rows that are still stored spoils no counter that
  was right and touches no deleted comment, whatever the others are (`Keeps`, proved for each
  handler by itself and used by `SerialInv` too). When requests overlap, `RaceInv` says of a session
  about to commit that its work is one of the six a handler can work out of what it holds
  (`WorkedOut`); nobody else touches that, so a commit that was not overtaken is one of the cases
  above. That something overlaps follows from `SerialInv`.

Accounts and customers:

- `AccountsFollowInvitations`, `MailFollowsCommit`: a registration looks at accounts twice and at
  invitations twice, and anything may happen in between. The invariant `InvitationsInv` says that
  every copy of an invitation (its row, what a request has drafted, read or is about to merge) and
  the account made of it agree on the address (`Agreed`), and that names of invitations belong to
  requests that have begun (`Named`). So the check of the email at the insertion, the unique index,
  also keeps a second account of the same invitation out.
- `RevokedTokensBearNothing`: `EntryOutlives` is the arithmetic: the time from now to the expiry, counted
  from the beginning of the current second and cut to whole seconds, ends no sooner than the second
  of the expiry. The invariant `SpentCovered` then says of each token that was revoked or exchanged
  that such an entry is there or the token is over; an entry that Redis drops has outlived its token,
  and a token exchanged without a revocation was over (`LateExchange`). The theorem is about the check
  of `get_current_user` only; that a revoked token buys no pair is false.
- `HoursAlwaysAddUp`: the property is inductive with the types of the three fields.
- `ValuesReadBack`: each class drops and changes characters, and the second time there is nothing left
  to drop or change. For that `Lists` says what is kept by place and not by recursion, and the lemmas
  about `Picked` say which character of the text is at which place of the result. `BuiltAgain` joins
  the classes, and `ReadsBack` is inductive once the text given is known to be one.
- `BranchesAlwaysHaveHeads`, `ContactsAreKept`: what makes a head a head is written once. So a row
  that was read long ago still agrees with the stored one in that (`SameCounterparty`), and a branch
  drafted from it has its head when it is inserted (`HoldsWell`). The contacts need more: until
  requests overlap what a request has read is the stored row (`HoldsLatest`), so the list written
  whole is the stored one with the new contact.

The other services:

- `RefusalsAreTrue`, `MembershipsStayReadable`: a refusal ends a chain of attempts, so the request
  carries what it has found: every candidate before the current one is the key of a project
  (`AttemptsFailed`), and projects stay. `ProjectsNamed` gives every row the request that stored it,
  `MembersUnique` counts the rows a lone request is about to add together with those that are there.
  The owner is stored with the project, so whoever reads the members finds him and adds him to none
  (`OwnersRead`): his row is the only one, with or without overlaps.
- `AttachmentsAreBacked`: what is true of a row is true of the one a confirmation is about to store
  (`Backed`); an upload that makes a size untrue marks its key.
- `TheWindowHolds`: `RateInv` compares the sorted set with the answers. Every entry was earned by a
  request that was allowed (`EntriesEarned`), and every request allowed within the window less the
  slack still has its entry (`EntriesLast`), because a script drops, and the expiry of the key drops,
  only what is older. `StampTells` is the arithmetic: a stamp differs from the time of its script by
  the delay and the skew, so two of them disagree about the window by no more than the slack.
- `BroadcastsReachAll`: a channel that was open at the beginning is broken, has the message, or is
  still ahead of the walk (`WalksWell`); a connection appended to the live list moves nobody, one
  that leaves it marks the broadcasts on their way, and the copies of the SSE queues do not change.
- `StaffHearsOfTickets`: somebody to be told is among the targets found, told, or on a page to come
  (`OnPageFrom`); `NotificationsInv` says so of each step of the handler. An account stored meanwhile
  moves others only to later places (`PlacesRecede`), so the pages to come keep whom they had;
  whether there is one to come is decided with a count, which is right unless the handler is marked.

Model-checked only: `EventuallyHandled`, since liveness under fairness is out of the prover's reach.
Every other property of the runs that pass is proved.

## Not modelled

- Products (`products/`): `create` is one INSERT with nothing to race for; `change_status` and
  `archive` have no caller.
- Staffing: entities nobody calls.
- Proofreading and `tickets/infra/ai.py`, mail, image proxy, VK channel: calls of outside services
  without state of their own.
- Routers, schemas, settings, migrations, CLI: wiring and shapes; a router's call is an action of
  the service's module.
- What only reads: `can_view_ticket` and the filters of the lists, `check_key`, downloads,
  `get_with_descendants`. The policies, factories and preferences of notifications that nothing
  calls.

## Plan

Done: every service that changes state, three of them with refinements or liveness, and a proof of
each of their safety properties. What would come next:

1. Memberships and contact persons, as for counters and statuses: of the additions that overlap,
   which are harmless, and that nothing but a stale read loses or doubles a row.
2. Bounds on what overlaps can spoil: how far a counter of replies may drift, how many memberships
   of a project a user may get.
