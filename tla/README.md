# A verification project for binctl

binctl keeps an inventory: nodes (things and containers), the tree they form, and tags.  A Flask
application served by Connexion answers the REST API (`binctl_server`), `binctl` is its command line
client, `binctl-manage` its administration tool.  All state is in one SQL database (SQLite, PostgreSQL
or MySQL); the process keeps none between requests.  This directory holds TLA+ models of the parts
with the logic, the configurations that check them with TLC, and proofs checked by TLAPS.

## 1. Inventory of the system

| Component | State | Operations | Source |
|---|---|---|---|
| Inventory graph | tables `nodes`, `edges`, `tags`, `tag_node` | create, PATCH, PUT, delete of nodes; create, rename, delete of tags | `db/flask.py` 93-821, `routes.py` 155-410 |
| Event log | `event_sequence`, `inventory_events` | `append_event` (with pruning), `event_bounds`, `fetch_events_after` | `db/events.py` |
| Event stream | a cursor per connection | open, poll, reset, disconnect | `event_stream.py`, `sse.py` |
| Snapshot | none | one SELECT over graph and sequence | `db/flask.py` 392-429 |
| Subscriber | the last id it applied | connect, receive, start over | `client_overrides/binctl_client/event_stream.py` |
| Idempotency | `idempotency_lock`, `idempotency_keys` | switch the lock, look up, save, replay | `routes.py` 58-124, `db/flask.py` 56-86 |
| Transactions | the connection in Flask's `g` | `transactional`, `managed_transaction`, savepoints | `db/flask.py` 27-53 |
| Read endpoints | none | lists, details, children, tags of a node | `routes.py`, `db/flask.py` |
| Authentication | `users`, `tokens` | login, logout, check and touch a token; a stream checks its token once | `auth*.py`, `db/auth.py` |
| Administration | `users`, `tokens`, schema | `create-user` with a password or a token, `set-password`, `revoke-tokens`, two lists, `init-db` | `manage.py`, `db/direct.py`, `db/schema.py` |
| Ids | none | `new_id`, base62 | `db/id_gen.py`, `db/base62.py` |
| Command line client | none | paging loops, formatting | `binctl_cli/entrypoint.py` |
| Web application | configuration | read settings, CORS, mount middleware | `web.py` |

How they interact.  A mutating request passes the token check, then `_idempotent`, which reads the
lock, looks the key up and calls the operation; the operation is a function of `db/flask.py` that
reads and writes the graph and calls `append_event` once for each resource that changed, in the same
transaction; `_idempotent` adds the response for the key and commits.  `/v1/events` bypasses Flask: a
middleware polls the log once a second for each connection, with a connection of its own to the
database.  A client loads `/v1/snapshot`, which carries the id of the last event it includes, and
follows the stream from there.

What is hard here:

* *Rules spread over handlers.*  That edges form a forest of containers follows from checks in six
  handlers and from what deletion does to the children it leaves behind.
* *Events that stand for state.*  Each handler decides which resources changed; a node embeds its
  children, so a change is felt one level up.  A forgotten event is invisible to the server's tests.
* *Statements, not transactions.*  The stream and the idempotency code issue several statements whose
  view of the database may change in between, in a way that depends on the engine.
* *Pruning against readers* who are anywhere between two statements.
* *Retries* that overlap with the request they repeat; failures and restarts in mid-request.
* *Checks before writes.*  Mutations run under READ COMMITTED, or on SQLite without any lock until their
  first write: what a handler has checked may no longer hold when it writes.
* *Locks taken in different orders* by handlers that delete, create tags, or announce events.
* *Sessions that end while they are used*, and commands that are killed between two transactions.
* *Lists put together from pages* of a table that changes.
* *Savepoints on SQLite.*  The sqlite3 driver sends `SAVEPOINT` without `BEGIN`; when it is the first
  write of a request, its `RELEASE` commits.

What makes each component correct is stated by the properties of section 3; the complete list of
hazards, each with its line, is in `PROJECT.json`.

## 2. Modules

| Module | What it models |
|---|---|
| `Inventory` | the graph, the seven mutating handlers served one after another, and their events |
| `Follower` | extends `Inventory`: a subscriber of the events, which holds what they have told it |
| `Ordering` | what `ORDER BY` and `sorted()` make of a set; shared by `Inventory`, `EventStream`, `Transactions` and `Listing` |
| `Feed` | abstract: what snapshot and stream promise a subscriber |
| `EventStream` | the log, concurrent writers, the polling middleware statement by statement, clients |
| `Idempotency` | overlapping mutations under the lock, statement by statement |
| `Transactions` | two or more mutations at a time, statement by statement, with the locks of PostgreSQL and SQLite |
| `Sessions` | logins, tokens, requests, streams and the commands of `binctl-manage` |
| `Ids` | ids as numbers and as text (operators only) |
| `Listing` | extends `Ids`: the paging loops of the client while rows come and go |
| `InventoryProofs` | the theorems about `Inventory`: its tables; its events |
| `EventStreamProofs`, `IdempotencyProofs`, `SessionsProofs`, `ListingProofs` | those about these modules |
| `TransactionsProofs`, `TransactionsRaceProofs` | those about `Transactions`: its types and references on either engine; what only races can do, and circles of locks |
| `OrderingProofs` | lemmas about `Ordering`, and induction over numbers, cited by the others |
| `MC*` | instances for TLC |

`Inventory` says what each mutation does when it runs alone, `Transactions` what becomes of several that
overlap; the first has all cases of each handler, the second all of its statements.  `Idempotency` takes
the keyed requests, and reduces the operations to what a retry can notice.  `EventStream` takes the log
the mutations append to.  `Sessions` stands in front of all of them, `Listing` behind the reads.

### Inventory

State: `nodes`, `containers` (`is_container`), `label`, `parent` (table `edges`; a function since
`child_id` is unique), `tags`, `tagged` (`tag_node`), and of the last request its status `reply` and
the events it committed, `batch`.  `description` and the timestamps are left out: no guard reads them.

There is one action for each handler, with all its branches: `PostNode`, `PutNode`, `PatchNode`, `DeleteNode`,
`CreateTag`, `RenameTag`, `DeleteTag`, each ending in the reply the route gives.  A request is atomic here; overlapping
requests are the business of `Idempotency` and `Transactions`.  Where `EarlyCommit` holds (SQLite) a create is not
atomic: a refused one leaves its row (`RefuseCreate`), and so does a server that stops after the savepoint
(`CreateInterrupted`, `CreateTagInterrupted`).

* `ensure_parent_is_valid` is a recursive query.  `Ancestors(p)` is its result, the smallest set closed
  under `parent`; a walk that enters a cycle which the child is not on never ends (`UNION ALL`), and
  `ParentAccepted` has no step for it (`WalkEnds`).
* `DeleteNode` follows the code case by case: no orphan location or no children; the orphan container
  is the deleted node, a child of it (the CHECK on `edges` fails, 500), or elsewhere; or there is none
  and one is created.
* PUT of a new container under itself passes the checks of the code and fails at the CHECK (500).
* An event holds the resource as `fetch_node_representation` returns it, direct children included.

Left out: ids that collide when drawn at random (any free id is drawn), bodies that are refused before
the database is read (syntax, lengths), and lists that mix invalid tag names with valid ones.

`Follower` adds `held`, the graph as a subscriber knows it: a snapshot, and then the events of one request after
the other (`Receive`), until it takes another snapshot (`Reload`).  It is the specification of all four runs
of `Inventory`.  What it holds is not always the graph: on SQLite a failed create leaves a row that no event has
announced (`Unannounced`).

### EventStream and Feed

State: `log` (committed), `holder` and `work` (the writer that has the `event_sequence` row, and the
log as its transaction sees it), and for each client the server's end of its connection `conn`, the
messages under way `wire`, the last applied id `cursor`, and whether its graph is current for that id
(`synced`).  `AppendEvent` is `append_event` with its pruning, `Commit` and `Rollback` end the
transaction.  A poll is two or three steps, one per SELECT: `ReadMinimum`, `ReadMaximum` (when the
stream is opened), `ReadRows`, and any commit can come in between.  `isolation` is chosen at the start:
`"statement"` for engines where each SELECT sees the latest commit (SQLite, PostgreSQL by default),
`"transaction"` where all SELECTs of a connection's transaction see the same state (MySQL).  A client
does what the README asks: snapshot, connect with its cursor, apply events, and take a new snapshot on
`reset-required`.  `Lose` breaks a connection with what is on it, `Restart` all of them.

`Feed` is the promise: `position` moves to the next event, or to the head by reloading; a lossy feed may
also skip.  `EventStream` implements it with `head <- log.seq`, `position <- cursor` and
`lossy <- isolation = "statement"`.

What an event says is not modelled here; that a batch of events leads from one graph to the next is
`EventsCarryEveryChange` of `Inventory`.

### Idempotency

State: the lock `enabled`, the table `stored`, which `nodes` exist, `holder` (whose transaction has the
write locks: the database on SQLite, the `event_sequence` row elsewhere), and for each attempt its
`request`, where its thread is (`phase`), what its first SELECT saw (`sees`) and its `answer`;
`committed` is a history variable.  The steps are the statements of `_idempotent` and of the operation:
`Start` (lock against header), `Lookup`, the operation's first read, its write, `Append`, then
`FinishKeyed` (save and commit, or `IntegrityError`) and `Conflict`, or `FinishUnkeyed` and `Respond`
(without a key the response is read after the commit).  `Fail` is an exception at any point (a lock
timeout, a deadlock the database resolves, a lost connection to it), `Restart` stops the server,
`SetLock` switches the lock at any time.  A retry is another attempt with the same key, at any time.
Three operations stand for all: POST always creates, PUT creates or updates, DELETE needs the node.
Writes are serialised by `holder` from the first one on.  An engine that locks rows lets the first writes
of two requests overlap, but two that are about the same row wait for each other, and so do any two at
their first event; the outcomes are those of the serial order.

The key stands for (user, key).  A key of invalid length is refused before anything is read and is
left out.

### Transactions

A request is a program (`Program`): the sequence of statements its handler sends, such as
`<<"ensure_container", p>>` or `<<"insert_edge", n, p>>`.  `todo[t]` is what is left of thread t's; a
statement may put others in front of the rest, as a handler does that branches on what it reads.
`db` holds the committed rows, each named by its unique key; `writes[t]` what t's open transaction has
put on top of them, which is at the same time the set of rows it has locked; `shares[t]` the rows its
foreign keys lock against deletion; `seen[t]` what the handler keeps in variables; `news[t]` the events
it has appended, `copy` what a subscriber knows that has read all events.  `overtook` is a history
variable: who committed since a request began.  There is one action for each kind of statement.

* PostgreSQL, READ COMMITTED: every statement sees the latest commits and its own writes; a statement
  waits for those that hold a row it writes, that have a foreign key on a row it deletes, or that
  delete a row it refers to; `Victim` is the deadlock detection.  `ON DELETE CASCADE` is carried out.
* SQLite: one write lock on the whole database from the first write to the commit; before it, a request
  sees whatever is committed.  Foreign keys are not switched on by the code.  `RELEASE` commits when the
  `SAVEPOINT` came first.  `Timeout` is the busy timeout, for a write that waits and for a commit that
  waits for a reader.
* A `DELETE` takes the rows it finds, one by one (`remove_row`); one that another commit has written in the
  meantime is passed by (`pass_by`).  The `INSERT` of a list of tags is one `insert_mark` for each, in any
  order: `replace_node_tags` sends the members of a `set`.
* An event's resource is read by several SELECTs before the event takes `event_sequence` (`Announce`, `ReadParent`,
  `ReadChildren`, `ReadChildTags`, `ReadTags`, `AppendEvent`), so that on PostgreSQL a commit can come between any two.
  Whoever has the sequence already reads it in one step: nothing it reads changes before its own commit, since a
  request that changes something needs the sequence for its event before it commits.
* A PATCH of label or description only (`Relabel`) locks the row of its node and leaves its kind; one of
  neither, nor of `is_container` (`Keep`), sends no UPDATE.
* `Respond` is the read after the commit that the response is made from: another request can have removed the node by
  then, and the answer is 500.
* A recursive query on an existing cycle that does not contain the node it looks for goes on for ever:
  `EnsureAcyclic` has no step (`Endless`), and on SQLite nobody commits meanwhile.

Simplified: a tag's name stands for its id, a re-created tag's too; the values of labels and descriptions and the
renaming of tags are left out; the five attempts of `ensure_tag` do not run out; and MySQL is left out (REPEATABLE
READ with gap locks).

### Sessions

State: `password` (the hash a user has, or none), `tokens`, and for each actor (a request thread or a
`binctl-manage` process) its `task` and its next statement `at`.  A hash is what it is a hash of; `"!"` is
the stored value for which no password verifies.  A token has the time `left` until `expires_at`; `Tick`
is the clock.  Only a login keeps a transaction open over several statements (`UpdateLastLogin`,
`InsertSession`); `Blocked` says who waits for it.  `create-user --token` is two transactions, an
authenticated request is lookup, touch, handler.  `Fail` kills any of them between two statements.
`entitled`, `late` and `swept` are history variables, updated by `Observe` beside each step: whether an
actor's credentials were right at some time since its task began, whether its user's tokens were revoked
since then, and whose tokens were revoked since their last `set-password`.  The values of `last_login_at`
and `last_used_at` are left out, their locks are not.  The commands that list only read, `init-db` gives
the initial state.

### Ids and Listing

`Ids` has `new_id` as arithmetic, `encode` as a recursive function, `decode` as a fold, and `decode_id`, for
any base.  A text is a sequence of digits, with one value more for any character outside the alphabet.
`Listing` has the loop that `binctl node list` and `binctl tag list` share: `Count` and `FetchPage` are the
two statements of a page, and others change the table between any two.  A node is inserted with an id
from `NewId` or, by PUT, from a text; a tag at any place in the order of names.  `removed`, `inserted`
and `short` are history variables.

## 3. Runs

| Run | Constants | Shows |
|---|---|---|
| `inventory` | 3 ids, 1 label, 2 tags, at most 1 tag per request, no orphan location | `TypeOK`, `NoDanglingRows`, `ParentsAreContainers`, `Forest`, `EventsCarryEveryChange`, `EventsNeverDangle` |
| `inventory_orphans` | 3 ids, 2 labels (one is the orphan location), 1 tag, no tags on nodes, `EarlyCommit` | `ParentsAreContainers`, `OnlyBareRowsAreUnknown`, `EventsCarryEveryChange`, `EventsNeverDangle`, `CyclesComeFromOrphaning`, `DeletionKeepsTheRest` |
| `stream` | 2 writers, 1 client, retention 3, pages of 2, 6 events, 2 lost connections | `TypeOK`, `LogIsTail`, `NeverAhead`, `ResetsAreNeeded`, `OnlyPrunedEventsAreSkipped`, `FollowsFeed`, `CatchesUp` |
| `idempotency` | 3 attempts, 1 key, 1 switch of the lock, 1 fault | `TypeOK`, `OneChangePerKey`, `SuccessIsTheStoredOne`, `ErrorsChangeNothing` |
| `idempotency_sqlite` | 2 attempts, 1 key, `EarlyCommit`, 1 switch, 2 faults | `SuccessIsTheStoredOne`, `EveryRequestEnds` |
| `transactions` | 2 requests at a time and one after them, 4 ids, 2 tags, PostgreSQL and SQLite, eight settings | `TypeOK`, `CirclesNeedLocksOutOfOrder`, `CyclesNeedTwoMoves`, `ItemsGetChildrenInRaces`, `OnlyDeletionsDangle`, `CopiesGoStaleInRaces`, `TagsBecomeTheList`, `EveryRequestIsAnswered` |
| `sessions` | 1 user, 1 password and `"!"`, 2 tokens, 2 actors, sessions of one tick, both engines | `OnlyTheEntitledGetIn`, `OldPasswordsAreSwept`, `HalfMadeUsersNeedAPassword`, `TokensEndForGood` |
| `listing` | base 2, ids to 4, pages of 1 and 2, any table at the start, 3 changes | `ListsAreExactUnlessRowsMove`, `NodesAnswerToOneText`, `ListsEnd` |
| `forest_orphans`, `create_sqlite`, `stream_gap`, `idempotency_race` | small | counterexamples, section 6 |

Why the bounds are enough.  Three nodes are the least for a cycle that is not a swap, for a child with
a parent and a grandparent, and for a node that is deleted between its parent and its child; the
theorems of section 5 cover any number.  One tag per request is enough for an event of each kind, two tags for
renaming onto another one.  With retention 3 and pages of 2 a backlog takes two pages and is pruned
while the first one is under way; 6 events prune every position once.  Clients meet only in the log, so
one is enough.  Keys meet only in the nodes they are about, and requests without a key do the same, so
one key is enough; three attempts are an original, a retry, and a stranger that deletes the node.

The properties of `transactions` say of each thing that can go wrong what it takes: a cycle, an item with children, a
dangling edge, a stale copy, a union of two lists of tags, a deadlock.  A request that is overtaken by nobody does what
`Inventory` says, so two requests are the least, and all pairs that share a row occur in the eight settings: moves,
deletions and `is_container` over three nodes and a new one; tags; lists of tags for one node; orphans with a container
to find and without; a cycle left behind; what a deleted node has left on SQLite; and a node that is made anew.  In the
last two there is a third request: after both, the PUT that takes the id of the deleted node, and with it the children,
the parent and the marks that dangled; or, while the first is still running, the PUT that makes its node anew, which
unites two lists of tags although each of them locks the node.  More than two requests that overlap all the time are
beyond the time of a run, and a race can be a chain of them: a child that a DELETE has orphaned too late is given a
home by a second DELETE, and a third one takes it along.  The properties allow for such chains; section 5 says which of
them are proved for any number of requests.  `sessions` has one user because users do not meet, and one proper
password, so a "new" password may be the old one; two actors are a task and what overtakes it.  `listing` starts from
every table, so no long history is needed; ids beyond `MaxId` are drawn, and refused; `FarOff` caps the offset past
every row, where no page has anything.

`MCTransactions` lets the first thread start first, which is no restriction since threads are alike;
`sessions` is symmetric in actors and in tokens, as its one fairness condition is about the clock only.

`MCInventory` gives the runs of `Follower` a VIEW without `reply` and `batch`: the properties read them
only in the state a step leads to, and no action reads them.  `idempotency` is symmetric in the
attempts; the runs with a liveness property use no symmetry.  Deadlock is not checked where the model
stops at a bound or when every request has been served.

## 4. Fairness

`EventStream!FairSpec`: the loop of the middleware goes on as long as its connection is there (an asyncio
task is resumed), and a client that is disconnected or told to reset acts again, which is the protocol
of the README.  Writers are not fair: `CatchesUp` speaks of what they did commit.  Connections are lost
finitely often.  `Idempotency!FairSpec`: a thread that has a request goes on with it.  Nothing says that a client
sends or repeats one.

`Transactions!FairSpec`: as long as anybody can go on (execute its statement, answer, or be told that it waits in a
circle or, on SQLite, for too long), somebody does; that no thread is favoured need not be assumed, since programs are
finite and each thread serves one request.  The exception in `EveryRequestIsAnswered` is the walk round a cycle, which
has no step.  `Sessions`: only time passes.
`Listing`: the client goes on asking; nothing is assumed of the others or of how often they stop.

## 5. Proofs

Every module with theorems is checked to the last leaf; what is proved holds for every value of the
constants that satisfies the assumptions named here.  The argument is the same everywhere: an inductive
invariant `IInv`, one lemma for each action, and the temporal step at the end.

### Ordering

`OrderingProofs` has what the others need about sets put into a sequence and about joined sequences.
`Place(S, x)` counts the members before x, so that a set's order is a function on its members and
not a recursion; that every place from 1 to the cardinality is taken (`Ascending` lists every member, once)
then follows by counting: places map the set into itself and injectively, so they are all of it.

### Inventory

`InventoryProofs`, from `InventoryAssumption` only:

* `TypeCorrect`, `ReferencesHold`, `ParentsStayContainers`: the first three invariants.  The inductive
  invariant `IInv` joins the three: that a removed node leaves no edge needs
  that its children were found, that a new edge has both ends needs that parents are containers and
  containers are nodes.  Each handler has its own lemma.
* `StaysForest`: without an orphan location `Forest` is invariant.  `MoveKeepsForest` is the core: if
  p's ancestors do not include n, then hanging n under p leaves a forest, since a closed set of nodes
  after the move is, without n's edge, closed before it, or contains p and all of its ancestors.
  `RemovalKeepsForest` treats children that become roots, `FreshIsNoAncestor` new nodes.
* `OnlyOrphaningClosesCycles`: with an orphan location, each step from a forest leads to a forest unless
  it deletes a node that is an ancestor of the orphan container found.
* `DeletionIsLocal`: whatever a DELETE does to orphans, nodes and their tags and edges stay as they are,
  except for the deleted node and its children's edges.
* `RefusalsAreHarmless`: a request that is refused or interrupted changes nothing, if `~EarlyCommit`; run
  `create_sqlite` shows that this is needed.

`Forest` is stated over sets of nodes instead of paths, and `Ancestors` as an intersection of closed
sets instead of a recursion, so that no induction over paths is needed.  That is also why
`FoundOrphanContainer` is a set of minimal ids: that a minimum exists is not needed for the proofs, only
that the container found is one.

About events, with `FinitenessAssumption` besides (ids are BIGINTs and tag names have at most 255
letters and hyphens, `flask.py` 321-327; the events of a request are a finite list):

* `EventsTellEverything`: the copy of a subscriber that applies the batch of a request is the new state.
  What counts is the last word of the batch on each resource.  A handler's batch is a join of a few parts, and
  `LeadJoined` says whose word is the last.  Each word is true (it shows the state after the request);
  and there is one for each resource that changed, since a representation depends on a node's own
  row, its edge, its tags and its children's rows only (`SameRepresentation`), and each handler announces the
  node, its former and its new parent, or the bearers of a tag and their parents.
* `SubscribersKeepUp`, that is `OnlyBareRowsAreUnknown`: the copy carried from request to request by `Follower` is
  the graph, but for rows that no event has announced, and these have no parent, children or tags.  A batch says
  the last word on all that changed (`EventsTellEverything`); of what did not change, a row stays bare only if
  nobody was put under it or above it, and whoever is, is announced.
* `EventsHangTogether`: what the subscriber of `Follower` holds names only what it has heard of, after every single
  event.  What a handler creates it announces first, so that every prefix is closed (`AnnouncingIsClosed`); what it
  deletes it announces last, after all that referred to it (`DeletingIsClosed`).  An event may name an unannounced
  row on SQLite only before the end of its batch, which announces it.

### EventStream and Feed

`EventStreamProofs`, from the assumption of the module:

* `TypeCorrect`, `HistoryIsATail`, `ClientsAreNeverAhead`, `ResetsAreForTheLate`, `SkippedEventsArePruned`.  The
  inductive invariant adds to `LogIsTail` that a writer's log extends the committed one (`WriterIsAhead`: only
  the holder of the sequence row appends), that what a poll has read was committed and is not later than the
  present (`PollsAreInStep`), and that the messages under way go on, in order, from the client's cursor to what
  the server has sent (`StreamsAreInOrder`).  None of the five is inductive without it.
* `StreamIsAFeed`: `FeedInit` and `FeedStep` map the initial state and each step; a delivery is a move, a
  snapshot is a reload, everything else stutters.  Where a poll reads one snapshot, the events a poll finds
  are the next ones, and the feed is exact.

### Idempotency

`IdempotencyProofs`: `TypeCorrect` and `OneResponsePerKey` for both kinds of engine; `OneChange` and
`ErrorsAreHarmless` if `~EarlyCommit`.  `IInv` says who holds the lock in which phase (`LocksAreHeld`) and
what a thread in a phase may assume (`ThreadsAreInStep`: what its first SELECT saw, and that a response it
replays is stored).  `StrictIInv` adds where the rows come from: a node that exists was made by a request
that committed (`CommittedAreDone`), and goes only by a DELETE (`RowsGoByDeletion`).

### Transactions

`TransactionsProofs`, from `TransactionsAssumption`, for any number of threads, nodes, tags and settings:

* `TypeCorrect`, by an inductive invariant `IInv` that holds three more parts.  `LocksAreExclusive` says that on
  PostgreSQL open transactions have written different rows (that is the engine's lock, a lemma and no result).
  `CreatesFirst` says that a request creates its node, or looks whether it is there to be replaced, before it writes
  anything.  `HoldsInOrder` is about the order of locks.  The rows have an order (`Rank`): the node,
  its edge, its tags and marks, the sequence of events.  Each statement has a lowest and a highest rank
  it, or what it puts in its place, may write.  `Part` says of a sequence of statements that the highest of one is
  never above the lowest of a later one, and that they stay within the rows of the request (`Scope`); there is
  one lemma for each program, and one for each statement that puts others in front of the rest.  `IInv` says so
  of `todo`, and of `writes` that no row held comes after one still to be written, except for the sequence while a new
  tag has been announced.  A DELETE is exempt: it writes in no order.
* `NothingDanglesOnPostgres`, the PostgreSQL half of `OnlyDeletionsDangle` and more: what an open transaction
  sees does not dangle either.  Whoever has written a row that refers to another shares the latter until
  it commits, and nobody else has deleted what is shared (`KeepsReferences`); so when a commit makes
  one transaction's rows visible to another (`CommitKeepsReferences`), neither has deleted what the other
  refers to.  A deletion takes along what refers to its row in its own view, and what it cannot see is shared.

SQLite has no foreign keys to rely on; there, what a handler has looked up still holds when it writes, unless
a deletion commits in between:

* `DanglingNeedsADeletion`, that is `OnlyDeletionsDangle` for both engines.  The inductive invariant `FilesAreKept`
  adds to `OneWriter` (whoever has uncommitted writes is alone with them: the engine again) what a request may assume
  of the rows it is going to write about (`LooksFirst`).  The property alone is not inductive: it speaks of commits,
  and a commit is right because of what the handler read statements ago.  The parts:
  - `Grounded`: a statement that will insert a reference needs rows (`Needs`), and each of them is there already,
    in the request's view (`Has`), or a statement before it in the program will look it up or insert it (`Gives`).
    A request that a deletion overtook (`Belated`) is excused, which is what the property concedes.
  - `Swept`: before a deletion of a node or tag removes the row, the statements that remove what refers to it are
    still to come, or the database is its own and what they have found covers all there is (`SweepsAll`).
  - `WritesUnderItsNode` and `KnowsChildren`: edges and marks are written of a node that is there; a child that
    a DELETE gives a home was there too, or had been dangling before.
  - `BringsNothing`: so what a request sees dangles only where the committed rows do, and that is what its commit makes
    of them.

  Each statement has a lemma; the hard ones are the commit of another request (`CommitKeepsFiles`: it changes what
  everyone sees who has no transaction open, and only a deletion takes a row away) and the `RELEASE` of a
  savepoint, which commits a row while its request goes on.  `FilesAreKept` was an invariant of a TLC run with
  two threads and the settings of `transactions` on SQLite before it was proved.

`TransactionsRaceProofs`, from the same assumption, shows for both engines what else only a race can do.  First of
cycles and items:

* `ItemsNeedARace` and `CyclesNeedARace`, that is `ItemsGetChildrenInRaces` and `CyclesNeedTwoMoves`.  Neither is
  inductive: both speak of commits, and a commit is right because of checks the handler made statements ago, in a
  view that others may have changed since.  The inductive invariant `PromisesAreKept` is about promises: that p is no
  item (`Container`), that n has no children (`Childless`), that p lies neither at n nor below it (`Unlinked`).  A
  promise is `Kept` if it holds in what the request sees now, or if a request that has committed meanwhile excuses it.
  Each request always satisfies the following:
  - `Backed`: whatever promise a statement relies on (`Wants`) is kept, or will be made good by a check that comes
    before it in the program (`Proves`: `ensure_container`, `ensure_childless`, `ensure_acyclic`, and the insertion of
    a new node).
  - `EdgesBacked` and `ItemsBacked`: the promises on which the request's own uncommitted rows rest are still kept.

  A statement of the request itself breaks no promise it still needs (an edge keeps its node's `Unlinked`, for example,
  since a closed set of nodes without n stays closed when n's edge changes), and the commit of another
  breaks one only by attaching a child or by making an item, which excuses it.  Edges and items of SQLite's deleted
  nodes, which the properties except, come from `Releases`: only a `RELEASE` or a commit changes rows others see.
  `Ancestors` is shown to be the least set that is closed (`LeastOf` and the lemmas after it), so that what
  `EnsureAcyclic` finds is `Apart`; at the commit, `CutsKeepAcyclic` and `MoveKeepsAcyclic` make of it that no
  circle is closed.  The proof rests on `FilesAreKept` too.  `PromisesAreKept` was an invariant of TLC runs with
  two threads on both engines before it was proved.

Then of the lists of tags, and of circles:

* `TagsFollowTheList`, that is `TagsBecomeTheList`.  A request replaces the marks it has found, by statements that
  others run between, and only its commit is spoken of.  The inductive invariant `TagsAreInHand` says of a request
  that has a list in which of four phases it is: a PUT that has not looked for its node (`Undecided`); a creation
  without tags, which touches no mark (`Bare`); before the DELETE of the old marks, all of the list still to be sown
  (`Gathering`); and after it (`Laying`).  In the last, each tag of the list has its mark in the request's own writes
  or an insertion to come, and each other tag has no mark the request sees, or a removal to come, or the
  request is `Met` by a commit the property excepts.
  - No removal comes after an insertion in any program (`InTurn`), so the request undoes no mark it has planted.
  - Another's commit changes what `Laying` is about only if it plants a mark of the same node (`CommitPlants`).  On
    SQLite it cannot: the DELETE of the old marks has taken the database (`OneWriter`).  On PostgreSQL it has a list
    for the node as well, and then either one of the two does not lock the node, or both hold the node's row
    (`HoldsNode`), which `LocksAreExclusive` excludes, unless a DELETE let one of them update nothing (`NodeWent`).
  - `HoldsNode` needs `FindsNode` (a PUT or POST that means to write the node's row sees it, or the node went) and
    `DeletesItsOwn` (who removes a node's row is a DELETE of this node, and a deletion plants no marks).
    `CreatesFirst` of `IInv` is what the first of them starts from.
  - That a request without tags leaves on SQLite what it finds is excepted only when its transaction does not write
    the node's row; so `Bare` says that such a request has no UPDATE of the node to come (`Tame`).
  - A RELEASE on SQLite commits a node or a tag, never a mark (`ReleaseInHand`).

  That the tags themselves are there at the commit is, on PostgreSQL, `NothingDanglesOnPostgres`; on SQLite each tag
  was looked up, or inserted, with the database already taken (`Naming`).  The property was at first stated without
  the case of the DELETE; TLC runs with three and four overlapping requests refuted that, and section 6 describes
  what happens.
* `CirclesNeedADisorder`, that is `CirclesNeedLocksOutOfOrder`, for a set of threads that wait for each other.  On SQLite
  there is none: who waits for the database has nothing open, and who keeps another from committing, by walking round a
  cycle, waits for nobody (`NoCircleOnSQLite`).  On PostgreSQL, whoever in the set
  holds a row waits for none of a lower rank (`NoCircleInOrder`, from `HoldsInOrder`).  From the top: who holds the
  sequence would have to wait for the sequence; who holds a new tag is about to announce it; who holds a mark of a node
  waits for another mark of the node, and for that both must have a list of tags for it, and one of them must not hold
  the node itself (`HoldsNode`, which is why this theorem stands here); and a request writes one edge and one node only.
  The hypotheses are about the members of the set, not about others.

### Sessions

`SessionsProofs`, from `"none" \notin Users`: `OnlyEntitled`, `SweptForGood`, `TokensStayEnded` and
`HalfMadeStaysHalfMade`.  The inductive invariant says what an actor between two statements may assume: of the
token it looked up that it was valid since its task began, of the user it is about to give a token that its
password was right then, and that a token made from an older password belongs to a task that was under way.

### Listing

`ListingProofs` has `ListsAreExact`, by an invariant over ranks in the table: a row that nothing has moved
and that lies before the offset has been shown (`CollectsAll`), no more rows were shown than the offset counts
(`NeverTooMany`), and what is no greater than a shown row lies before the offset unless an insertion pushed
it on (`CollectsInOrder`).

`NodesHaveOneText` is `NodesAnswerToOneText`, for any base above 1 and any largest id.  Since `DecodeId` accepts a text
only if encoding its value gives the text back, there is never a second one; what has to be shown is that the text
`Encode` writes for an id is accepted.  From `ListingAssumption` this uses that these texts are among those that
may be typed.  It is an induction over ids, and the library's theorems take the property as an operator, which the
provers cannot instantiate; `Induction` of `OrderingProofs` takes it as the set of the numbers that have it,
and follows from the fact that a finite set of numbers has a greatest member.  By it

* functions that satisfy the equations of `Encode` and of `FoldLeft` exist (`EncodeExists`, `WorthExists`): TLA+ chooses
  such a function, and without one nothing would be known of the choice;
* a text has digits only, and at least one (`TextsHaveDigits`);
* the fold is a sum made place by place (`ValueSums`), so that one more digit multiplies by the base and
  adds the digit (`ValueOfAppend`), which is what `Encode` does in reverse (`ValueOfText`).

### Only model-checked

* Liveness (`CatchesUp`, `EveryRequestEnds`, `EveryRequestIsAnswered`, `ListsEnd`): needs ENABLED.
* `CopiesGoStaleInRaces` of `Transactions`: which copies in the event log may be out of date needs an invariant of
  its own, for what each handler has read and announced.
* The runs that show counterexamples.

## 6. Where the code and its documentation differ

* `forest_orphans`: `_find_orphan_container` does not look whether the container lies below the deleted
  node; the children then hang below their own descendant.  The documentation says that a new root
  container is created in this case.  Afterwards `ensure_parent_is_valid` may run for ever on these nodes.
* `create_sqlite`: on SQLite a create that is refused with 400 leaves its node behind.  No event tells of it; the first
  event that names it (a child's, say) may come before the one that announces it, in the same request.
* `stream_gap`: a commit between the reset check and the fetch of one poll that prunes events the
  client needs makes it skip them without `reset-required`.  `OnlyPrunedEventsAreSkipped` shows that
  nothing else can be skipped, and `FollowsFeed` that it cannot happen where a poll sees one state.
* `idempotency_race`: a DELETE (or a PUT of a new node) repeated while the first one is running may be
  answered 404 (400) instead of with the first one's response.  `OneChangePerKey` shows that no harm is
  done to the data.

What the passing runs allow, and so what can happen, is as much a result.

Overlapping mutations (`transactions`):

* Two moves that check before either has written close a cycle, on both engines; afterwards a move under
  it never returns, and on SQLite it keeps everybody else from committing.
* An item gets children when it is made an item while a child is attached to it.
* On SQLite an attach (or a list of tags) overtaken by a DELETE leaves an edge or a mark that refers to
  nothing.  A PUT of a node that has just been deleted commits its edge and is answered 500.
  A node created later with the deleted one's id has these children and marks, even as an item, and may close a
  cycle with them although nothing overlaps any more.
* An event may show the resource as it was before another request's commit, or partly before and partly after it, since
  it is read, by several statements, before the lock that orders events is taken; a child, a former parent or a bearer
  that a handler did not see when it began is not announced at all.  On SQLite `POST /tags` commits its tag before its
  event.
* On PostgreSQL two PATCHes of a node's tags may leave their union, and two of its parent may end with a
  unique violation, 500.  So may two PUTs that give one node lists of tags, though each of them writes the node's
  row: if a DELETE comes between, `put_node` updates no row and locks none (it does not look at the number), the
  second PUT makes the node anew and commits, and the first adds its marks to the second's.
* On PostgreSQL requests can deadlock, but only if one of them deletes something or creates a tag, or if two
  give a node lists of tags that its row does not keep apart (one of them is a PATCH that does not write it, or a DELETE
  has taken it away): `set(tag_ids)` does not put the marks in one order.

Sessions (`sessions`):

* `set-password` ends no session.  A login that is under way survives `set-password` and `revoke-tokens`.
* `create-user --token`, killed between its two transactions, leaves a user whom only `set-password` lets
  in, since no command gives a token to a user that exists.
* A stream goes on after its token has ended.
* `list-tokens` is documented as listing active tokens (`manage.py` line 108), and lists expired ones as
  well; they are never removed.  A command that is given a password leaves a session behind.

Lists and ids (`listing`):

* `binctl node list` misses or repeats nodes when others come or go before them, and may go on asking for
  pages for ever when one goes between a COUNT and its page and others come later.
* With the clock before `EPOCH_US` an id is negative, and the loop of `encode` does not end.

Noticed while reading, outside the models: `docs/cli.md` says that `node update` rejects `--parent-id`
together with `--no-parent`, where `entrypoint.py` (225-228) lets the former win; and it names an option
`--tag-id` that is `--tag` (of nodes) or `--tag-name` (of tags) in the code.

## 7. Not modelled, and the plan

What would come next, in this order:

1. A proof of the last action property of `Transactions`, `CopiesGoStaleInRaces`: that a request announces all it
   changes, as it is, unless another commits meanwhile.
2. `Transactions`: renaming a tag while nodes are given it; a GET of a node, whose statements others run between.

Not planned: MySQL's locks (they depend on the plans of its optimiser); the commands of the client that
send one request and print its answer; configuration and CORS (read once at start), request validation and
routing (Connexion), password hashing (a library), the generated client and its templates, packaging.
