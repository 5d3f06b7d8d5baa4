# PyMongo: a TLA+ model of the driver's concurrent core

This project models the parts of PyMongo that are hard to test: the connection
pool, server discovery, the topology that joins the two, the threads that
monitor servers, server selection, sessions with their retries, bulk writes and
change streams. The synchronous code is the reference
(`src/pymongo/synchronous/`, and the modules it shares with the asynchronous
API). Line numbers below refer to it.

## The system and its parts

A `MongoClient` owns one `Topology`. The topology keeps an immutable
`TopologyDescription` of the deployment and one `Server` for each host in it; a
`Server` has a `Pool` of connections and a `Monitor` thread. An operation takes
these steps, each of which meets other threads:

1. it gets a `ClientSession`, which later takes a server session from a pool;
2. it selects a server from the description;
3. it checks a connection out of the server's pool, or creates one;
4. it sends a command and reads the reply;
5. on an error it tells the topology, which may forget what it knew of the
   server and clear the pool, and it may try again.

Meanwhile monitors check the servers, SRV polling adds and removes hosts, a
background thread keeps `minPoolSize` connections open, and the application may
close the client. Bulk writes, `with_transaction` and change streams are loops
above these steps, with state that has to survive their retries.

| Part | State | Operations | Hard behaviour | Module |
|---|---|---|---|---|
| Connection pool (`pool.py`) | idle deque, state, generations, three semaphores, two condition variables | checkout, checkin, ready, reset, close, `remove_stale_sockets` | timeouts racing notifies, partial failure of a checkout, clear during connect | `Pool` |
| Topology description (`topology_description.py`) | type, set name, server descriptions, newest election | hello replies, errors, SRV polls, reset | replies out of order, elections, hosts that come and go | `TopologyDescription`, `Sdam` |
| Topology (`topology.py`, `monitor.py`, `server.py`) | description, table of servers, open or closed | `_ensure_opened`, `on_change`, `on_srv_update`, `handle_error`, `close` | steps outside the lock, late replies, errors of earlier generations | `Topology` |
| Monitors (`monitor.py`, `periodic_executor.py`) | flags of two executors, their threads, connections, round trip times | open, close, wake, cancel, the check and its stream | flags without a lock, a thread that closes itself, cancel during a read | `Monitor` |
| Server selection (`topology.py`, `topology_description.py`, `read_preferences.py`, `server_selectors.py`, `max_staleness_selectors.py`) | candidates in the shared description, deprioritized servers | `select_servers`, `apply_selector`, the read retries | candidates that another selection filtered, waiting, stale `Server` objects | `ServerSelection` |
| Sessions (`client_session.py`) | pool of server sessions, transaction state, pin | start, end, commit, abort, `_apply_to`, `with_transaction` | lazy server sessions, dirty sessions, forks, commits with unknown outcome | `Session` |
| Retryable writes (`mongo_client.py`) | last error, attempt number, limits | `_ClientConnectionRetryable.run` | lost replies, overload, errors that hide a write | `Session` |
| Bulk writes (`bulk.py`, `client_bulk.py`, `message.py`) | runs, current run and offset, result | `execute_command`, `_execute_command`, `_merge_command` | retries in the middle of a run | `Bulk`, `Session` |
| Change streams (`change_stream.py`, `command_cursor.py`, `cursor_base.py`) | resume token, start time, cursor, queue of cursors to kill | `watch`, `try_next`, resume, `close` | which of four sources a resume uses, close from another thread | `ChangeStream`, `LogReader` |
| Find cursors, GridFS, BSON, wire protocol, authentication, TLS, encryption, options, the asynchronous API | | | | see "Not modelled" |

`PROJECT.json` lists every part, and under `hazards` what can go wrong in it
and at which line.

## Modules

**Pool** is class `Pool` for one server. Every `with self.lock` section is one
step, so the program counter of a thread says which sections it has passed and
what it owes: the section of `_get_conn` that takes a unit of `requests` is
`TakeSlotOrWait`, the one that pops, connects or waits is `PopOrConnectOrWait`,
and so on down to `ReleaseSlot` at the end of `checkin`. Code between two
sections that touches nothing shared is folded into the next one, but reads of
shared state without the lock (`closed` in `checkin`, the generation read by
`remove_stale_sockets`) are steps of their own. `size_cond` and
`_max_connecting_cond` share the pool's lock, so each is the set of its waiters;
a waiter that is out of the set has been notified. Connections are records of a
generation, a service and whether a clear cancelled them. `Maint` is the
background thread. Two threads that connect at once, pins, per-service
generations behind a load balancer, and failure of the connect or of the
handshake are all there. `KeyboardInterrupt` may come in the `try` block of
`_get_conn` (`InterruptedSlot`, `InterruptedAcquire`; in `connect` it is one
more failure) and, if `WaitInterrupts` is TRUE, in either wait
(`InterruptedWait`). Not there: an interrupt between a counter and the `try`
that gives it back (observations), the fork path of `_reset`, connection ids
and events.

**TopologyDescription** has the pure functions of `topology_description.py` and
`server_description.py` on records: `updated_topology_description` and its
helpers keep their names. A description is a record; a dict that the code
mutates in place is a function that the operator returns. The values that only
feed error messages or logs are left out.

**Sdam** is the abstract specification: a state machine whose one variable,
apart from open or closed, is the description, and whose steps are the replies
and errors that may come in any order.

**Topology** is the class with its lock: table of servers, monitors, an
operation as seen by `handle_error`, SRV polling and close. A host that leaves
and comes back gets a new `Server`, so a `Server` is a pair of host and number;
the monitor of an old one can still deliver a reply. The pool is reduced to its
state and generation. What happens outside the lock is a step of its own: the
reset after a failed heartbeat, reading the generation for the error handler
and for a new connection, the last assignment of `close`. `Topology` implements
`Sdam` (`RefinesSdam`; the mapping only turns the four states into open and
closed).

**Monitor** has the threads that watch one server: a `PeriodicExecutor` for the
`Monitor` and one for its `_RttMonitor`. The executors' flags are read and
written one at a time, as the code does without a lock; `open` holds the
executor's lock while it waits for a thread that is about to exit. A check is
the sequence of `_run`: connect or reuse, a hello or the next reply of a
stream, publish. The topology closes a monitor from outside, or from the
monitor's own thread when a reply removes the server; `cancel_check` comes
between any two steps.

**ServerSelection** has the selectors and read preferences as operators (tag
sets, max staleness, latency window), `apply_selector` with its fast path for
primaries and its filter of candidates, the loop of `select_servers` that waits
for a changed description, and the read half of `_ClientConnectionRetryable`.
A description is shared and immutable except for its candidates, which every
selection leaves as it filtered them; a thread remembers `Server` objects, not
addresses, as deprioritized. An address that comes back has a new `Server`, and
`gone` keeps what the earlier ones were when they left. The topology changes to
any of the descriptions that the constants give.

**Session** has client sessions, the pool of server sessions, `with_transaction`
and the write half of `_ClientConnectionRetryable`. An attempt is: selecting and
connecting, or failing to; sending; and then the reply, a refusal or a broken
connection. A broken connection leaves it open whether the server executed the
command. The server is external: it executes a numbered write once, and refuses
with the labels of `Refusals`; a command refused for overload was not executed.
Error labels are fields of an error: `conn` (a `ConnectionFailure`), `rw`
(`RetryableWriteError`), `over` (`SystemOverloadedError` with
`RetryableError`), `nwp` (`NoWritesPerformed`). The application gives up a
transaction in which a command failed, as the labels tell it to. Field `hist`
of a session and `msg`, `used`, `applied`, `raised`, `reported` are history; no
guard but those of the bounds and of the application's own discipline reads
them.

**Bulk** has the operators that a bulk write is made of: the runs of an ordered
and an unordered one and of the client's, the next batch, what a reply does to
the offset and to the result. `Session` holds their value in the operation that
is running, so every attempt finds it as the last one left it. `Collection` and
`MongoClient` bulk writes share them.

**ChangeStream** has the stream, the `CommandCursor` below it, the server's
log and cursors, the implicit sessions of the cursors and the client's queue of
cursors to kill. A batch is the part of the log it was read from. One thread
reads; `close` comes from it or from another thread in the middle of a call. A
cursor is closed in the steps of the code, which holds no lock over them: it
counts as killed (`Prepare`), `killCursors` is sent by whoever came first
(`KillCursor`), the session is found and returned (`EndSession`), and it is
forgotten (`ClearSession`); both threads may be at it for the same cursor.
Network errors, lost cursors, client side timeouts and fatal errors may answer
every command. **LogReader** says what a stream promises: every matching entry
once, in order, where `yielded` is all that the application was given, so that a
second delivery is no stutter; `ChangeStream` implements it (`ReadsTheLog`).

**MCPool**, **MCSdam**, **MCTopology**, **MCServerSelection**, **MCSession**
define the replies, descriptions, requests, symmetry sets and seed lists that
the `.cfg` files name. No configuration replaces a definition of a
specification.

**PoolProofs**, **TopologyDescriptionProofs**, **SdamProofs**,
**TopologyProofs**, **BulkProofs**, **SessionProofs**, **TransactionProofs**
and **ChangeStreamProofs** hold the theorems.

## Runs

State counts are TLC's distinct states. Each run is checked completely.

| Run | Instance | What it shows |
|---|---|---|
| `pool_safety` | 3 threads, 2 connections, 1 kept open, timeouts, one clear or close; 548 thousand states | `maxPoolSize` and `maxConnecting` hold with the background thread (`PoolSizeBound`, `ConnectingBound`); the idle list holds only usable connections (`PooledUsable`); no `size_cond` notify is lost (`SizeWakeup`) |
| `pool_balanced` | 3 threads, one service, pins, no background thread; 3.2 million states | No notify of `_max_connecting_cond` is lost (`ConnWakeup`) |
| `pool_liveness` | 2 threads and the background thread, 2 connections, waits that may be interrupted; 119 thousand states | The semaphores are exact after errors, timeouts and interrupts of the waits and the `try` block (`CountersExact`); every checkout ends with a connection or an error (`CheckoutEnds`) |
| `sdam_discover` | 3 hosts, 2 set names, 3 set versions and elections, any reply from any host; 9.9 thousand states | One primary (`OnePrimary`); type and primary agree (`PrimaryTyped`); no foreign server or set (`Membership`); SRV polling respects `srvMaxHosts` (`SrvHostsBound`); the primary is the newest and elections never go back (`ElectionsForward`), nor do topology versions (`TopologyVersionsForward`) |
| `topology` | 2 hosts, a primary that drops and re-adds the other, SRV polls, errors, close; 1.07 million states | `_servers` follows the description (`Synced`); removed servers stay shut (`NoOrphans`); a pool is ready before its server is selectable (`FirstPoolReady`); refinement of `Sdam` (`RefinesSdam`) |
| `topology_recovers` | as above, one failure; 27 thousand states | A cleared pool becomes usable again (`Recovers`) |
| `monitors` | one monitor with its `_RttMonitor`, opened, woken, cancelled and closed; 165 thousand states | One thread per executor (`OneThread`); a known server has a round trip time (`RttKnown`); nothing more is read from a cancelled connection (`CancelHeard`); no socket of the `_RttMonitor` stays open (`RttSocketClosed`); the threads of a closed monitor end (`ThreadsEnd`); a requested check begins (`WakeHeard`) |
| `selection` | one read at a time on up to 3 members or 2 mongos, 6 preferences, 5 changes of the topology; 369 thousand states | The server returned suits the preference, whatever candidates were left behind (`SelectionSound`); one that failed comes last (`DeprioritizedLast`); no thread sleeps while a server would do (`NoMissedServer`), but for the case in the observations |
| `sessions` | 2 sessions, 3 server sessions, 2 writes, a timeout, a fork; 628 thousand states | Server sessions are exclusive and clean (`Exclusive`, `PoolClean`); numbers are not reused (`NumberUnique`) |
| `transactions` | 1 session, 2 mongos, 2 operations out of writes and bulk writes, with retries and without, transactions and `with_transaction`; 1.27 million states | No write is applied twice (`AtMostOnce`); no error hides a write (`HonestError`); the result of a bulk write is true and an ordered one leaves no gap (`BulkExact`); `startTransaction` is sent until the transaction exists and not after (`StartExact`); `with_transaction` commits at most once (`CommittedOnce`) and returns with its transaction finished (`CallCompleted`) |
| `bulk_skips` | 1 session, a bulk write of two runs | Violation: see the finding |
| `change_stream` | a log of 2 entries, 2 cursors, 2 errors; 1.10 million states | The token is exact (`TokenExact`); no session is left behind, however two threads close a cursor (`OneSession`); the stream yields the log in order and once (`ReadsTheLog`); an application that goes on reading gets every event (`EventRead`) |

### Bounds

One clear, three threads and two connections are enough for a thread to sleep
while another is notified, a third times out, and the pool is cleared in
between; a notify can only be lost between two waiters. `MaxOps` of the pool
bounds `operation_count`, which the code lets grow (observations), and
with it the checkouts that fail; `MaxDeaths` the idle connections found dead, and
`MaxDrift` how far the pin counters fall below zero (observations).

Three hosts let a deposed primary, the new one and a host that is in neither
list coexist. Two `Server`s per host are an old and a new one. `MaxFailures` and
`MaxOps` of `Topology` bound how many errors and operations happen; every error
is judged by generation and version, not by count.

A selection is one step under the topology's lock; what it leaves for others
is the filtered candidates, and one thread that reads again meets those of its
own last read. So `selection` has one thread, and spends its states on
descriptions: five changes let the topology be discovered, lose a host and get
it back twice while a retry remembers an old `Server`.

In `Session`, `MaxAdaptive` = 2 is one more than the ordinary retry, so the two
limits differ; two operations of two sessions share a server session in every
order. `MaxRetries` bounds the attempts of an operation with a client side
timeout, which the code does not. `MaxBatch` = 1 makes every operation of a run
a command of its own, and requests of two or three runs let a retry fall in a
first, a middle and a last one. `MaxLsids`, `MaxCommits`, `MaxExpired` and
`MaxForks` bound server sessions, commits of one transaction, timeouts of server
sessions and forks.

In `ChangeStream`, two entries are one that was read and one that was not, or a
change and the drop behind it. `NumCursors` = 2 are the cursor of the stream
and an earlier one that waits to be killed; ids are used again. Two errors are
one that makes the stream resume and one in the middle of the resume.

Symmetry is used only in runs of invariants, over threads and over sessions,
which no definition tells apart. Deadlock is checked in the pool's runs and in
`selection`. In the others it is not: they stop where bounds are exhausted and
everything is closed.

### Fairness

- `pool_liveness`: weak fairness of the steps of a checkout, of the use of a
  connection and of the background thread, because threads are scheduled,
  operations end and connecting has a timeout; strong fairness of the two
  timeouts, because the deadline is absolute and once it has passed every wait
  returns at once.
- `topology_recovers`: weak fairness of each monitor, a thread that runs until
  it is stopped and whose checks end; failures are finite (`MaxFailures`), so it
  shows recovery after the last failure.
- `monitors`: weak fairness of both threads and of a call of the topology that
  has begun; strong fairness of the steps that need the topology's lock, because
  a thread that keeps asking for a lock gets it. The end of a sleep is not
  counted on, so `WakeHeard` does not rest on the heartbeat interval.
- `change_stream`: weak fairness of the reading thread, of a close that has
  begun and of the client's periodic task that kills cursors. That the
  application goes on reading is the premise of `EventRead`; errors are finite
  (`MaxFails`). The log stops growing at `MaxLog`, so that again and again all
  of it has been read says that every event is.

Nothing else is assumed of applications.

## Finding

`bulk_skips`: when the first attempt of `Collection.bulk_write` fails before
`_execute_command` is entered, for example because no connection can be made,
the retry enters it with `retrying` set and no current run (`bulk.py` l. 362). It
takes the first run, does not fetch the next one, and ends after the first run:
the later runs are never sent, and the result reports success. The docstring
says "all operations will be attempted" (`collection.py` l. 742). `BulkExact`
holds all the same: what is reported is what was done. `MongoClient.bulk_write`
has no runs and does not do this.

### Observations without a run

Places where the code and its comments, or two parts of the code, do not quite
agree, met while modelling. The models do what the code does.

Pool:
- An interrupted wait does not pass its notify on, as one that times out does
  (`pool.py` l. 1228, 1252): with `WaitInterrupts` `SizeWakeup` and `ConnWakeup`
  do not hold. The sleeper is woken by the next notify or by its timeout.
- An interrupt that comes after `requests` or `_pending` was incremented and
  before the `try` that gives it back is entered (l. 1235 to 1241, l. 1264 to
  1270) loses that unit for good. It is not modelled.
- `operation_count` is not corrected when a checkout fails (`pool.py` l. 1214
  against l. 741).
- A connection pinned in a block that raises is not counted in `ntxns` or
  `ncursors`, but `checkin` decrements them (l. 1130, 1147).
- With the background thread running, `ConnWakeup` does not hold: one notify
  (l. 956) can stand for an idle connection and for a place to connect. The
  sleeper is woken by the next checkin or by its timeout.
- A clear that interrupts misses a connection that was popped and is not yet in
  `active_contexts` (l. 1127); it is found stale when it is checked in.

Topology and selection:
- `handle_error` on a closed topology can raise `KeyError` (`topology.py` l. 496
  against l. 491).
- A late reset by address (`topology.py` l. 576) may clear the pool of a host's
  new `Server`; `FirstPoolReady` is stated for hosts that never left, and
  `Recovers` shows that the pool comes back.
- From wire version 17 on a newer election may come with a lower set version,
  and the description takes both (`topology_description.py` l. 625), although
  `max_set_version` says "Greatest setVersion seen from a primary, or None."
  (l. 213). `ElectionsForward` compares the pair, as the code does, and only for
  servers of version 17 and later; the order of older servers is not checked.
- A deprioritized `Server` that has left the description makes the fast path
  for the primary answer with nothing, or with a server that is not the primary
  (`topology_description.py` l. 350). When its address has come back as the
  primary, the address is filtered out, the old description is no primary's, and
  the read sleeps once, although the primary is there, before the loop forgets
  the old `Server`: `NoMissedServer` leaves that case out (`Outlived`). The candidates one selection leaves in the
  description can make `get_primary` fail on an empty list (`topology.py` l. 638
  against l. 631, 800). Deprioritization is forgotten after a wait, and maximum
  staleness uses the estimate for sets without a primary when the primary is
  deprioritized.
- A monitor closed between `_should_stop` and its checkout leaves its new
  connection open (`monitor.py` l. 202, 204); the round trip monitor handles
  this (l. 494).

Sessions:
- An abort or commit that is refused for overload before any command of the
  transaction succeeded is sent again with `startTransaction`
  (`mongo_client.py` l. 2920, `client_session.py` l. 1131).
- A commit whose reply was lost and whose retry is refused for overload is then
  sent without the majority write concern (`mongo_client.py` l. 2921 against
  `client_session.py` l. 963), and if the overload persists the error has no
  `UnknownTransactionCommitResult` label.
- Overload unpins a transaction that is running (`mongo_client.py` l. 2898
  against `client_session.py` l. 1059).
- `NoWritesPerformed` on the error of a bulk write speaks of the command that
  failed, not of the commands before it; `HonestError` says so.
- `_clear_stale` says the remaining sessions have not timed out either; a
  session returned long after its last use sits on the left and may have. It
  does no harm, `get_server_session` tests what it takes.

Change streams:
- A resume that is started before the `try` leaves the stream alive after a
  fatal error (`change_stream.py` l. 373 against l. 386).
- A change that cannot be decoded after its token was cached is not delivered
  again (docstring, l. 280).
- Two threads that close the same cursor may both find its session in
  `_end_implicit_session` and both return it (`client_session.py` l. 590 to 592);
  the pool of server sessions then has it twice. The model reaches that state
  (both threads at step "clear"); `OneSession` says only that no cursor keeps its
  session.
- A close that races a `getMore` may be followed by a new cursor; a closed
  stream's `try_next` still returns buffered changes; and a first batch that
  ends with a hidden `invalidate` leaves a stream that is alive and fails.

## Proofs

The theorems hold for every value of the constants that satisfies the named
assumptions (`PoolAssumption`, `NoConnAssumption`, `TDAssumption`,
`SdamAssumption`, `TopologyAssumption`, `BulkAssumption`, `SessionAssumption`,
`BoundsAreNumbers`): any number of threads, services, hosts, set names and
sessions, any options, logs and bulk writes. TLC evaluates the assumptions in
every run. Each theorem about behaviours rests on an inductive invariant, one
lemma or step for each action that keeps it, and a last temporal step.

**Pool, types** (`TypeCorrect`). `TypeOK` is not inductive: a step that puts a
connection in the idle list needs to know that the thread has one. `TypeInv`
adds `Holding`: at the program counters where a connection is used it is not
`NoConn`. Every step of one actor is an instance of `MovedType`.

**Pool, counters** (`CountersCorrect`, `PoolSizeCorrect`, `ConnectingCorrect`).
`SizeInv` has `CountersExact`, the bounds on `requests` and `pending` that the
guards enforce, the program counters at which an actor may hold a connection,
and that idle connections and the actors that own a connection, or the right to
create one, are together at most `maxPoolSize`. `PoolSizeBound` alone is not
inductive: a checkout creates a connection because it has a slot and the idle
list is empty, the background thread because it counted idle and active ones.
`Owns` says which units each program counter stands for; `CountMove` what moving
one actor does to the cardinalities; `Sized` is what the two make of one step.

**Pool, idle list** (`PooledUsableCorrect`). A connection is put in the idle
list by a thread or by the background thread, steps after its generation was
read and `closed` was tested. `UsableInv` follows it on the way: no generation
comes from the future, a connection that a clear cancelled after `connect` is
stale (`Carried`), a thread that read `closed` as false before a close holds a
stale connection (`Late`), and the background thread's reference generation is
old as soon as its connection is (`Background`). Behind a load balancer
the generation is that of the service, and a reset of one service drops its own
idle connections only (`DropConnsKeeps`).

**Pool, wakeups** (`SizeWakeupCorrect`, `ConnWakeupCorrect`). `SizeWakeup` is not
inductive: it speaks of threads that sleep, but `notify` may as well pick one
whose wait has timed out and that has not got the lock back. `QueueInv` counts
both, and adds that nobody is in a queue of a pool that is not ready: a reset
empties both queues, and only a checkout that finds the pool ready waits. The
lemmas about `Wakes` say what `notify`, taking a place and giving up do to the
count. Both assume that no wait is interrupted (`WaitInterrupts` is FALSE): only
a timeout passes a notify on. The other theorems on the pool do not.
`ConnWakeupCorrect` also assumes `minPoolSize` 0, as `pool_balanced` does:
the background thread then never gets to connect. With it running the property
does not hold (see the observations).

**Descriptions** (`SdamProofs`). `DescInv` says that the description is well
formed, that there is at most one primary, that the type and the primary agree,
and which servers each type admits. The lemmas follow the code: what
`_update_rs_from_primary` and the other helpers do to the servers, then
`updated_topology_description`, SRV polling and reset, then one case per step.
`OnePrimaryCorrect` is what justifies the loop that resets only the first old
primary it finds. For `ElectionsCorrect` the invariant also says that the
primary's election is the newest one recorded (`Elected`); `VersionsCorrect` is
an action property of the same steps. `SrvHostsCorrect` rests on two facts: a
reply that leaves the topology pollable adds no host (`UpdatedHosts`), and a
poll adds no more hosts than there is room for after it drops those that are
gone. `SdamAssumption` has what the first resolution does: it samples at most
`srvMaxHosts` seeds (`srv_resolver.py` l. 145).

**Topology** (`SyncedCorrect`, `NoOrphansCorrect`, `RefinementCorrect`). The
invariant is `Core` (the table of servers against the description, what is
closed and what is open), `Monitors` (whom a monitor's reply belongs to) and the
types of the operation. It tells a late reply of an old `Server` from one of its
successor, which is why such a reply changes nothing. `RefinementCorrect` shows
that the initial states of `Topology` are initial states of `Sdam` and that
every step is one of `Sdam` or leaves the description alone; it uses the lemmas
on `updated_topology_description` of `TopologyDescriptionProofs`.

**Bulk writes** (`BulkCut`). The runs of a bulk write are not empty and hold
every operation exactly once, in the order of the request if it is ordered. The
three generators sort sets of indexes, and `Sorted` is a function from ranks to
elements, so the heart is that every rank up to the size of a finite set of
numbers is taken (`HasRank`). That is an induction; it is done as a least
counterexample, with `Least` from the well-foundedness of the naturals. The
last part says what a command takes from the operations that are left.
`SessionAssumption` asks of the constants that the first run of each request is
not empty; `BulkCut` shows that this asks nothing of a request.

**Sessions** (`ExclusiveCorrect`, `PoolCleanCorrect`). `PoolInv` is `Types`,
`Made` (server sessions in use or in the pool were made), `Exclusive` and
`PoolClean`. Exclusiveness needs the pool in it: a session that is in the pool
is nobody's.

**Transaction numbers** (`NumberUniqueCorrect`). `NumberInv` keeps, for each
session and the operation it runs, when a number is still owed (`Owes`), that an
operation belongs to the running transaction or none is running (`Belongs`),
and that a number that was used already is the one of the command that will be
sent (`Right`); `Numbered` says that no number above the current one of a server
session was ever used. A server session changes hands with all of that, which
is where `PoolInv` comes in.

**Transactions** (`StartExactCorrect`, `CommittedOnceCorrect`,
`CallCompletedCorrect`). `TransactionInv` says of each session that it knows
whether the server has begun its transaction (`Starts`), that the next command
will say so (`At`), and where a `with_transaction` call stands (`Stands`): while
the callback runs or an abort is sent nothing of the call is committed, and
while it commits or decides what to do next only the current transaction may
be. The call runs the callback again only after a transient error, and the heart
of the proof is that such an error leaves nothing committed: `commitTransaction`
replaces that label with an unknown result when the server may have executed
it. An attempt, its error and its retry are shown first to leave the session as
it was but for that start flag (`Like`).

**Change streams** (`TypeCorrect`, `TokenCorrect`, `SessionCorrect`,
`ReadsCorrect`). The invariant adds to the types which fields go together
(`Shape`), `OneSession`, what the server still knows (`Known`), and where the
token, the batch and the reader stand in the log (`Places`). `EffectOfStep` says
in what ways a step can touch cursors and sessions: one dies, one is opened, a
thread goes on closing one, or nothing. For `SessionCorrect` it must be shown
that no thread leaves a cursor while its session is still there, whichever
threads are closing it, and that a close does not begin while an earlier one is
still at work (`Waiting`). `ReadsCorrect` is the refinement of `LogReader`: every step yields
the next entry of the log or nothing, where a yield is seen in `yielded`.

### Only model-checked

- Liveness under fairness (`CheckoutEnds`, `Recovers`, `ThreadsEnd`,
  `WakeHeard`, `EventRead`): out of the prover's reach.
- `FirstPoolReady` of `Topology`.
- `Monitor` and `ServerSelection`. The action properties of selection compare
  operators with reference definitions on the descriptions that the constants
  give.
- `AtMostOnce`, `HonestError` and `BulkExact` of `Session`: their invariants join
  a retry, its number, its bulk write and the server, and are checked by TLC
  only.

## Not modelled

- A callback of `with_transaction` that commits or aborts by itself.
- Find cursors: only what change streams use of `CommandCursor` is modelled, and
  server cursors that nobody kills are not tracked; ids are used again.
- GridFS: one writer numbers chunks and inserts the file document last; its
  concurrency is that of the operations below it.
- BSON and the wire protocol are functions on bytes; options and connection
  strings are constants of the models; events and logs are output.
- Authentication, TLS and encryption end in a connection that works or fails,
  which `Pool` has.
- Of server selection: a timeout of zero, custom selectors, and the unlimited
  retries of reads under a client side timeout.
- Of sessions: servers without sessions, and the connection a transaction pins
  behind a load balancer. After a fork the client gets a new topology; only the
  pool of server sessions is modelled across it.
- Of change streams: the server's operation time is taken as that of the next
  entry; aggregate replies that are lost leave a server cursor behind.
- The asynchronous API is the source of the synchronous one, but its steps end
  at awaits and its tasks can be cancelled; cancellation is covered only where
  it takes the path of another error.
