# Verification of the multi-tier key-value store

TLA+ specifications of the key-value server in this repository: an HTTP server
(`src/main.cpp`) with a pool of MySQL connections (`include/database.h`) and a
sharded LRU cache (`include/cache.h`) in front of the table `key_value`; the HTTP
library it is built on (`include/httplib.h`), on the server's and on the client's
side; and the load generator. The specifications are checked on small instances
with TLC. The safety of the connection pool, the cache down to the statements of a
shard, the request handlers, the thread pool and the server around it, the HTTP
client, the load generator, and of what crosses a connection (the readers of a body and
the parser of a form, whatever they are cut into, the parts of an answer, and the
components of a query string) is proved with TLAPS for every value of the constants.

## The system

| component | source | state | operations | interacts with |
|---|---|---|---|---|
| Request handlers | `src/main.cpp` | locals of a handler: key, value, connection, rows affected | `handle_create` (POST), `handle_read` (GET), `handle_update` (PUT), `handle_delete` (DELETE), `exec_sql` | call pool, MySQL and cache; called by httplib's workers |
| Connection pool | `include/database.h` | queue of idle connections, mutex, condition variable | constructor, `getConnection`, `releaseConnection` | shared by all workers |
| Sharded cache | `include/cache.h` (`ShardedLRUCache`) | vector of shards | `get`, `put`, `remove`, `getShardIndex` | shared by all workers |
| Cache shard | `include/cache.h` (`LRUCacheShard`) | list of pairs, map of iterators, mutex | `get`, `put`, `remove` | one mutex per shard |
| Table | `init_databse.sql` | rows (key_name, value) | INSERT .. ON DUPLICATE KEY, SELECT, UPDATE, DELETE | outlives the server |
| httplib server | `include/httplib.h` (vendored, v0.27.0) | job queue, worker threads, listening socket, one job per connection | accept, keep-alive, read, route, answer, `stop` | runs the handlers; `main` deletes cache and pool when `listen` returns |
| httplib wire format | `include/httplib.h` | the unread part of a connection, read-ahead buffer, parser state | writing and reading of request lines, header sections, bodies, parameters, forms, ranges | between server and client |
| httplib client | `include/httplib.h` (`ClientImpl`) | socket, requests in flight, two mutexes | `send`, connect or reuse, read the answer, `stop` | shared by threads; talks to the server |
| Load generator | `loadgen/load_generator.cpp` | per-thread counters, stop flag | warm-up, closed-loop workloads, report | HTTP client |
| Test client | `test_client/test_client.cpp` | none | interactive commands | HTTP client of other routes (`/kv`, `/stats`) |
| Scripts | `run_load_gen.sh`, `CMakeLists.txt` | none | build and benchmark | |

What is hard in this code:

* Nothing relates the cache to the database but the order of calls in a handler.
  The read's fill and the refresh of an update or a create are separate steps
  from the statement, and the refresh even follows the release of the
  connection, so every pair of requests on one key may interleave badly.
* Errors are swallowed in four different ways: a failed INSERT is still cached and
  answered `Created`, a failed UPDATE becomes 404, a failed DELETE becomes
  `Deleted`, and an exception other than `sql::SQLException` loses a connection.
  The cache itself may throw: a `put` that cannot allocate leaves the old value
  behind a statement that was executed.
* The pool's condition variable must not lose a wakeup although woken threads,
  spuriously woken threads and threads that never waited compete for the queue.
* List and index of a shard hold iterators into each other; one update out of
  order is a dangling iterator or an entry nobody can find.
* MySQL identifies keys by the column's collation, the cache by their bytes.
* A connection that MySQL closed goes back into the queue like any other.
* The thread pool notifies outside its lock, on enqueue and on shutdown, and joins
  its workers before `listen` may return and `main` delete what handlers use.
* One TCP connection carries many messages. Each side finds the end of a message
  from its header section alone, TCP cuts the stream anywhere, the reader keeps what
  it read too much, and either end may stop in the middle, even of a line. A client
  may pause longer than the read time-out, after which the rest of its request is
  taken for the next one; or send a byte now and then, which no time-out ends.
* The client's socket is used without a lock by the thread that sends, while
  another may call `stop`; answers may come after their request was given up.
* The load generator's stop flag is a plain `bool`, and its report is the sum of
  counters that several threads increment.

Correctness, per component:

* pool: no connection is lost or lent twice, no wakeup is lost, blocked threads
  and idle connections do not coexist for ever, nobody blocks needlessly;
* cache: entries sit in the shard of their key, in order of last use, within the
  capacity; only the least recently used entry of a full shard is evicted; to
  its callers the cache is a map that may forget;
* shard: no iterator dangles, list and index agree, each operation is atomic;
* handlers: cache and database agree on every key except after an explicitly
  named conflict or failure; reads that met none answer what the database holds;
  no path answers while it holds a connection; every request is answered;
* thread pool and server: every queued job finds a worker, shutdown finds every
  sleeper, no handler runs after the cache is deleted, each request is answered by
  its own answer and the closing answer is the last, every accepted connection is
  closed, `listen` returns after `stop`;
* wire format: what one side writes is what the other reads, however it is cut up,
  and a body that was cut short is never taken for a whole one;
* client: an answer is the one to the request sent, nothing is executed twice, no
  descriptor is closed while it is read, none is leaked;
* load generator: the report adds up, misses have a cause, the run ends.

## Modules

| module | models | role |
|---|---|---|
| `DBPool` | `include/database.h` | pool, one action per critical section |
| `ShardedLRUCache` | `ShardedLRUCache` of `include/cache.h` | cache, one action per operation |
| `LossyMap` | what the handlers may expect of a cache | abstract specification of `ShardedLRUCache` |
| `LRUHistory` | `ShardedLRUCache` plus history | what least recently used means to an observer |
| `LRUCacheShard` | `LRUCacheShard` of `include/cache.h` | one shard, one action per statement; implements `ShardedLRUCache` |
| `KVServer` | `src/main.cpp` over `DBPool` and `ShardedLRUCache` | the composition (it EXTENDS both) |
| `KVHistory` | `KVServer` plus the past of every row | what the cache may answer |
| `DBPoolRotation` | `DBPool` plus who waits for whom in the queue | what becomes of a dead connection |
| `TaskQueue` | what the server expects of a task queue | abstract specification of `ThreadPool` |
| `ThreadPool` | `httplib::ThreadPool` | one action per critical section and per notification |
| `BodyFraming` | writers and readers of a body | functions on whole streams; the reference for `StreamReader` |
| `HttpRequest` | `Server::process_request`, `routing`, `read_content` | a function from what is on the connection to answer, handler and rest |
| `HttpServer` | `listen`, `stop`, the job of a connection, `main`'s clean-up | composition (EXTENDS `ThreadPool` and `HttpRequest`) |
| `StreamReader` | `SocketStream`, `stream_line_reader` and the loops that read a body | one action per read; EXTENDS `BodyFraming` |
| `UrlEncoding`, `HeaderFields`, `AcceptHeader`, `ByteRanges` | parameters, targets, header sections, `Accept`, `Range` | functions, encoder against decoder |
| `Exchange` | `ClientImpl::write_request` against the server, `Server::write_response_core` against the client | functions, EXTENDS `HttpRequest` |
| `FormDataParser` | the parser of multipart bodies | one action per piece it is fed |
| `HttpClient` | `ClientImpl`: `send_`, `stop`, `close_socket` | one action per critical section and per read or write |
| `LoadGenerator` | `load_generator.cpp` | one action per request, per warm-up POST and per step of `main` |
| `ShardedLRUCacheProofs`, `LRUHistoryProofs`, `LRUCacheShardProofs`, `KVServerProofs`, `HttpServerProofs`, `WireProofs`, `HttpClientProofs`, `LoadGeneratorProofs` | | TLAPS proofs |
| `MCDBPool`, `MCLRUHistory`, `MCLRUCacheShard`, `MCKVServer`, `MCKVHistory`, `MCHttpServer`, `MCWire`, `MCHttpClient`, `MCLoadGenerator` | | constant values and symmetry for TLC |

Definitions named `Mutant...` are broken variants of the definition that follows
them (a dropped guard, an off-by-one, a missing call). No action uses them; they
exist to confirm that the properties notice: with the variant in place of the
original, TLC reports the property violated.

### DBPool

`connections` is the `std::queue`; a connection is the number of its `connect`
call. `waiting` are the threads inside `cv.wait`, `woken` those whose wait
returned but that have not tested the queue again, `held` is the handler's local
`con`. The mutex is not a variable: each action is what one thread does between
acquiring and releasing it. `getConnection` is `Take` or `Wait`; a woken thread
executes `GetConnection` again, as the `while` loop does, and may find the queue
empty because another thread barged in. `SpuriousWakeup` is the standard's
permission for `wait` to return unasked. The constructor skips connects that
throw, so any number of connections up to `PoolSize` may have been opened.
`Abandon` is a handler left by an exception between `getConnection` and
`releaseConnection`; `RestartPool` a new process.

The pool never looks at a connection, so one that MySQL has closed is lent for ever
and every statement on it is rejected. What limits the damage is the queue:
`DBPoolRotation` records for each idle connection which others were idle when it was
returned, and states that it is not lent again before all of those.

### ShardedLRUCache, LossyMap, LRUHistory

A shard is a sequence of key/value records, most recently used first. `Stored` is
`put` (overwrite and splice, or evict the back and push to the front), `Promoted`
a `get` that hits, `Removed` a `remove`. `StoreFailures` are the states in which a
`put` that throws `std::bad_alloc` leaves the shard: unchanged when the value of a
present key cannot be copied; after the eviction, when the node cannot be made; or with
a node in the list that has no index entry, when `cacheMap[key]` cannot be made. Such a
node is an entry whose value is `Absent`: it takes room, no lookup finds it, and when
it reaches the back its eviction erases whatever index entry its key has by then
(`Unindexed`), which may belong to a newer node. `CapPerShard` is the constructor's
integer division with its clamp to one, `Hash` stands for `std::hash` and is any
function to the naturals. `LossyMap` says what callers may rely on: a put is
visible at once with its own value, costs at most one other key and only when the
key is new, a get changes nothing, and a put that throws changes no answer but that of
the key it evicts. `LRUHistory` adds the order of last uses, the set of keys put and
not removed since, and whether a put has thrown.

### LRUCacheShard

List nodes are numbers, `cell` is their content (`Freed` once deallocated),
`cacheMap` the iterator stored for each key, `mtx` the owner of the mutex. Each
statement of `get`, `put` and `remove` that touches shared memory is an action;
the lookup is merged with the acquisition of the mutex, before which nothing is
read. Statements that allocate may throw `std::bad_alloc` (`BadAlloc`), which has
no effect but ends the operation and unlocks; if it hits `cacheMap[key] = ...`,
the node just pushed remains in the list without an index entry. `published` is
the list as the last unlock left it; it is what `ShardedLRUCache`'s single shard
maps to, until the first failed allocation, after which it stands still.

### KVServer

A worker thread runs one handler at a time. `pc` names the next call that touches
shared state:

```
GET     probe -> respond                                  (hit)
        probe -> acquire -> sql -> fill -> release -> respond
        probe -> acquire -> sql -> release -> respond     (no row, or the statement failed)
POST    acquire -> sql -> release -> refresh -> respond
PUT     acquire -> sql -> release -> refresh -> respond   (rows affected)
        acquire -> sql -> release -> respond              (none)
DELETE  acquire -> sql -> release -> invalidate -> respond
```

A statement is one step, since MySQL executes it atomically (autocommit). Its
outcomes are `Executions`: executed; rejected with an `sql::SQLException`; applied
but answered with an `sql::SQLException` (`reply_lost`); ended by another exception
(`unwound`), after which the handler leaves without releasing its connection
(`unwind`), except in `handle_delete`, whose `catch (...)` takes everything. An
INSERT of the empty value always fails, because `exec_sql` binds its second
parameter only for a non-empty value. Four more actions are exceptions after the
statement, each answered 500 by `process_request`: `FillFails` and `RefreshFails`, a
`cache->put` that throws (`src/main.cpp:72`, and `:39` and `:115`, where the connection is
back already); `ReleaseFails`, a failing `connections.push`, or a read that cannot make
up its answer while it holds the connection; `ComposeFails`, an answer that cannot be
made up once all else is done. `Row` maps keys to the primary key MySQL
stores them under; two keys with the same row are keys the collation identifies.
`MatchedRows` selects between the two ways MySQL counts the rows of an UPDATE.
`Restart` kills the process at any moment; the table survives.

Two ghosts describe when trouble is excused. Two requests *conflict* when they
overlap on a row and one of them writes, or one of them has met a conflict before.
`solo` holds the requests that met none. `suspect` holds the keys on which cache
and database may differ: a conflict adds the row's keys, a failure that leaves one
of the two behind adds its key, a write adds the other keys of its row; a request
that met no conflict, brought the two in line and leaves no other request on its
row removes its key again. A write whose put or release throws leaves the cache behind
the row and adds its key (`Outdate`). So `CoherentUnlessSuspect` says that evictions, other
rows, reads alongside reads, releases, waiting, leaks and restarts never make
the cache wrong, and that each incoherence ends with the next undisturbed request
that writes the key or misses it.

The transitive part of *conflict* is needed: a read that was overtaken by a delete
and has not filled the cache yet spoils a second read that starts after the
delete ended, misses, and is passed by the first one's fill.

### ThreadPool, TaskQueue, HttpServer

`jobs`, `shutdown`, `limit` are the pool's members. A worker is at `test` when it holds
or wants `mutex_` to evaluate the predicate of `cond_.wait`, then `waiting`, `running`
its job `fn`, or `gone`. `caller` is the one thread that enqueues and shuts down; its
notification is a step of its own, since both `enqueue` and `shutdown` notify after
dropping the lock. `TaskQueue` is the promise: jobs start in order, once, at most as many
at a time as there are workers, and one is started whenever there is room.

In `HttpServer` the job of a connection is `FirstPoll`, `Poll`, `ReadRequest`, `Handle`,
`WriteAnswer`, again from `FirstPoll` or `CloseSocket`: `process_server_socket_core`
with its keep-alive count `left`, whose first `select` does not look at `svr_sock_` and
whose later ones do. A client writes its next request when it likes, be the last one
answered or not (`Send`), what it writes arrives in pieces (`Transmit`), and it may leave
within a request (`Leave`). `ReadRequest` is what `process_request` makes of what has
arrived, in `HttpRequest`'s `Process`, which makes the checks of the code in its order and
says what is left on the connection; any prefix of that may be lost with it, because the
next request gets a new `SocketStream`. While what has arrived is not a whole request
(`StillReading`) the code waits in a read; the model lets that end when the client's end
is gone, or when the client has been "silent" for the time-out of one read (`Endings`).
After such a time-out the connection may stay open, and the rest of the request arrives
as `Garbage` before the next one. Bytes of a body that do not complete anything
(`Drip`) set `heard`, and the read that finds them only begins the next one (`ReadOn`):
since each read has its own time-out and nothing limits how many there are, such a client
keeps its worker as long as it likes. The ghost `orderly` records that a client waited for
each answer before it sent the next request and let no time-out pass within one.
A request is `Plain` when nothing about it makes `process_request` refuse it before its
body is read and the end of its body is what its header section says; the clients of
this repository send no others. That no request is answered twice or after a later one,
`AnswersMatchRequests` says of all requests; that the n-th answer is the one to the n-th
request, of connections that are orderly and carry plain requests only. `ClosingAnswerIsLast` holds of all requests, with the one exception that
the code makes: 400 for a bad header line and 414 for a long target are sent before
`connection_closed` is computed, so the answer says close and the connection goes on.
`Stop` and `StopCloses` are the two halves of `stop`, between which the descriptor is
still open. `Cleanup` is `delete cache; delete dbPool`.

What a handler does to cache and database is `KVServer`'s; here it runs and returns 200
or 500. The two meet in the rules that `KVServer` relies on: a worker runs one handler
at a time, an exception that escapes ends in an answer, and the state it uses outlives it
(`HandlersUseLiveState`).

### BodyFraming, StreamReader and the formats

The wire is a sequence of units: a byte of a body, or a line of framing.
`BodyFraming` has the writers and, as functions of the whole stream, the readers, with
the limits on a line (`LineMax`), on a trailer field (`FieldMax`) and on the number of
declared trailer fields (`FieldsMax`; undeclared ones are not counted).
`StreamReader` is what really runs: `SocketStream::read` over a `recv` that returns any
non-empty piece, the read-ahead for small reads, a peer that closes or falls silent at
any unit, and the loops with their return values. A `recv` that ends within a line is no
different from one that ends before it, since `getline` asks byte by byte and goes on. But
a connection that ends within one makes `getline` return what it has as a line: `Torn`
lists what a reader may take it for, a smaller chunk size (the leading digits, to the base
`Radix`), a shorter trailer field, or a line of one CR. The functions are the reference it
is checked against, for connections that end between two lines; that a body is not taken
for whole when it is not is checked of all. A chunked body is any cut of it (`Cuts`),
given by where its pieces end (`Ends`). `HttpServer` uses the functions, so there a line
comes whole or not at all: a last line of which only the CR came before the client closed
makes a 400 in the code and a 200 in the model, sent to a client that has gone.

`Exchange` closes the circle between the two sides: the calls the client's API
offers, the fields `write_request` adds for each, what `Process` makes of the result;
the fields of an answer and what `ClientImpl::process_request` makes of those. Fields
are a multimap, as in the code: `set_header` adds, and only `has_header` keeps a field
from being there twice.

`UrlEncoding`, `HeaderFields`, `ByteRanges` work on bytes, `AcceptHeader` on what stands
between two commas, with the quality in quarters. `FormDataParser` is fed the body in
arbitrary pieces; `held` is what it could not decide yet. The length of each item's
header line (`lines`) and the number of items are measured against the parser's limits,
at the moments the code does so, and a form beyond them is `refused`.

### HttpClient

`object` groups the members of `ClientImpl`: the socket, the requests in flight, the
thread they are from, the flag `socket_should_be_closed_when_request_is_done_`. `send`
is `Send` (takes `request_mutex_`), `Reuse`, `Connect` or `ConnectFails` (one block under
`socket_mutex_`), `Write`, `ReadResponseLine`, `ReadContent` or `Fail` without a lock,
and `Finish`, its `scope_exit`. `Stop` may come from any thread at any moment.
`CreateSocket` is the loop over the addresses a name resolves to. A connection is two
queues; the server executes requests in order, answers once, late, in part or not at
all, and closes when it likes. That it answers in order is what `AnswersMatchRequests`
shows of `HttpServer`.

### LoadGenerator

`next` is the warm-up thread's loop variable, `at` where a worker is, `counted` the
atomic counters, `local_max` the upper end of a worker's own history (which grows even
if the POST failed). The server is a set of stored keys with answers that may be errors.
`running` is a plain `bool`: the model lets a worker go on after it was cleared for as
long as it likes, up to the bound on requests. `blameless` records that no failure and
no deletion could excuse a 404.

## Runs

| run | instance | shows |
|---|---|---|
| `pool` | 4 threads, 4 connections (the shipped numbers), any may fail to open | conservation, exclusiveness, no lost wakeup, no needless waiting, rotation of dead connections |
| `lru` | 2 shards of 2 entries, 4 keys, 3 of them in one shard, puts that throw | home shards, recency order, eviction only when crowded out, refinement of `LossyMap` |
| `shard` | 2 threads, 3 keys, 2 values, capacity 2, failing allocations | list and index agree, a full shard evicts in time, every operation atomic (refinement of `ShardedLRUCache`) |
| `server` | 2 workers, up to 2 connections, 2 keys sharing a row, 2 values, 1 cache entry, all failures and restarts | coherence, currency of undisturbed reads, connections held only around statements, nothing invented |
| `server_live` | 2 workers, up to 2 connections, 1 key, all failures and restarts, fair | every request is answered while there is a connection for each worker, some request while there is any |
| `http` | 2 workers, 2 connections, queue limit none or 1, keep-alive limit 2; on one connection two requests, updates or creates that close and whose encoding is refused, each in any pieces, at any pace, pipelined or not | the six invariants of `HttpServer` and `ThreadPool` |
| `http_live` | 2 workers, 2 connections, one of which sends an update, at any pace, the other nothing, fair | refinement of `TaskQueue`, connections closed, `listen` returns |
| `wire` | bodies of up to 5 units against a limit of 4, trailers at and beyond each limit, all cuts of every stream, between lines and within; multipart bodies of one to three parts against a limit of two, header lines at and beyond theirs; every codec on all short inputs over the bytes that matter to it; all calls of the client's API | readers agree with the framing, success means whole, forms, encodings, requests, answers and ranges arrive |
| `client` | 2 threads, 4 requests, 4 sockets, 2 addresses, keep-alive on and off | answers, executions, descriptors |
| `loadgen` | 1 or 2 threads, 2 of them warming up, ranges of 2, 3 and 1 keys, 2 requests each | the report, its misses, its end |
| `server_delete` | expected violation | see Findings |
| `server_empty` | expected violation | see Findings |

**Bounds.** Shared state is symmetric in threads and values, so two requests are
enough for every pairwise conflict; the proofs cover more of them. One
cache entry makes two keys evict each other at every fill. Two values tell an old
value from a new one; a third plays no other role. The pool sizes include zero and
one opened connection, as the constructor may skip connects. `KVServer` bounds no
counter: `leaked` is bounded by the connections opened. In `LRUCacheShard` there is
one list node more than a correct list needs, so that a list that outgrows its
capacity is seen.

Two workers of the thread pool are enough for one to barge in before another that was
notified; two connections for one to wait behind another. The keep-alive limit of 2
makes one connection reach it. Two requests are enough for one to be taken for part of
the other; that the unread rest of a third is no different is proved
(`ServerAnswersInOrder` has no bound on requests or connections). In `wire` the bounds sit just above each limit: a body of
5 against 4, a read-ahead of 3, a receive buffer of 4, fields of 9 bytes, 3 fields, 4
ranges, forms of 3; lines of up to 5 against a limit of 4, trailer fields against limits of
3 and of one declared, a `Radix` of 2 so that a size of 5 has three digits. `HttpClient` bounds sends and sockets: four sends are two per
thread, so that a late answer has a later request to be mistaken for, and four sockets
are two addresses twice. `LoadGenerator` bounds a worker's requests, and the range of 3
keys does not divide by 2 threads.

**Fairness.** Weak fairness of each worker's own steps: the operating system
eventually runs a runnable thread and MySQL eventually answers. Requests need not
arrive, spurious wakeups need not happen, and `notify_one` may choose any waiter.
No fairness is assumed between threads that compete for a connection, and with
fewer connections than workers one request can indeed starve while others are
served: the standard gives a woken thread no claim to the connection it was woken
for. Only `SomebodyAnswered` is claimed there. Failures, leaks and restarts are not
fair; the two properties hold through them, since each says what is left of the pool.

`HttpServer`: weak fairness of the listening thread's own steps, of each worker, and of
the second half of `stop`. No client need ever connect, send or leave, and `stop` need
not be called. That suffices because every single wait for a client has a time-out (`Poll`
closes, `ReadRequest` ends) and the keep-alive limit bounds their number, with one
exception: the reads of one body are not bounded in number, and a client that keeps on
dripping bytes keeps its worker. So `AcceptedIsClosed` is about the other connections
as long as one worker is left for them (at most one client less than there are workers
drips without end), and `StopReturns` holds when no client does. `LoadGenerator`: weak fairness of the
requests of the warm-up and of `main`, and strong fairness of a worker's leaving: the
cleared flag, a data race by the letter, reaches each worker in the end.

## Findings

* `server_delete` (`src/main.cpp:72`): a GET misses and reads the row, a DELETE runs
  completely, the GET then fills the cache. The deleted pair is served from then on,
  until it is evicted. `Readme.md:49` wants to "prevent inconsistent data".
* `server_empty` (`src/main.cpp:17`): POST with an empty value cannot execute its
  INSERT, yet the pair is cached and the answer is `Created`. `Readme.md:46` says it
  is stored in both places.
Disagreements seen while modelling, without a run of their own:

* handlers: two PUTs reach MySQL in one order and the cache in the other, which leaves
  the older value in the cache (`src/main.cpp:115`; `Readme.md:47` calls the updates
  simultaneous). A PUT whose statement throws is answered 404 although the key exists
  (`src/main.cpp:107`, against line 118), and with MySQL's default count of changed rows
  so is a PUT of the value already stored. With the default collation two spellings of a
  key are one row and two cache entries (`init_databse.sql:11`). A DELETE whose statement
  throws is answered `Deleted` (`Readme.md:58` speaks of an error). `CoherentUnlessSuspect`
  names these as the excuses for an incoherent cache.
* pool and cache: a connect that fails leaves the pool smaller than the thread pool
  (`include/constants.h:23`); a total capacity below the number of shards is exceeded
  (`include/constants.h:19`); the `stats` endpoint of `Readme.md:50` does not exist.
* start and stop: `main` never calls `stop`, so the clean-up is reached only when
  `accept` fails. An `accept` error other than `EMFILE`, `EINTR`, `EAGAIN` ends the server
  and leaves the number of a closed descriptor in `svr_sock_`.
* requests: one that is refused before its body is read (unsupported encoding, bad
  `Accept` or `Range`), or answered 400 because its body stalled for the read time-out,
  leaves the rest of the body to an open connection, where it is taken for the next
  request; the second part of `AnswersMatchRequests` is about the requests this
  repository's clients send, and without such a pause. A trailer line that is too long to
  be read is taken for the end of the message and what is left of it for the next one. A
  connection that ends after the digits of a chunk's size leaves a smaller size. A target that is too long makes the server read a second header section. An
  HTTP/1.0 client is told `Keep-Alive` and disconnected. What the stream had read ahead
  is lost between two requests. `q=nan` passes the range test of `Accept` and leaves the
  sort without an order; a blank entry is skipped where `,,` is refused.
* answers: content a handler set before it threw is sent without `Content-Length`, and
  content under status 204 or 304 is written but not read. No handler here does either.
* header values are percent-decoded by the reader, except `Location` and `Referer`.
* client: the destructor's "Wait until all the requests in flight are handled"
  (`include/httplib.h:8625`) waits for ten milliseconds at most.
* load generator: `load_generator.cpp:62` announces pre-filled keys per thread, but at
  most eight threads warm up (`:216`), so in the mixed workload the histories of the
  others are missing; `run_load_gen.sh` warms up with a single thread and passes
  `--no-warmup` afterwards.
* test client: it speaks to `/kv`, `/kv/<key>` and `/stats` and sends a parameter
  `value`; the server has `/api/data` with `key` and `val`.

## Proofs

All theorems hold for every value of the constants that satisfies the assumptions
named in the modules, which TLC evaluates in every run:

* `PoolAssumption`: finitely many threads, a natural number of connections;
* `CacheAssumption`: at least one shard, a hash for every key, `Absent` is no value;
* `ShardAssumption`: a capacity of at least one (what the constructor of the sharded
  cache clamps it to), `Nobody` is no thread, `Absent` no value;
* `ServerAssumption` of `KVServer`: routes and failures from the known ones, a row for
  every key;
* `ThreadPoolAssumption`: finitely many workers, at least one;
* `ServerAssumption` of `HttpServer`: what a client may send are requests, and the
  keep-alive limit is at least one; `FormAssumption`, `PayloadAssumption`: the limits
  are natural numbers;
* `LinesAssumption`: the limits on lines and trailer fields are natural numbers, and a
  field's limit is not above a line's; `RadixAssumption`: digits are to a base above one;
* `BufferAssumption`, `SequencesAssumption`: buffers of at least one unit; bodies,
  trailers and what follows them on the connection are sequences; `SizesAssumption`: a
  chunk's size line among what follows carries a natural number (what the code makes of a
  line that is none is not modelled);
* `FormsAssumption`: a form has an item, and no content contains the boundary, which the
  client draws at random and cannot check; `FormLimitsAssumption`: header lines are not
  empty, and the parser's limits are natural numbers;
* `RangesAssumption`: positions in a `Range` header are natural numbers or missing, which
  is its grammar;
* `ClientAssumption`: natural bounds, `Nobody` is no thread;
* `LoadAssumption`: at least one thread, ranges of at least one key.

| module | theorems | run with the same property |
|---|---|---|
| `KVServerProofs` (the pool) | `PoolTypeCorrect`, `PoolConserves`, `PoolLendsExclusively`, `PoolWaitsOnlyWhenShort`, `PoolLosesNoWakeup`, `DeadConnectionsWait` | `pool` |
| `ShardedLRUCacheProofs` | `CacheTypeCorrect`, `ShardsStayWellFormed` | `lru` |
| `LRUHistoryProofs` | `CacheImplementsLossyMap`, `ListIsOrderedByUse`, `OnlyCrowdedEntriesAreLost` | `lru` |
| `LRUCacheShardProofs` | `ShardKeepsCapacity`, `ListAndIndexStayInStep`, `GetsAnswerPublished`, `ShardIsAtomic` | `shard` |
| `KVServerProofs` (the handlers) | `KVTypeCorrect`, `KVUsesPool`, `KVHoldsOnlyForQuery`, `KVCoherent`, `KVSoloReadIsCurrent`, `KVInventsNothing` | `server` |
| `HttpServerProofs` (the thread pool) | `ThreadPoolTypeCorrect`, `ShutdownWakesEverybody`, `ShutdownDrains`, `QueuedJobsAreTaken` | `http` |
| `HttpServerProofs` (the server) | `ServerUsesPool`, `ServerQueuedJobsAreTaken`, `ServerShutdownWakes`, `ServerHandlersUseLiveState`, `ServerClosesConnections`, `ServerKeepsAlive`, `ServerAnswersInOrder` | `http` |
| `HttpServerProofs` (the server) | `ServerImplementsTaskQueue` | `http_live` (its safety part) |
| `WireProofs` (bodies) | `SuccessIsTheWholeBody`, `ReadersAgree` | `wire` |
| `WireProofs` (forms, parts) | `FormArrivesWhole`, `PartsOfEveryRequest` | `wire` |
| `WireProofs` (query components) | `QueryComponentArrives` | `wire` (the innermost step of `EncodedArrives`) |
| `HttpClientProofs` | `ClientSocketStaysOpen`, `ClientLeaksNoSocket`, `ClientAnswerIsOwn`, `ClientExecutesAtMostOnce` | `client` |
| `LoadGeneratorProofs` | `ReportedCountersAddUp`, `No404Unexplained` | `loadgen` |

Each inductive invariant below was checked by TLC on a small instance before it was
proved.

**Pool.** `ConnectionsConserved` is inductive with the types; the steps are counted by
the lemmas `HoldersGain` and `HoldersLoss`, which say how borrowing and returning
change the number of holders. `ConnectionsExclusive` is inductive with the types alone,
`WaitOnlyWhenShort` with types and conservation, because a thread that blocks leaves
room among the holders. `NoLostWakeup` is not: it needs `WaitersIdle` (a blocked or
woken thread holds nothing and is not both), since a woken thread that takes a
connection must lower both sides of the inequality. `DeadConnectionWaitsItsTurn` is an
action property; its invariant `RotInv` adds `OwedAhead`: whatever was idle when a
connection came back, and was not lent since, stands before it in the queue, and the
queue names no connection twice.

**Cache.** Everything is said of what a shard `Holds`, which leaves out the nodes without
an index entry, and that its findable keys are `Distinct`. `WithoutEntries`, `ConsEntries` and `FrontEntries` give the entries after each list
operation exactly; `StoredSound`, `PromotedSound` and `RemovedSound` combine them to
the three operations on a shard; `GetStep`, `PutStep` and `RemoveStep` to the whole
cache. These three say which answers an operation changes: none, its own key's plus
at most one lost, its own key's. `CacheImplementsLossyMap` is read off them step by
step, and so is coherence.

**Recency.** `OrderInv` says that a shard lists the keys it can find by their `Rank`, the
place of a key in the history of uses, and that no cached key is missing from that history; an
operation moves one key to the front of both. `LostInv` says that a key put and not
removed is cached or has at least `CapPerShard` keys of its shard used since. That set
never shrinks while the key is not used, and a key evicted from the back of a full
shard has, by `OrderInv`, all the others used since, and the new one. That counts keys for
nodes, so it needs every node to be found (`NoOrphans`), which is so until a put throws.

**Shard.** `ShardInv` is `Structure` and `InSync`. `Structure` holds between any two
statements, of any thread, whether or not allocations failed: no node is twice in the list, a
node is in the list exactly when it is allocated, and the list fits. `InSync`, until
an allocation has failed, relates list and index: every entry is findable while nobody
is inside, and for the owner of the mutex `Progress` says at each statement what it has
done to the published list and what is missing. `ListAndIndexAgree` follows from both.
For `ShardIsAtomic` each statement is shown to leave `published` alone, and each unlock
to publish what `Stored`, `Promoted` or `Removed` of `ShardedLRUCache` make of the
old list.

**Server.** `BaseInv` is types, `ShardsWellFormed`, `Control` (which method may be at
which label with which response) and `ValuesInFlight`. `KVUsesPool` shows that every
server step is a pool step or leaves the pool alone, so the pool's theorems carry
over. Coherence is not inductive; `CoherenceInv` adds why it holds:

* `SoloAlone`: a request in `solo` shares its row with solo reads only;
* `UnsuspectSolo`: requests for a key that is not suspect are solo;
* `SoloCurrent`: what a solo read will answer or fill, and what a solo write will
  cache, is what the row holds;
* `SettledAgree`: once a solo read has missed, or a solo write has done its cache
  operation, the cache agrees with the row, whether the key is suspect or not, which
  is what allows the request to clear its key when it ends;
* `AgreeOrPending`: a key that is not suspect agrees or has a write on its way to the
  cache (not merely a write in flight: an UPDATE that affected no row promises
  nothing).

`LocalStep` handles all steps that leave the table alone, `StatementCoherent` the
three that write it; each action is then a short lemma. `CoherenceInv` itself was
checked by TLC on an instance of `KVServer` before it was proved.

`KVInventsNothing` holds on suspect keys too. `SourceInv` says for every place a value
can be in (the table, the cache, the locals of a handler that read a row or will cache
what it wrote) that the value was stored in the key's row at some time or belongs to a
create that went on after its statement failed.

**Thread pool.** `ShutdownInv` says that the flag is set exactly from `shutdown` on and
that a worker that has left found it set; `NobodySleepsThroughShutdown` and
`JoinedMeansDrained` follow. `QueuedJobsHaveTakers` counts workers at `test` and the one
notification that may be pending against the jobs; each step changes the two sides by at
most one, which the cardinality lemmas make precise.

**HTTP server.** `ServerUsesPool` shows that every step of the server is a step of the pool
or leaves it alone, so the pool's theorems hold in the server. `LifeInv` adds
`QuietInv` (before `listen` and after it nothing is queued and nothing runs) and `ServedInv` (an
accepted connection is queued or served by a worker). When the workers are joined, nothing
is queued and nobody runs; hence no handler meets a deleted cache, and no accepted
connection is left.

`KeepsInv` counts the answers of a connection against `left`, the counter of
`process_server_socket_core`, at each step of the job, and says what the answer about to
be written announces. The order of answers holds of all clients, by `RankInv`: the answers
given are for requests up to some number, the request being answered is a later one, and
the request lines that are still to be read are later than that, each later than the one
before it; `Process` answers for the first line it finds or for none. For orderly clients
with plain requests `TurnInv` says that at any moment nothing is outstanding (`Idle`), or
one request is partly arrived and partly unsent (`Coming`), or it is the one being answered
(`Answering`). A proper prefix of a plain request is one the server is `StillReading`, so
only a client that leaves, or a pause that ends the promise, cuts it; a whole one
leaves nothing behind. `ServerImplementsTaskQueue`
rests on `OnceInv`: a connection is in the queue once or has one worker, which is what
makes the set of running jobs of `TaskQueue` grow and shrink by one.

**Body.** `Buffered` says that read-ahead and socket together are the wire from `Pos` on,
and `ReadDelivers` that every read of `SocketStream` returns the next units and keeps
that so, whatever `recv` returns. `StreamInv` adds that the receiver was `Given` the
start of the content, and for each loop where on the wire it is: the size line after `j`
chunks, so many units before the end of the `j`-th, its last line, `q` lines into the
trailer section. What stands where on the wire (`ChunkedLayout`) is a
fact about `FlattenSeq`, a recursive function. It is proved from the well-foundedness of
`<` on the naturals: `Induction` says of a set of naturals, not of a predicate, that it
is all of them when it has zero and successors; `FlattenExists` gives the
recursion a solution and `RowGrows` adds one chunk. For the outcomes other than success
`StreamInv` also keeps the reason: a reader that gave up did so because the wire ends
before the framing does (`BrokenOff`), because the chunk it was about to read goes beyond
the limit (`TooMuch`), or because of a trailer line beyond its own (`BadTrailer`), and
in which chunk or line. A line torn by the end of the connection leads to no success
before the body is whole: a smaller size is followed by nothing (`TornChunk`), and another
line is not the one the loop expects, or, in the trailer section, it is the one after it
that is missing. `ReadContentChunked` is a recursive function of the
place on the wire whose values are functions of the bytes read so far. Its recursion has
a solution (`Chunking`), because on a wire whose size lines carry numbers (`Sized`) every
place refers to later ones only; following that solution chunk by chunk gives the
outcome of the function for each reason, and it is the reader's.

**Forms.** `FormLaid` says where in the body each item begins, `FormPos` how far the parser
is, and `FormPlace` what part of the body each of the parser's states stands at: at a
delimiter, in the header fields of an item, so many bytes into its content, after the
last delimiter. What `Find` finds in the bytes that have come is the next occurrence of
the word in the whole body or nothing yet (`NextWord`), and in a content no delimiter
begins (`ContentClean`), across its end neither. So what was handed on is a prefix of the
form's items in each state, and the parser can only end after the last. `FormLimits` adds
that each item begun was within the limits, and that the form refused is not: the line
measured is that of the item about to begin, and what has come of it before its end is no
longer than the line and half of its line end.

**Parts.** `Covers` is the set of the ranges that cover a byte. Sorting only renames them
(`OrderedCovers`); merging a range into the last one covers the same bytes, and none more
often (`AppendedRange`, `ExtendedRange`: sorted ranges never begin before the last one,
which is where the order matters). `range_error` lets at most two ranges overlap an
earlier one, so that no byte is in more than three (`CoversFew`), and the bytes sent are
counted position by position (`SentBound`).

**Query components.** `QueryComponentArrives` says of every string of octets that what
`EncodeQueryComponent` writes, `DecodeQueryComponent` reads back. A byte becomes a piece of
one character or of an escape of three (`QueryPiece`), and a piece that begins where the
decoder stands is read as that byte (`PieceIsRead`; the fold that reads hexadecimal digits
is followed for two digits in `TwoHexDigits`). `FlattenedAt` says where in the encoded
string each piece stands. The decoder is a recursive function of the place; it has a
solution because each place refers to later ones only (`DecodingIs`), and
`PiecesDecoded` follows it from the last piece back to the first.

**HTTP client.** `LockInv` relates the two mutexes to the threads: only the owner of
`request_mutex_` is past `idle` (`Turns`), the requests in flight are counted
(`Counted`), its descriptor is the client's socket (`OwnSocket`) and the only one open
(`OneOpen`), and `stop`'s flag is heeded (`FlagHeeded`). `WireInv` follows requests through
connections: one that was not given to a socket yet is nowhere (`NewYet`, `Spare`), at
most one is on its way (`OneWaits`) and none twice (`NoTwin`, `Once`), the socket a new
request is written to carries nothing of an older one (`CleanSocket`), and what can be
read there is the answer to the current request (`OwnAnswer`). `CleanSocket` is where
closing after a failure matters, and where a server that answered a request twice would
break the argument.

**Load generator.** `CountInv` says that the counters add up among themselves at every
moment, and that the total is the number of requests made except those a worker is
about to count; at the report no worker is. `WarmInv` follows the warm-up: what its
threads have not posted yet is above the loop variable of the thread whose range it is
in, and `RangesCover` shows that the ranges leave no key out, although the number of keys
need not divide by the number of threads. After it the stored keys only grow unless a
failure or a deletion took the blame.

Only model-checked:

* the liveness properties `EveryRequestAnswered`, `SomebodyAnswered`, `AcceptedIsClosed`,
  `StopReturns`, `BenchmarkEnds` and the fairness part of `ImplementsTaskQueue`:
  fairness and ENABLED are beyond the prover;
* `EncodedArrives` as a whole: parameters, targets, header sections, whole requests and
  answers, `Accept` headers, encoder against decoder on enumerated inputs. Each is a
  composition of several recursive functions and folds over the input (`Split`, `Distinct`,
  `SetToSortSeq`, `Lines`) that would each need an induction over the input. Of these
  only the components of parameters are proved (`QueryComponentArrives`).

## Not modelled, and why

* httplib's options that neither `main.cpp` nor the clients use or the build does not
  compile: TLS, compression, proxies, authentication, redirects, static files,
  `AF_UNIX` sockets, pre- and post-routing handlers, socket
  options, Windows and macOS variants, the asynchronous resolver.
* MIME types, file names and the other parameters of `Content-Disposition`, dates, and
  the wording of messages: tables and text.
* `Expect: 100-continue`, which no client of the repository asks for.
* The client's destructor, which waits a bounded time for requests in flight.
* Test client, scripts, build files: no state that several parties share.
* Destructors of pool and cache: `main` reaches them only when `listen` returns, and
  `HandlersUseLiveState` is about that moment.
* Contents of keys and values in the handlers: opaque, except for the empty value and
  for keys that share a row. `UrlEncoding` is about their bytes.
* MySQL beyond single statements: one table, autocommit, no transactions in the code.

## Plan

1. Done: pool, cache, shard, handlers; thread pool, server, wire formats, client, load
   generator; the proofs listed above.
2. Proofs next: `ParamsArrive` from `QueryComponentArrives` and a layout of the pairs
   between the separators, then `FieldsArrive` of `HeaderFields`, the way the recursions of
   `ReadContentChunked` and `DecodeQueryComponent` were solved.
3. An abstract store with one atomic step per request, implemented by `KVServer`
   under the discipline that requests on one row do not overlap.
