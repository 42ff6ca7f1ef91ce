# Specifications of async-proxmoxer

TLA+ models of `proxmoxer/`, the asyncio client for the Proxmox API: what TLC
checks about them on small instances, and what TLAPS proves about them for every
value of their constants.

## 1. The system

A program creates a `ProxmoxAPI` (core.py), which loads one back end. A call such
as `prox.nodes("n").tasks(upid).status.get()` builds a path and becomes one
`session.request` of that back end; tools and helpers are written on top of such
calls. Everything runs on one asyncio event loop: tasks switch only where a
coroutine waits, so all the concurrency of the program lies between its `await`s.

| component | source | state it keeps | operations | interacts with |
|---|---|---|---|---|
| connection pool | `pool.py` | idle list per key, lock, semaphore, `_closed`, statistics, cleanup task | start, acquire, release, mark_unhealthy, close, `_cleanup_loop` | called by SSHSession |
| SSH back end | `backends/ssh.py` | session with its key and `_closed`; a pool, its own or one it is given | request, initialize, close | retry_async around request; the pool |
| retry | `retry.py` | attempt, delay, deadline of one call; fields of a context | `retry_async`, `RetryContext`, `RetryStrategy` | wraps request of every back end, the task tools, the file tools |
| HTTPS back end | `backends/https.py` | ticket, CSRF token, birth time, renewal lock; one shared aiohttp session | login, renewal, request, upload, close | retry_async; the server |
| task tools | `tools/tasks.py` | none of their own | wait_for_task, wait_for_multiple_tasks, UPID and log decoding | retry_async; the server's tasks |
| local back end | `backends/local.py` | `_closed`, one subprocess per request | request, close | retry_async |
| API root, resources | `core.py` | the back end, `_closed`, the path | create, `_request`, close | the back ends, the serializers |
| file tools | `tools/files.py` | none | upload, download, checksum discovery | retry_async around wait_for_task |
| task helpers | `helpers/tasks.py` | none | wait_for_task, wait_for_tasks, stream_task_log | the server's tasks |
| firewall helper | `helpers/firewall.py` | none | rules by position, options, aliases, IP sets, logs, `allow_ssh` and its like | the API |
| resource helpers | the other nine of `helpers/` | none | one API call each: parameters into a request, an answer into a dataclass | the API |
| serializers | `serializers.py` | none | decoding of answers and errors | core.py |

What is hard about each, and what would make it correct:

* **Pool.** Clients, the cleanup task and `close()` meet at one FIFO lock, one of
  them may be cancelled at any wait, and `_closed` is read before the lock is
  waited for. Correct means: one owner per connection, none handed out closed,
  none forgotten, nothing listed after `close()`, permits accounted for, every
  call returns.
* **SSH.** Which of the pool's calls are made on which outcome of a command.
  Correct means: it is a client the pool allows, its requests end, a connection whose
  command failed is closed, and close() leaves nothing open that could still be closed.
* **Retry.** The order of deadline, attempt, jitter and cap. Correct means: a
  bounded sequence of attempts with one result, within a bounded time.
* **HTTPS.** Requests share one header dictionary, one ticket and one lock, and
  the ticket ages while they wait. Correct means: no request carries an expired
  ticket or the CSRF token of another one, renewals do not pile up, a lost answer
  is repeated no more than `max_attempts` times, and nobody waits for ever.
* **Task tools.** A poll and the task it looks at race each other, inside a retry.
  Correct means: what is reported is what became of the task, within a bound, and
  the caller gets an answer whatever some of the waits end in.
* **Local back end.** A command that took too long is killed and run again. Correct
  means: the commands of one request never overlap.
* **File tools.** A whole upload is repeated because only the wait for its task
  failed, and the file may change under it. Correct means: a verified upload stores
  one version of the file, and success means that it is stored.
* **Task helpers.** The same race as the task tools', judged in another order; the
  log and the status of a task are two requests. Correct means: a failed task is
  reported as failed, and a stream that ends has delivered every line once.
* **API root.** Several tasks share one object; requests are repeated, arrive late,
  and close() may be called twice or cancelled.
* **Helpers.** Parameters are tested by truth, by presence or by default, and read
  back with defaults of their own; requests of several clients interleave and are
  repeated. Correct means: what was asked for is what a read shows, an update leaves
  the rest alone. Firewall rules are
  addressed by positions that shift: a position must be that of the rule meant.

PROJECT.json lists the hazards at their lines.

## 2. The modules

| module | models | composes |
|---|---|---|
| `ConnectionPool` | pool.py | |
| `ConnectionLeases` | abstract: the life of one connection | implemented by `ConnectionPool` |
| `SSHSession` | backends/ssh.py under `@retry_async` | extends `ConnectionPool` |
| `RetryStrategy` | RetryStrategy: should_retry, get_delay | used by the next three |
| `RetryAsync` | the wrapper of `retry_async` | |
| `RetryContext` | RetryContext, driven as its docstring says | |
| `BoundedAttempts` | abstract: a bounded sequence of attempts | implemented by `RetryAsync` and `RetryContext` |
| `HTTPSession` | backends/https.py: authentication, request, close | |
| `TaskWait` | tools/tasks.py: wait_for_task, wait_for_multiple_tasks | over `RetryStrategy` |
| `TaskHelper` | helpers/tasks.py: wait_for_task, wait_for_tasks, stream_task_log | extends `TaskWait` for the server's tasks and the gather |
| `FileTransfer` | tools/files.py: an upload or a download under `@retry_async` | extends `TaskWait` for the wait inside |
| `LocalSession` | backends/local.py under `@retry_async` | extends `RetryAsync` |
| `ProxmoxAPI` | core.py: create, a request, close; the way of a request to the server | |
| `HelperFields` | the rules by which helpers write parameters and read answers | |
| `AccessFields`, `StorageFields`, `SDNFields`, `CephFields`, `NotificationFields`, `ClusterFields`, `FirewallFields`, `NodeFields` | every object and command of the ten helpers with the rules of its fields (`StorageFields` has pools, `CephFields` disks too) | extend `HelperFields` |
| `Resources` | a field of an object, written and read by several clients | extends `ProxmoxAPI` and the eight tables |
| `FirewallRules` | the list of rules of helpers/firewall.py | extends `ProxmoxAPI` |
| `MC*` | instances for TLC | |
| `*Proofs` | theorems of the module they are named after; `ConnectionLeasesProofs` those of the pool that need the order of its lock; `RetriedProofs` of `LocalSession` and `RetryContext`; `TaskProofs` of `TaskWait`, `TaskHelper` and `FileTransfer`; `APIProofs` of `Resources` and `FirewallRules` | |

**One action is the code between two waits.** An `asyncio.Lock` that is free and
has no waiter is taken without switching, so a call and its critical section are
then one action, and two when the caller has to queue. The queue of a lock is a
sequence: the holder, then the waiters in FIFO order. Cancellation is an action of
its own at every wait; it runs no `except Exception` handler, because
`CancelledError` is not an `Exception`.

A definition whose comment says *mutant* is a plausible bug of the definition that
follows it. Nothing in a specification uses it: TLC refutes the property it is
paired with when it takes that definition's place (PROJECT.json, `mutants`).

### ConnectionPool

| code | model |
|---|---|
| `_connections[key]` | `pool[k]`, a set, ordered by `idle` (entries are appended when they are released) |
| `PooledConnection.is_healthy`, `idle_time` | `unhealthy`, `idle` (ticks, up to one past the timeout) |
| `_lock`, `_semaphore`, `_closed` | `queue`, `permits`, `closed` |
| `_stats` | `total_created` … `total_evicted` |
| where a client is in acquire, release, mark_unhealthy | `pc`, with `conn` and `key` as its locals |
| locals of `_cleanup_stale_connections` | `keysLeft`, `curKey`, `stale`, `removed` |
| where `_cleanup_loop` and `close()` are | `cleaner`, `closer`, `sweep`, `inflight` |
| whether a connection is really open | `open` |

`AcquireCall` is acquire up to its first wait, `AcquireLookup` its critical section
when it had to queue, `TakePermit`, `CreateOk` and `CreateFail` what comes after
the lock. Release, mark_unhealthy, the cleanup loop and `close()` are cut at their
waits in the same way. `Drop` is a client cancelled at a wait, or one that never
releases; `lost` and `dropped` remember what that cost. Connections are numbered in
the order of their creation, `MaxLeases` bounds the acquisitions of a behaviour.

### SSHSession

`req` is where the request of a task is; every step of it is a step of the pool for
that task (`StartAcquire`, `CommandOk`, `CommandBad`, `InPool`) or leaves the pool
alone. `Raise` ends an attempt whose connection was marked and never released,
`Failed` is retry_async's decision. A bad exit status, a time-out and an exception
of the connection have the same effect and are one action. `ownPool` is
`_own_pool`: true for a session made alone, false for one made by `Backend`; it is
chosen at the start, and `SessionClose` closes the pool only if it is true.

### RetryAsync, RetryContext

The locals of the wrapper are `attempt`, `elapsed`, `delay`, `error`. `get_delay` is
the set of delays the jitter can produce. `DeadlinePassed` goes through `Caught` like
any other error, because the code raises its own TimeoutError inside the `try`. In
`RetryContext`, several `async with` blocks enter one object in turn.

### HTTPSession

A ticket is the tick at which the server issued it, and the CSRF token that comes
with it has the same name. `Enter` is an attempt up to its first wait,
`Authenticate` is prepare_request once it has the lock, `Send` the rest of request:
cookies, the shared header, the file taken out of the caller's data, the request.
`LoginOk`, `LoginRefused`, `LoginLost`, `Answer` and `Lost` are what the network
brings. The server is external: it takes a ticket while it is younger than
`Lifetime`, at some moment between a request and its answer, and it may have carried
out a request whose answer is lost. After `close()` a request fails as it does on
an aiohttp session whose connector is closed.

### TaskWait

Per UPID: `attempt`, `start` and `until` are locals of wait_for_task and of its
wrapper, `seen` is the status a request got from the server, perhaps some time
before the loop judges it. A UPID that cannot be decoded fails each attempt at once
with the error of a failed task (`BeginAttempt`): decode_upid raises TaskError too
(tools/tasks.py:163, 183). The tasks of the server end at any moment (`Stop`).
`GatherReturn`, `GatherRaise` and `GatherCancelled` are what becomes of
asyncio.gather. `caller` says which operation the waits belong to, since the task
helper and the file tools use the same variables.

### TaskHelper, FileTransfer, LocalSession

`HelperJudge` is the loop of the helper after its status request: unlike that of
the tools it looks at the deadline last, reads a log before it reports a failure
(`HelperLog`, one outcome whether that worked or not: the error that holds the log
is replaced at helpers/tasks.py:240) and is not retried. Its waits have a timeout or,
by default, none (`limited`): then they go on for as long as the task runs, and so that
this has finitely many states only what is left of each sleep and request is counted
(`Tick`). `StreamStatus` and
`StreamLog` are the two requests of stream_task_log, between which the task writes
lines (`WriteLine`) or ends.

`transfer` is where an upload or download is. The file has two versions; a reader
sees the one it opened, the one written since, or a mixture (`ReadAs`). `PostUpload`
starts a task of the server and may lose its answer, `WaitOver` takes the result of
a `TaskWait` wait, `AttemptFails` is the end of an attempt for any reason, since
everything becomes a FileOperationError. The repeats of the POST itself inside the
session are left out: they only start more tasks of the same kind.

In `LocalSession` an attempt of `RetryAsync` is a subprocess: `alive` are those
still running, `process` is the one the attempt waits for. `CommandTimeout` kills,
`Killed` is the `process.wait()` after it, `RequestCancelled` leaves the process.

### ProxmoxAPI, HelperFields, Resources, FirewallRules

`call[c]` is the request a task makes: sent, answered, or none. `Lose` is a
connection that fails, a time-out or a cancellation at any point; the request may
have been served by then, or be served later (`late`). `Refused` is an error in the
answer of `pvesh`, which ends an attempt; over HTTPS the same answer ends the
request (`Returns`). `Close` waits for connections to close over HTTPS only: over SSH
the session leaves the pool it was given alone, and the local one has nothing to close.

The helpers differ only in what they do with each parameter, so they are tables. A
value is `none`, `falsy` or one of two others. `Sent` has, per rule, what of it is in
the request: `always` (`params = {k: x}`), `given` (`if x is not None`), `truthy`
(`if x`), `flag` (`1 if x else 0`), `on` and `off` (sent only when set or when not),
`unless` (sent unless it is the default), `switch`, `inverse`. `Read` has what
from_dict makes of a key: `plain`, `required` (KeyError), and the defaults. A family
of a `*Fields` module is an object with the rules of its create, its update and its
from_dict, a single object (`Single`), a request that makes the server do something
(`Command`) or one that makes it tell something (`Query`, `Entries`).

`Resources` follows one field for each distinct treatment found in those tables
(`Followed`): the owner sets it, the other clients create, delete and update the
object without caring for it. `want` is what the owner may count on. The server is
external: it keeps what it is sent and no more; `LeftOut` and `Form` are the answers of
`api_extraction/proxmox_api_complete.json` where they are not what from_dict expects:
nothing is read of them (`Treatment`), since from_dict raises.

`FirewallRules` keeps the list of the server beside the list that the calls asked for
(`asked`), rule by rule; the calls send positions. `Text` is `str()` of an action.

## 3. What is checked

| run | instance | shows |
|---|---|---|
| `pool_safety` | 2 clients, 1 key, 1 permit, lists of 1, 3 leases, cancellation everywhere | types; list limit; one owner; permits; nothing listed after close; nothing forgotten; statistics; the pool implements `ConnectionLeases` |
| `pool_live` | 2 clients, 1 permit, lists of 2, clients release | no clean-up forgets an entry; close() and every call end; stale entries leave |
| `pool_max` (violated) | 1 permit | more than `max_connections` connections are in use |
| `ssh_requests` | 2 tasks, 2 requests of 2 attempts, 3 permits, a pool of its own or a given one | the session uses the pool as its callers may; close() leaves open in its own pool only what failed, and keeps away from a given one; every request returns unless the permits are used up |
| `ssh_close` (violated) | the same with 2 permits | close() leaves the idle connections of a given pool open |
| `ssh_marked` (violated) | 2 permits | the connection of a failed command is never closed |
| `retried` | retry_async with 3 attempts, delays 4 and 8 with jitter, a deadline between them; local commands; 5 blocks of a context; two UPIDs, one of which cannot be decoded, timeout 3, 2 attempts per wait; a log of 3 lines read 2 at a time; uploads and downloads of 2 attempts | which error ends the loop and after how long; the loop implements `BoundedAttempts`, as does every block of a context; commands of a request do not overlap; waits tell the truth within their bound, for the tools, the helper and uploads; streams lose no line; a verified upload is whole and a successful one is stored; gathers, streams and transfers end |
| `retry_timeout` (violated) | the same | the call outlives its overall timeout |
| `https_session` | 2 tasks, 2 attempts, renewal at 2 ticks, life 4, 5 ticks | no expired ticket used; tokens match; carried out at most once per attempt; renewals apart; an expired ticket is never replaced; requests end |
| `https_upload` (violated) | the same, 6 ticks | a repeated upload has lost its file |
| `wait_failfast` (violated) | two tasks | with `fail_fast` the other waits go on |
| `resources` | 2 clients, 2 attempts, any back end; every treatment of a field; a list of 2 rules and a new one | what was created or asked reads as asked; updates hold against others, repeats and late requests; rule positions are those of the rules meant |

### Bounds

* *Two clients* are enough for every race of the pool: the others are the cleaner
  and `close()`, so four actors meet at the lock. One permit makes the second client
  wait for it. Three leases are a creation, a reuse and one more of either, which is
  where the permit a reuse gives back is first used. Two keys are left to the
  proofs: the lists of two keys share nothing but the lock.
* *pool_live* has one permit, so that each client waits for the one the other holds,
  and two leases, which make a list of two when the second is made while the first
  is in use: a clean-up meets one entry to keep and one to remove.
* *ssh_requests*: `MaxLeases >= MaxAttempts * MaxRequests` (an assumption of the
  module), so the bound of the pool never stops a request; three permits are more
  than one request can lose.
* *https_session*: five ticks are two renewals, with a request in flight across one
  of them and a ticket as old as a ticket may become. Ticks stand for the 5 s time
  limit of the code as well as for its 3600 s renewal age: only
  `Lifetime >= RenewAge + 2 * Timeout` is used, which 7200 >= 3600 + 10 satisfies.
* *retried* holds one initial state for all the operations, of which a behaviour
  makes one; they share no state, so running them beside each other would only
  multiply. The deadline of 9 lies after one delay of 3..5 and within the second of
  6..10, so it passes before an attempt as well as during one. A timeout of three
  polls and two attempts: a poll may take a tick, in which the task may end. Waits
  share no state either: for the tools, one that polls beside one that fails at once
  (`FewWaits`) shows what two that poll would. Three lines in pages of two are a full
  page and a short one.
* *resources*: `CloseBound` follows close() with one kind of field, on which it does
  not depend; `BackendBound` follows the repeats of refused requests, which only SSH
  has there, for the fields a create always sends; `AttemptsBound` leaves the
  repeats to the owner, whose fields the properties are about, while the other's
  requests are still lost or late; `RulesBound` stops at the second deletion, and
  after a lost answer once nothing is under way. 2 true values are needed only where
  one may be a default.

Deadlock is checked except for the retry, wait and resource runs, which end. In the pool and
HTTPS models time or new calls can always go on, so there it says little, and
`CallsReturn`, `RequestsReturn` and `RequestsEnd` are what excludes that everyone
waits on everyone.

### Fairness, and why the code justifies it

* Weak fairness of what a task does next once its wait is over (`Resume`, `Clean`,
  `Close`, `TaskStep`, `Loop`): the event loop runs every ready task, connections,
  commands and requests have time limits, sleeps end. Weak fairness of `Tick`.
* Strong fairness of `TakePermit`: asyncio.Semaphore serves its waiters in order, but
  other tasks may take a free permit in between, so the permit need not stay free.
* Strong fairness of `Release`, for `pool_live` only: the client releases what it
  holds and does not mark its connection for ever instead. No fairness is assumed of
  acquire, of cancellation, or of a call of `close()`.
* `retried`: weak fairness of `TaskLoop`, the steps of the event loop and of the
  clock for waits, streams and transfers; none of the server's tasks, of the writer
  of a log or of the file. The other properties of that run are safety.

### Where code and documentation part

Runs of PROJECT.json show, each with its line:

1. pool.py:180: a reuse takes no permit and its release gives one back, so
   `max_connections` does not bound what is in use (`pool_max`).
2. ssh.py:252: after a failed command the connection is marked and never released.
   It stays open and its permit is gone (`ssh_marked`); `RequestsReturn` needs the
   exception for used-up permits because of it.
3. ssh.py:379: `Backend` passes the pool it makes to its session, which therefore does
   not close it, nor did it start its cleanup task: "Close session and pool." and
   core.py:455 "Close API connection and cleanup resources." leave every idle connection
   open (`ssh_close`).
4. retry.py:188: the overall timeout is looked at only before an attempt
   (`retry_timeout`).
5. https.py:382: the file is deleted from the caller's data by the first attempt
   (`https_upload`).
6. tools/tasks.py:274: asyncio.gather cancels nothing (`wait_failfast`).

Met while modelling, in the models, with no run of their own:

* pool.py:246: `mark_unhealthy` does nothing for a connection in use, which is
  listed as healthy again at its release (`MarkCall`, `Keep`).
* retry.py:113: jitter comes after the cap, so a delay may exceed `max_delay` by a
  quarter; `BackoffBudget` is stated with it.
* retry.py:205: `should_retry` refuses the last attempt, so the error of that attempt
  is raised and the RetryExhaustedError of line 226 never is, against
  exceptions.py:205-209 ("Exception raised when retry attempts are exhausted."). In `RetryAsync`
  the last failure ends in `Caught`, and `NonRetryableEnds` says which errors may end
  a call, not in which exception.
* helpers/firewall.py:261: to_dict sends `str()` of enum members, which is their
  name, so `allow_ssh`, `allow_port`, `block_ip` and the documented examples send
  rules the API refuses (`Text`, and `AddRule` of a "member").
* tools/tasks.py:163: a UPID that cannot be decoded raises the TaskError of a failed
  task, so the caller cannot tell it from one (`ResultIsTrue` names it).
* helpers/tasks.py:196: by default a wait of the helper has no timeout and ends only
  with its task; `GatherEnds` is stated with that.
* https.py:196: a ticket is renewed with itself; after an idle time longer than its
  life every renewal is refused and the password is not used again (`LoginRefused`):
  no request is ever answered again (`ExpiredForGood`).
* tools/tasks.py:32: the timeout counts per attempt of the decorator and its error,
  like the task's failure, is retried (`WaitBudget` is the bound that does hold).
* helpers/firewall.py:454: a deletion whose answer is lost is repeated, and deletes the
  rule that has moved up; `ListAsAsked` is stated for calls whose answers come.
* Answers that cannot be decoded (`LeftOut`, `Form`): users, groups, roles and network
  interfaces read by name lack the key of their name (access.py:225, nodes.py:1557),
  the status of an agent's command lacks `pid`, `list_osds` (ceph.py:336), `list_lvm`
  (disks.py:257) and the upload of a certificate (nodes.py:1753) iterate over an object.
* `update_alias` and `update_network_interface` test their parameters by truth and
  cannot clear one (`NotCleared`).
* tools/files.py:302 asks for `download_url`, which the API calls `download-url`: every
  download ends in an error after its attempts (`PostDownload`).
* helpers/tasks.py:290: without raise_on_error the failed waits are dropped, so results
  do not stand at the places of their UPIDs.
* helpers/tasks.py:237: the error with the last lines of the log is replaced by one
  without them.
* backends/local.py:143: a cancelled request leaves its process running.
* core.py:456: a second close() returns at once, also when the first was cancelled.

## 4. What is proved

For every set of tasks and keys, every limit, delay, timeout and length of the
behaviour, from the named assumptions on the constants only, every safety invariant,
every action property and every refinement that a passing run checks:

| module | theorem | says |
|---|---|---|
| `ConnectionPoolProofs` | `TypeCorrect`, `KeepaliveBounded`, `SingleOwnership`, `PermitsAccounted` | types; list limit; one owner; where the permits are |
| `ConnectionLeasesProofs` | `PoolConsistent`, `ClosedPoolStaysEmpty`, `NothingOrphaned`, `ListsStepwise`, `RefinesLeases`, `StatsHonest` | the order of the lock's queue; nothing listed after close; nothing forgotten; how entries come and go; the pool implements `ConnectionLeases`; nothing counted twice |
| `SSHSessionProofs` | `SSHUsesPool`, `SSHSingleOwner`, `SSHPoolCorrect`, `SSHCloseSettles` | a session is a client the pool allows, so all that is proved of the pool holds under it; what close() leaves open in its own pool and in a given one |
| `RetryAsyncProofs` | `LoopCorrect`, `NonRetryable`, `RefinesAttempts`, `CallWithinBudget` | the loop's invariant; which error ends it; the wrapper implements `BoundedAttempts`; how long a call may take |
| `RetriedProofs` | `LocalCorrect`, `CommandsNeverOverlap`, `LocalRefinesAttempts`, `ContextCorrect`, `BlocksRefineAttempts` | one command at a time; a local request and every block of a context implement `BoundedAttempts` |
| `TaskProofs` | `WaitsReportTheTruth`, `WaitsWithinBudget`, `HelperReportsTheTruth`, `HelperWithinBudget`, `StreamPassesAllOn`, `NothingTornIsStored`, `UploadStoresWhatItRead`, `UploadWaitsWithinBudget` | waits of the tools and of the helper tell the truth; they and those of uploads are within their time; streams lose no line; what an upload stores |
| `HTTPSessionProofs` | `InvCorrect`, `HTTPTypes`, `TicketsOutlastRequests`, `TokensAgree`, `CarriedOutPerAttempt`, `RenewalsNeverDouble`, `ExpiredStaysExpired` | types; no expired ticket; matching tokens; once per attempt; renewals apart; a ticket that was let expire is never replaced |
| `APIProofs` | `ListHoldsWhatWasAsked`, `CreatedValuesShow`, `ChangesHold` | positions are those of the rules meant; created values read as asked; updates hold |

* **Pool.** `SingleOwner` is not inductive: a connection about to be created must be
  new to every task and list, which `Ownership` adds. `OwnershipStep` names the four
  things a step can do to owners and lists (hand out a listed connection, create one,
  put one back, only lose), one lemma shows that each keeps `Ownership`, others that
  each action is one of the four. `PermitStep` does the same for the permits: the sum of `PermitAccounting`
  keeps its value because each step moves one unit between two of its terms.
* **The lock of the pool.** What close() and the clean-up promise depends on who may
  stand in the queue with them. `LockInv` says who is queued, once each, and that
  whoever is inside is at the head. `CloserInv` says that once `_closed` is set nobody
  who found the pool open stands behind close(), which is where FIFO order matters:
  release and acquire look at `_closed` before they queue. `StaleInv` and `SweepInv`
  say that what the clean-up and close() still have to close is listed. Their
  conjunction with `Ownership` and the types is `PoolInv`, which is inductive.
  `NextMoves` then shows that every step is one of seven moves of connections
  (`Move`): handed out, created, listed, closed by its owner, given up, closed while
  listed, taken off the lists; or none of these. `NoOrphans`, `ListSteps` and the
  refinement are proved of the moves and not of the actions; a move is a step of
  `ConnectionLeases` or a stutter. `StatsNeverOvercount` needs `CountInv`, which
  counts with what is open also what close() will still close although a cancelled
  clean-up has closed it already.
* **SSH.** `SSHUsesPool` is a refinement: every step of the session is a step of
  `ConnectionPool` or a stutter, hence the pool's theorems hold under it.
  `SSHCloseSettles` has an invariant of its own, `SSHInv`: where a request of a task
  stands decides where the task may be in the pool, so that once every request has
  returned nobody holds a connection; a pool of the session's own is then closed and
  lists nothing, one it was given has never been closed, and `NoOrphans` does the rest.
* **Retry.** `LoopInv` ties `attempt`, `calls` and `pc` together (`calls` is
  less than `attempt` before the function runs and no more than it later) and says
  that a sleep follows a retryable error before the last attempt, so the loop neither
  runs on nor off its end. `LocalInv` has beside that that only the process of the
  attempt under way can be alive, which the wait for a killed process gives.
  `ContextInv` is what a block finds when it enters a context another one has left.
* **Time.** `BackoffBudget` and `WaitBudget` bound sums of delays that grow with
  powers. `Slept` is a recursive function; that it is a number and grows by one delay
  per attempt (`SumExists`) is induction over data, here as the least-number
  principle (`Least`), which the library's theorems on well-founded sets give as a
  statement on a set. Of exponentiation the provers know nothing: `TicksAssumption`
  says that the delays before the cap are natural numbers, and TLC evaluates it.
  `BudgetInv` and `InBudget` then say how much of the sum an attempt has used at each
  point of the loop. `InBudget` speaks of one wait and not of who waits, so the lemmas
  about its steps serve the gather of the tools (`BudgetHolds`) and the upload, whose
  attempts wait for one task each with a clock that starts at its request
  (`UploadBudget`). The helper makes one attempt, so its `HelperBudget` needs no sum.
* **Waits and transfers.** `Truthful` ties what a loop has seen to what the task has
  become (a task that stopped stays as it is), `Timely` a deadline to the clock,
  `GaveUp` the end of a task to a wait that timed out, `Concluded` results to the gather;
  together they are `WaitInv`, for tools and helper, and `TransferInv` takes
  `Truthful` from them. `StreamInv` is what asking for the status before the log is
  good for: a full page may leave lines behind, a short one cannot once the task is
  over. `ReadTwice` and `Carried` follow the content of a file from its two readings
  to the bodies under way and to what is stored.
* **HTTPS.** `Inv` is `TypeOK /\ TimeInv /\ MessageInv /\ LockInv /\ AttemptInv /\
  NoExpiredTicketUsed`. When its answer comes, the ticket of a request is less than
  `RenewAge + 2 * Timeout` old: `birth` is at most `Timeout` later than the ticket
  (`TimeInv`), the age is looked at with the lock held and before the request is sent
  (`MessageInv`), and no request outlasts `Timeout`. `LockInv` says that who is
  renewing holds the lock and found the ticket old. `ExpiredStaysExpired` adds
  `NewestInv`, that nothing is sent with a younger ticket than the session's and that a
  login begins after the ticket it replaces: so nothing is under way with a ticket
  that has expired (`NothingOut`), and whoever wants to renew it asks too late.
* **Rules.** `ListInv` describes the states in which calls have kept apart
  and answers have come (`clean`): a request on its way leads from the server's list
  to the one asked for (`Leads`), and one that is answered has led there (`Same`).
  Rules must differ (`RulesAssumption`), or the list would not tell them apart.
* **Fields.** `FieldInv` says of every request, under way or late, that it is one the
  clients of this field can make (`Asks`), and of the object that what the owner may
  count on shows. The lemmas on `Sent` and `Read` give what a read shows of what each
  rule sends. That the rules that stand together in a table do fit, that is, that what
  one way of writing a parameter sends is what the way of reading it gives back, is the
  lemma `TablesFit`, with one step for each family of each helper (`FamilyFits`): a
  helper that writes a parameter one way and reads it another is a step that fails.
  `HelperFields` puts tables together with an operator of its own (`++`), since the
  provers know nothing of the `@@` of TLC.

Only model-checked:

* Liveness, and with it fairness and ENABLED: `CallsReturn`, `StaleIsRemoved`,
  `RequestsReturn`, `RequestsEnd`, `GatherEnds`, `StreamEnds`, `TransferEnds`.
* The assumptions on constants, and the violated properties.

## 5. Not modelled

* Serializers, the decoders of UPIDs and logs, url_join and the text of checksum
  files: pure functions of one input, which tests reach. Exceptions, types and package
  files are declarations.
* HTTPS: API-token authentication keeps no state; host, port and token id are data.
* Helpers: methods that pass one call on as it is; `get_vm` (nodes.py:786), which asks
  for a container whenever its first request fails in any way; `get_pool_members`
  (pools.py:210), which calls `.get` on dataclasses; the names and formats of values. A
  few paths that helpers ask for are not in the API's description (access.py:575,
  ceph.py:678, nodes.py:1214, notifications.py:468): the models take them as given.
* Logging, the text of commands and messages, TLS. `api_extraction/` generates data.

What is left: the time of a whole transfer, which is that of its attempts and of the
waits inside them. The requests of `HTTPSession` and the waits of `TaskWait` do not
implement `BoundedAttempts` as it is stated, since an attempt on a closed session, or
for a UPID that cannot be decoded, starts and fails in one step; what it promises is
stated of them directly (`AppliedPerAttempt`, `WaitBudget`).
