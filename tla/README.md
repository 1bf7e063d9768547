# A TLA+ model of FileStorageServer

FileStorageServer is an in-memory file store: clients connect over a Unix
socket, create, lock, write, append to, read and remove files, and a server with
one main thread and a pool of workers keeps the files, expelling the oldest
ones when there is no space. This directory models the server and the client,
checks the models with TLC and proves theorems about them with TLAPS.

    tlc -config locks.cfg MCFileServer.tla      # any run of the table below
    tlapm FileServerProofs.tla

## The system

| component | state | operations | interacts with |
|---|---|---|---|
| storage (`server/storage.c`) | hash map of files, `fifo_queue`, `no_of_files`, `current_size`, the mutex `access` | create, add, get, update, remove a file, FIFO replacement | called by the handlers and the lock manager |
| request handlers (`server/worker.c`) | locals of each handler | open, close, write, append, read, readN, remove, lock, unlock | read a request from a descriptor, change the storage under `access`, send responses |
| lock manager (`server/lock_manager.c`) | - | gives free locks to the first waiter, and answers it | scans `fifo_queue` for ever under `access` |
| main loop (`server/server.c`) | `set`, `fd_max`, `mw_pipe`, `signal_pipe`, `server_status` | select, accept, enqueue a descriptor, read a descriptor back, shut down | workers through `request_queue` and `mw_pipe`, the signal handler through flags and `signal_pipe` |
| thread pool (`server/worker.c`, `worker_thread`) | `client_fd`, `shutdown_now`, `request_queue` and its condition | take a descriptor, handle one request, write the descriptor back | main loop, storage |
| signal handler (`server/signal_handler.c`) | `shutdown_now`, `accept_connection` | wait for one signal, set a flag, close the pipe | main loop, workers, lock manager |
| linked list, hash map (`utils/`) | nodes, buckets | insert, find, remove | storage, request queue |
| protocol (`utils/protocol.c`) | - | send and receive requests and responses as several writes and reads | handlers, client api |
| client api (`api/fileserver_api.c`) | one descriptor, `opened_files` | one blocking call per operation, preceded by an `openFile` when the file is not in the list | protocol; the answers of handlers and lock manager arrive in one stream |
| client (`client/client.c`) | the queue of actions from the command line | connects, makes one call after the other, closes | client api |
| logger, utilities, test scripts | - | log file, macros, input and output | - |

What must hold of each:

- storage: the table and `fifo_queue`, two structures updated by separate calls
  that can fail one at a time, agree (`QueueResolves`); the counters are exact
  and the capacity is kept (`BytesAccounted`, `FilesCounted`,
  `WithinCapacity`); the replacement ends (`ReplacementSucceeds`); all of them
  together are a cache that expels in the order of the writes, and no file too many
  (`ImplementsFileCache`).
- handlers: the flag `O_LOCK` and `locked_by` agree (`LockFieldsAgree`); only
  the owner of a lock changes or removes a file (`OnlyOwnerModifies`,
  `OnlyOwnerRemoves`); a pointer kept across a replacement is still good
  (`WriterPointerValid`); every request is finished (`RequestsComplete`).
- locks: a lock is not taken from its owner (`LockNotStolen`); who waits is
  blocked, waits once, and is not forgotten (`WaitersBlocked`,
  `NoWaiterForgotten`); a free lock reaches its first waiter
  (`FreeLockGranted`).
- all of these together: the locks of the files change only in the ways of an
  abstract lock service (`ImplementsLockService`).
- main loop and pool: a connection is with exactly one thread or in one queue
  (`OnePlace`); select watches it (`FdMaxCovers`); every request is taken
  (`RequestsServed`); a graceful shutdown waits for the clients
  (`GracefulDrains`), and a shutdown ends (`ShutdownCompletes`).
- client api: a call takes exactly the responses that are for it
  (`AnswersTaken`), so that success means success (`SuccessIsRealInStep`) and
  `opened_files` agrees with the server (`OpenedAgree`); every call returns,
  also when the server ends in the middle of an answer (`CallsReturn`).

The behaviours that are hard here: critical sections interleaved between
requests on one file; a removal that runs outside the mutex; a section that is
never left; memory that is used after it was freed; a file that is in the table
and not in the queue; descriptors that travel through four places, each under
another lock or none; signals at any moment; responses that do not say which
request they answer, from two threads, as several messages.

## Modules

| module | models |
|---|---|
| `Storage` | the operators of storage.c with what hash_map.c and linked_list.c do to it |
| `FileServer` | the handlers of worker.c and the lock manager over the storage |
| `LockService` | abstract: owner and waiting clients of each file |
| `FileCache` | abstract: the files that are kept, the order of their writes, the write in progress |
| `ServerLoop` | main loop, pool, signal handler, shutdown, connections |
| `Api` | one client process and the calls it makes, over its connection to the server |
| `MCFileServer`, `MCServerLoop`, `MCApi` | instances for TLC: request and call sets, buckets, symmetry |
| `SequenceProofs` | lemmas about sequences and numbers that the other proofs share |
| `FileServerProofs` | lemmas about the operators of `Storage`; type correctness of `FileServer` |
| `LockProofs` | locks and the contents of files |
| `LockServiceProofs` | `FileServer` implements `LockService`; who waits is blocked, and who is blocked is remembered |
| `QueueProofs` | the eviction queue and the writer's pointer |
| `AccountingProofs` | which files leave the table, their number and their bytes, when none leaves; `FileServer` implements `FileCache` |
| `ServerLoopProofs` | the set `select` watches, where descriptors are, the connection counter, type correctness of `ServerLoop` |
| `ApiProofs` | the conversation of a client with the server, type correctness of `Api` |

### Storage and FileServer

The storage is a record with the fields of `storage_t`. The table is a function
on the paths `hash_map_get` finds, `fifo_queue` a sequence of paths, contents
their size. `Hash` gives every path its bucket, because `hash_map_remove` drops
all entries of the bucket it removes from. `current_size` is a `size_t`
(arithmetic modulo `SizeMod`).

Variables and code: `storage` and `access` are `storage_t`; `pc[c]`, `req[c]`
and `local[c]` belong to the worker that serves client `c`; `replies[c]` counts
the responses sent to `c` that it has not consumed; `up` is false after a memory
error.

- *Granularity.* What a handler does between `lock_return` and `unlock_return`
  is one action. A write that makes space is several, one per file expelled,
  and `access` is held in between. `openFile` has one section per flag.
  The removal of an oversize file (worker.c:388) runs without the mutex and is
  cut at each access of the storage: the load and the store of `no_of_files`, then
  those of `current_size`, unlinking, removal from the table. A readNFiles that fails
  frees the files it has collected after it has released the mutex
  (worker.c:121, `ReadNFree`), one per step. Sections of other threads are not cut by
  these steps: a data race inside one of them is not modelled further.
- *Freed memory.* A queue node holds a pointer into the file it names.
  `list_remove_element` frees that file before `hash_map_remove` looks at its
  key, so the entry may be found (and freed again, which aborts or not) or
  not: both are outcomes of the model. `freed` marks locals that point to a
  freed file; using one may stop the process. Freed memory that is still read
  is taken to read as before, else as lost; other corruption is not modelled.
- *A job is its client.* The main loop listens to a descriptor again only when
  the worker has written it back, so a client has one worker at most. Module
  ServerLoop checks that (`OnePlace`).
- *Answers.* What a response says is left out; how many are sent is not, since
  an append falls through into a read and answers twice, `lockFile` may answer
  later, and readNFiles sends one more than the api reads. A client with no answer
  to consume is blocked. The two rounds of responses of readN and the files
  sent before them count as what they are to the client: more or fewer than
  one answer.
- *Connections.* Every client is connected at the start; one that closes is
  replaced by the next with the same descriptor, which the storage cannot tell
  from it (locks are not released: worker.c:65).

### LockService and the refinement

`LockService` says what the server promises about locks, and nothing about
tables, queues, threads or mutexes: an owner and a sequence of waiting clients
per path, and the clients with a request in progress. Only the owner releases a
lock; a client enters a waiting list last, in a request of its own and while
another client owns the lock, and leaves it first, as the owner; a file that
leaves the storage takes both with it; except for grants nothing happens without a request. It
also says what the server does *not* promise: `Take` covers openFile with
`O_LOCK`, which takes the lock from whoever holds it.

The mapping (`Locks`, at the end of `FileServer`) reads owner and waiting list
from `FileOf(p)`: the file of the table, or, when the removal of an oversize
file has dropped it from the table while a writer holds it, the `file_t` the writer is about to
put back, or that of a file nobody has created. One action of a handler is
one abstract action or a stutter; a pass of the lock manager is one `Grant` of several files.

### FileCache and the refinement

`FileCache` says what the server promises about the files it keeps: a size for each,
the order in which they were written, and the write in progress, if there is one.
A write of `n` bytes expels the file written longest ago as long as `n` bytes do not fit
(`Expel`), and not once more; then the file has its `n` bytes and is the last in the order
(`EndWrite`). In between nothing else happens to any file.

The mapping (`Cache`, in `FileServer`) takes the sizes from the table, the order from `fifo_queue`,
the write from the worker that is in the replacement. The abstract space in use is counted over
the files; the code compares `current_size`. A removal of a file that was never
written maps to a stutter: the code uncounts it and keeps it.

### ServerLoop

Descriptors are numbers, because the loop visits them in order and keeps their
maximum: `signal_pipe`, `mw_pipe`, the socket, then the clients. The main
thread is in `main`, worker `w` in `worker[w]`; `pipe` is the contents of
`mw_pipe`. `select` reports the ready descriptors not above `fd_max`; the scan
then takes them in order, and after each reads one number from `mw_pipe` if
that was ready, which may block. `client[f]` is what the process behind `f` is
doing, `peer[f]` whether that process is still there. It may die at any time (`Die`), also
with a request or a response under way. What it had sent is still received and handled; then
`f` stays readable for good: either at end of file, where the request received
is empty, or, when a response was left unread, with ECONNRESET, where
`recv_request` returns NULL and worker.c:53 dereferences it (`ReceiveFails`).

What a request does to the storage is left to FileServer, except one thing
the threads depend on: a read of a missing file leaves `storage->access` locked
(`leaked`). From then on every handler that asks for the mutex keeps its worker (`HandlerBlocks`),
and the lock manager may be found in `lock_return` instead of leaving its loop
(`LockManagerBlocks`); threads are joined all the same, which then never returns.

### Api

The client has one thread, whose place is `pc`: `idle` between two calls, `opening` while it
waits for the answer to the `openFile` a call begins with, `answer`, `files` and
`final` while it waits for the response to the call, the files it announced and the last
response of a write. `call` is the call of the command line, with the file and
whether the directory for files that come back can be made; `opened_files`
is the list of the api, `how_many` the loop counter of the calls that receive
files.

The server is what one connection sees of it: `requests` and `responses` are
the two directions of the socket, `work` the responses the worker still has to send
for the request it handles, `awaiting` those the lock manager will send. Whether
a request is carried out (`CarryOut`) or refused (`Refuse`) is a choice; how many
responses follow is not, and neither is their content as far as the api looks at it: a
status, a path, a number or a file. Each carries the number of the request it
answers, which the code does not send and only properties read. Two answers do
not say what was done: SUCCESS to a removeFile whose file
stays, because it is not in the eviction queue (`RemoveNothing`, worker.c:673), and
the refusal of a write above the capacity that removes the file if it was
queued (`RefuseTooBig`, worker.c:389).

- *End of the server* (`Exit`), at any moment, also in the middle of a
  response. Reading then returns zero bytes, which `recv_response` does not
  take for an error: the zeros of `calloc` make a response whose
  status is SUCCESS. `StatusAtEnd` is that, unless the server left a request
  unread, in which case the kernel resets the connection. Writing raises
  SIGPIPE, and the process dies.
- *A server that is stuck* (`Stall`, `AppendStalls`): at any moment, when the main thread
  waits for `mw_pipe` or the handlers for `storage->access`, requests are taken no
  more, or taken and never answered, the second half of an append among them. What a worker had
  begun to send it still sends. Such a server may end like any other, by SIGKILL.
- *Memory.* A number read from a body that is absent, and a path that is absent,
  end the process (`dead`), and so may the buffer of a readFile that failed, or whose
  openFile failed, when client.c writes it to a directory (`UseNoBuffer`); a number
  read from the contents of a file is any number.
- *History.* `done`, `unremoved`, `granted`, `dropped` and `leftover` are what the
  properties compare with: the requests carried out; the removals answered with SUCCESS whose
  file stays; the files opened and not answered as removed or expelled since
  in an answer to this client; those removed by a write that was refused;
  and the first call that left responses behind.

## Runs

All deadlock checks are off: both systems may really stop (the process exits or
dies, clients send nothing more, or the bounds forbid it).

| run | checks | bounds |
|---|---|---|
| `locks` | `TypeOK`, `LockFieldsAgree`, `WaitersBlocked`, `ImplementsLockService` | 3 clients, 1 file, all lock operations, close, write, remove |
| `replace` | `QueueResolves`, `WriterPointerValid`, `BytesAccounted`, `WithinCapacity`, `FilesCounted`, `ReplacementSucceeds`, `OnlyOwnerRemoves`, `ImplementsFileCache` | 2 clients, 3 files, capacity 3, sizes 1-3, own buckets: creations, writes, removals, readN |
| `contents` | `LockFieldsAgree`, `OnlyOwnerModifies`, `ImplementsLockService` | 2 clients, 2 files, 1 file at most, appends, oversize writes, reads, removals, locks; `SizeMod = 4` |
| `waiters` | `NoWaiterForgotten`, `RequestsComplete`, `FreeLockGranted` | 3 clients, 2 files, no removals |
| `loop` | `TypeOK`, `OnePlace`, `FdMaxCovers`, `GracefulDrains` | 2 workers, 2 descriptors, 3 connections, any signal, clients that die |
| `served` | `RequestsServed`, `ShutdownCompletes` | 2 workers, 2 clients connected at the start, which live and may read missing files |
| `api` | `TypeOK`, `AnswersTaken`, `SuccessIsRealInStep`, `OpenedAgree`, `CallsReturn` | any 3 calls on 2 files, 1 file with an answer, the server may get stuck or end |
| `v_steal` | `LockNotStolen` is violated | as `locks`, 2 clients |
| `v_collision` | `OnlyOwnerRemoves` is violated | 2 files in one bucket |
| `v_leak` | `RequestsComplete` is violated | as `contents`, 2 files at most |
| `v_stall` | `RequestsServed` is violated | 1 client connected, 1 that connects |
| `v_answers` | `SuccessIsReal` is violated | 3 calls, each an append to or an unlock of one file |

Why the bounds are enough. Locks are per file, so one file and three clients
show an owner, a waiter and a third who interferes. For the replacement three
files and a capacity of three show a file expelled while others stay, and
two or three expelled for one write; the limit on the number of files is reached in
`contents`. Requests are
not bounded in number: the bounds (`CountBound` on `no_of_files`, `QueueBound`
on the queue, `FileBound` on a file that is appended to, `ReplyBound` on
unconsumed answers) only stop counters, and no request is sent beyond them. `SizeMod = 8`
is above every sum the sizes make, so that only real underflows wrap; in `contents`, where
no property is about the counter, it is 4, and sums above the capacity wrap as well. There an append, of `MaxSize` bytes, is to an empty
file, whose owner may be another by the time the unlocked removal reads its size. Two
workers and two descriptors show every overlap of two requests with accepts,
and three connections a descriptor that is reused. In `Api`, `MaxCalls` is the
length of the command line: a call that leaves an answer behind, one that takes
it, and one that shows the effect are three; two files are one that is written and
one that is expelled for it (`MaxFiles = 1`).

Fairness. In `FileServer` handlers and the lock manager are strongly fair: they
contend for one mutex, and a thread that keeps asking for it gets it. That is an
assumption about the scheduler, which POSIX does not promise. Strong
fairness is not enough if a section is never left, which `v_leak` shows. In
`ServerLoop` each thread that can go on does (weak fairness); the queue and
the pipe are shared, but signalled at every insertion, under their mutex. A
handler goes on only while `storage->access` is not left locked: then its step is
`HandlerBlocks`, which ends nothing, and a lock manager that is fair may
still end `blocked`. `RequestsServed` and `ShutdownCompletes` therefore speak of
behaviours in which no missing file is read (`leaked`). No
client has to send anything and no signal has to come. In `Api` the client and the
worker are weakly fair; the worker only as long as the server is not `stuck`, which
nothing excludes: the mutex left locked (`v_leak`) and the main thread in `read`
(`v_stall`) are both cases of it, and `CallsReturn` names the condition. The late
answer of the lock manager is not fair, since it depends on another client giving
the lock up.

### What the runs show

The passing runs show that the properties hold under conditions the
configurations make visible, and the code needs each of them:

- `QueueResolves`, `WriterPointerValid`, `OnlyOwnerRemoves` need paths in
  distinct buckets and no write larger than the capacity. `v_collision`: removing a
  file drops the others of its bucket (hash_map.c:148), of other owners too.
  An oversize write drops the mutex before it removes the file (worker.c:388), which
  another client may own by then.
- `BytesAccounted`, `WithinCapacity`, `ReplacementSucceeds` and `ImplementsFileCache` need that nothing is
  appended and the file limit is not reached. An append makes no space
  (worker.c:509), so `WithinCapacity` fails and a later replacement can run
  out of files; a file that was never written is not in the queue, and removing
  it, or expelling at the limit (worker.c:216, the queue was popped before),
  uncounts it and leaves it in the table, although removeFile reports success.
  `FilesCounted` is therefore an inequality.
- `NoWaiterForgotten` needs that nothing is removed: a removed or expelled file
  takes its waiting list with it, and the clients in it are never answered. `FreeLockGranted` is
  about queued files: the lock manager does not see a file that was created
  and never written.
- `WaitersBlocked` needs that no request is answered twice: a client with an answer to
  spare sends its next request while it is in a waiting list.
- `LockFieldsAgree`, `OnlyOwnerModifies` and `ImplementsLockService` hold for all
  requests, buckets and sizes, but the owner may change: `v_steal`, openFile with `O_LOCK` refuses its own lock and takes anyone else's.
- `v_leak`: readFile of a missing path returns with the mutex locked
  (worker.c:553); every later request waits for ever. In `RequestsServed` and
  `ShutdownCompletes` this is the disjunct `leaked`, in `CallsReturn` it is
  `stuck`: after such a read requests are taken no more once every worker
  waits, and neither the lock manager (server.c:443) nor the workers
  (server.c:463) can be joined.
- `RequestsServed` is checked with clients that are connected from the start and live, and
  needs that nobody connects later. `v_stall`: one number is
  read from `mw_pipe` per ready descriptor, so that a connection
  arriving together with a returned descriptor makes the main thread read
  twice, and block.
- `AnswersTaken` lists the calls that leave responses behind: an append, answered
  twice (worker.c:106); readNFiles, whose last response is never received
  (fileserver_api.c:352); and a call whose directory cannot be made, which returns
  before it receives the files. From then on every call takes the answer of an earlier one:
  `v_answers`, an append returns 0 before the server has looked at it. Up to that point
  `SuccessIsRealInStep` and `OpenedAgree` hold, and the answer of the lock
  manager, although it comes from another thread, is not mistaken for another.
- `SuccessIsRealInStep` has one exception: a removeFile that returns 0 although the file
  stays. A file that was never written is not in the eviction queue, so that
  storage.c:104 returns -1, which worker.c:673 ignores; fileserver_api.h:131 says "return
  0 if the file is correctly deleted, -1 otherwise". `unremoved` holds exactly these requests.
- `OpenedAgree` has one too: a write above the capacity is answered FILE_TOO_BIG and
  the file, if it had been written before, is removed (worker.c:386-394); the client is not
  told, and keeps it in its list (`dropped`).
- Behaviours the models have and no property states: a client whose server is gone
  reads success; a client that dies with a response unread takes the server with it
  (`ReceiveFails`); after SIGINT the workers leave, and the main thread, if it
  waits in the read of server.c:384, waits for ever (`ShutdownCompletes` is
  therefore about the time after the loop); when SIGHUP comes between
  `select` and the test of `accept_connection` (server.c:313) the listening
  socket itself goes to a worker, which fails to receive and dereferences NULL
  (action `ReceiveFails`); and SIGHUP without any connection does not stop the
  server, because the `continue` at server.c:303 skips the test at the end of the
  pass.

Every property of a passing run has a mutant in PROJECT.json, a plausible slip in one
definition (the "variants" in the modules), which breaks it.

## Proofs

A run checks one small instance, a theorem all of them. Nothing is assumed but
the named assumptions on the constants (`ClientAssumption`, `PathAssumption`,
`SizeAssumption`, `RequestsAssumption`, `WorkerAssumption`,
`DescriptorAssumption`, `ConnectionsAssumption`, `CallsAssumption`,
`BoundsAssumption`), which say what
the types of the code say: -1 is no descriptor, there are paths, the capacity fits
a `size_t`, requests are well formed, the pool is finite, descriptors are numbers above the three
the server opens. Where a theorem needs more, its statement says so: `NoCollision`
(paths in distinct buckets), `NoOversize` (no write above the capacity),
`AnsweredOnce` (no append and no readNFiles), `NoAppend`, `RoomForAll` (no more
paths than `max_files`), `NoWrap` (two sizes within the capacity add up to a
`size_t`), `NoRemoval` (no removeFile), `RoomForBytes` (every path at the largest
size written fits the capacity together), and `FilesKept`, a condition on the
behaviour: no file leaves the table. The runs satisfy the conditions of the
theorems about their properties: `replace` the five on buckets, sizes and files,
`locks` `AnsweredOnce`, and `waiters` all of them.

| theorem | module | states |
|---|---|---|
| `TypeCorrect` | `FileServerProofs` | `Spec => []TypeOK` |
| `LocksConsistent` | `LockProofs` | `Spec => []LockFieldsAgree` |
| `ContentsOwned` | `LockProofs` | `Spec => OnlyOwnerModifies` |
| `LocksImplemented` | `LockServiceProofs` | `Spec => ImplementsLockService` |
| `WaitersWait` | `LockServiceProofs` | `AnsweredOnce` gives `Spec => []WaitersBlocked` |
| `WaitersRemembered` | `LockServiceProofs` | `Spec /\ FilesKept => []NoWaiterForgotten` |
| `QueueAgrees` | `QueueProofs` | `NoCollision`, `NoOversize` give `Spec => []QueueResolves` |
| `PointerValid` | `QueueProofs` | `NoCollision`, `NoOversize` give `Spec => []WriterPointerValid` |
| `RemovalsOwned` | `AccountingProofs` | `NoCollision`, `NoOversize` give `Spec => OnlyOwnerRemoves` |
| `CountBounded` | `AccountingProofs` | `NoCollision`, `NoOversize` give `Spec => []FilesCounted` |
| `BytesCounted` | `AccountingProofs` | these two, `NoAppend`, `RoomForAll`, `NoWrap` give `Spec => []BytesAccounted` |
| `CapacityKept` | `AccountingProofs` | the same five give `Spec => []WithinCapacity` |
| `ReplacementFinds` | `AccountingProofs` | the same five give `Spec => []ReplacementSucceeds` |
| `CacheImplemented` | `AccountingProofs` | the same five give `Spec => ImplementsFileCache` |
| `FilesStay` | `AccountingProofs` | the same five, `NoRemoval`, `RoomForBytes` give `Spec => FilesKept` |
| `WaitersNotForgotten` | `AccountingProofs` | the same seven give `Spec => []NoWaiterForgotten` |
| `SetWatched` | `ServerLoopProofs` | `Spec => []FdMaxCovers` |
| `DescriptorInOnePlace` | `ServerLoopProofs` | `Spec => []OnePlace` |
| `ShutdownDrained` | `ServerLoopProofs` | `Spec => GracefulDrains` |
| `PoolTypeCorrect` | `ServerLoopProofs` | `Spec => []TypeOK` of `ServerLoop` |
| `TypeCorrect` | `ApiProofs` | `Spec => []TypeOK` of `Api` |
| `NoAnswerLeft` | `ApiProofs` | `Spec => []AnswersTaken` |
| `ZeroMeansDone` | `ApiProofs` | `Spec => []SuccessIsRealInStep` |
| `ListsAgree` | `ApiProofs` | `Spec => []OpenedAgree` |

*Types.* `TypeOK` of `FileServer` is inductive. `FileServerProofs` first gives the type
of the result of each operator of `Storage`, and the fields it leaves alone; the
steps follow handler by handler. That of `Api` needs two more facts: in a call
the client knows which (`CallKnown`), and what is opened is a path (`Opens`).

*Locks and contents.* `LockProofs` reduces each step of a handler to two facts:
`TableStep`, what it does to the table (nothing changes but by removal; or,
in a critical section, the file of the request is created, locked, unlocked or
appended to; or a writer puts its file back), and `ThreadStep`, what it does to
the thread that takes it. `LockFieldsAgree` is inductive once it also speaks of the
`file_t` a writer holds, which becomes a stored file later. For
`OnlyOwnerModifies` that is not enough: that the file put back is still
the one in the table needs `WriterHolds`. A writer holds `access`, and the file
it took out is the stored one *if it is still there*: the removal of an
oversize file, which takes no mutex, may remove it but cannot change it.
This is why both theorems need no condition on buckets or sizes.

*The lock service.* From the same two facts. `ThreadStep` and `WriterHolds` say that
`FileOf` of every path but the request's stays as it is or is lost (a
`Drop`); `TableStep` says what happens to the request's, in terms of its fields,
and `LockFieldsAgree` turns the flag the code tests into the owner the service
speaks of. That a writer is alone in its critical section is what makes the
mapping well defined: only then has a path one `FileOf`.

*Waiting clients.* `WaitersBlocked` alone is not inductive: it speaks of the
files in the table, and a file that was dropped comes back with its waiting list.
`Waiters` says it of the abstract waiting lists, and that a client has one
answer, one request in progress, or is silent. Each action of the service then
keeps it, because who acts is not silent, and who waits is. The lock manager answers the
heads of several lists at once; each is counted once because it
waits once.

Nobody forgotten: `NoWaiterForgotten` needs that the client in `lockFile` is in
a waiting list, which a lost file takes with it. Under `FilesKept` every step of the
server leaves the lists as they are, adds the client that asks, or takes away
the head of one and answers it. The condition is on the behaviour, so that the
theorem says exactly what the property depends on; `FilesStay` shows which
configurations guarantee it, and `WaitersNotForgotten` puts the two together.

*Queue and pointer.* `QueueResolves` is not inductive: a removal outside the mutex,
between two iterations of a replacement, would break it, and so would a
second file in the bucket of an expelled one. `NoCollision` (paths in distinct
buckets) and `NoOversize` (no write above the capacity) exclude the two, and both are
needed (see `v_collision` and the discussion above). The strengthening is
`WriterIsolated`: no worker is in the unlocked removal, or frees what a failed
readNFiles collected (`ReadNSucceeds`); a writer holds
`access`, and its file is in the table, as it took it, and never written yet,
hence not in the queue and not the one expelled; nothing but a list of files being
sent points to freed memory. The other handlers are shut out by `access`
(`ShutOut`).

*Removals and count.* Under the same invariant each step does one of three things to the
set of stored files (`Accounted`): leave it, add the file of the request,
or remove one file, which is the head of the queue, or owned by the client that asks.
`no_of_files` moves with it, except when it is decremented and the file stays.

*Bytes.* The sum of the sizes is the number of elements of `Bytes`, the set of all
bytes of all files, so that no proof needs a recursive sum: writing `n` bytes adds `n`
elements, removing a file takes its own. `Sized` is the invariant of one
storage: a file that was never written has no bytes, every other one is queued (so
that a queue that runs empty means a storage that is empty, and the next turn of
the replacement is not needed), and `current_size` is `Cardinality(Bytes)`, below
the capacity. `Counted` adds that no append is in progress and that what a writer
is about to put back fits the capacity; that its file is still in the table, fresh
and hence without bytes, is part of `WriterIsolated`. `NoAppend` is needed because an append makes no room; `RoomForAll` because
at the file limit the queue is popped before the removal looks into it, which
leaves a file that is in the table and not in the queue.

*The cache.* With these invariants the refinement is a case per handler. That nothing
happens during a write is `WriterIsolated`: who acts on a file in the mutex finds no writer
(`NoWrite`). That a file is expelled only when it must be, and no earlier than the older ones,
is `Sized` again: `current_size` is the space in use, the sum in the loop condition does not
wrap (`SpaceNeeded`), and expelling the head frees the bytes of that file and of no other
(`RemoveKeeps`).

*Room for everything.* `FilesStay` bounds every stored file, and what is being
written, by one size (`Light`). All bytes are then in a product of the paths
other than the writer's with that size, so the replacement never needs space
(`EnoughRoom`) and expels nothing; the other handlers remove nothing by `Accounted`.

*Descriptors.* `FdMaxCovers` is proved from `DescriptorsTyped`: everything that
travels through the set, the queue, the pipe and the workers is a descriptor or the
mark of a closed one. For `OnePlace`, `Located` says of each descriptor that it
occurs once in exactly one of the four, or in none when its connection is closed.
It needs two facts about the threads (`InHand`): what the scan has
still ahead of it in `rdset` is still in `set`, so that nothing is enqueued twice,
and a worker about to take a descriptor holds none. `GracefulDrains` follows from
`Counted`: `current_connections` is the number of open connections plus that of the
workers between closing one and updating the counter, hence zero only when nobody is
connected. `TypeOK` needs, beyond these, that `mw_pipe` never leaves
the set (so that counting `fd_max` down ends) and that a socket still ahead of the
scan has connections to accept.

*The conversation.* A response names no request, so what a call takes for its answer
depends on all that was sent before. `Conversation` says, for each point of a call, what is in
`Stream`, the responses on the socket followed by those the worker still has to write:
nothing between calls (`Silence`); while the client waits for the first response, its
request and nothing else (`Unserved`), or nothing while the lock manager has the answer
(`Waits`), or the whole answer (`Served`: `RefusedBy` or `AnsweredBy`); then the
files that were announced and one more (`Receiving`), then the last (`Finishing`).
The same formulas relate `opened_files` to the files the server has open, with
those still in the stream taken off. The invariant holds until a call returns
with something in the stream; `NothingToCome` in `Return` is what the proof
must exclude for all calls but the exempt ones. When the server ends, only
the responses that it sent are left, at most as many as the call will take
(`Remains`). That no file is listed twice (`Listed`) holds throughout, because a
file is opened only when it is not in the list.

Only model-checked: liveness (`RequestsComplete`,
`FreeLockGranted`, `RequestsServed`, `ShutdownCompletes`, `CallsReturn`), which is
out of the prover's reach.

## Not modelled

- Data races: the storage accesses outside the mutex (the oversize removal, the files freed
  by a failed readNFiles, the files being sent) interleave with the critical sections of
  other threads only as wholes.
- In `Api` a waiting-list place inherited from an earlier connection with the same descriptor
  (worker.c:67), whose grant would be an answer to no request of this client.
- Messages: a request or response is several writes and reads in the code, and a
  short read shifts everything after it (protocol.c:115); here it is one. The
  capacity of a socket is not modelled either, hence neither is a server that blocks
  because a client does not read.
- The links of list nodes and the chains of the map: sequences and functions stand
  for them. Of the linked list only what the server and the api call; insertion at the head
  or at an index and removal at the tail have no caller.
- Failed allocations, failed system calls other than those named above.
- At the server's start and end: configuration parsing, and the release of resources
  (`storage_destroy` frees the paths of the queue after the files they lie in).
- In the client: the parsing of the command line, the selection of files on disk, writing
  what was received; `openFile` and `closeFile` as calls of their own, and
  a second connection, which the client program never makes.
- Two clients that wait for each other's files: the sources neither order locks nor
  detect it, so there is nothing to state.
- The logger, which writes lines under its own mutex; input and output helpers;
  the test scripts.

## What is left

1. `FileServer` and `ServerLoop` composed, so that a job is no longer its client;
   today `OnePlace` justifies the identification.
2. The answers of `Api` generated by `FileServer` instead of chosen, for one client
   among several.
