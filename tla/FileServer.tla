---------------------------- MODULE FileServer -----------------------------
(***************************************************************************)
(* The request handlers of server/worker.c and the lock manager of         *)
(* server/lock_manager.c, over the shared storage.                         *)
(*                                                                         *)
(* One request of a client is handled by one worker, and the main loop     *)
(* listens to the client again only when that worker is done, so a job is  *)
(* identified by its client.  A critical section on storage->access is one *)
(* action; the code that touches the storage outside of the mutex is cut   *)
(* at every access, and the mutex is a variable because one section spans  *)
(* several steps and one is never left.                                    *)
(***************************************************************************)
EXTENDS Storage

CONSTANTS
    Requests,      \* the requests clients may send, a subset of Request
    NWorkers,      \* size of the thread pool
    \* bounds of the model: no request is sent beyond them
    CountBound,    \* no_of_files stays within -CountBound .. CountBound
    QueueBound,    \* nodes in fifo_queue
    FileBound,     \* size of a file that can still be appended to
    ReplyBound     \* replies a client has not consumed

Op == {"OPEN_FILE", "CLOSE_FILE", "WRITE_FILE", "APPEND_TO_FILE", "READ_FILE",
       "READ_N_FILES", "REMOVE_FILE", "LOCK_FILE", "UNLOCK_FILE"}

\* request_t; n stands for body_size, and for the number in the body of a
\* READ_N_FILES; flags is the body of an OPEN_FILE.
Request == [op    : Op,
            path  : Path,
            flags : SUBSET {"O_CREATE", "O_LOCK", "O_NOFLAG"},
            n     : Nat]

ASSUME RequestsAssumption == Requests \subseteq Request
ASSUME WorkersAssumption == NWorkers \in Nat \ {0}

VARIABLES
    storage,   \* storage_t
    access,    \* storage->access: the client whose worker holds it
    pc,        \* where the worker of each client is
    req,       \* the request it handles
    local,     \* its local variables
    replies,   \* responses sent to each client and not yet consumed by it
    up         \* FALSE once the process has died on a memory error

vars == <<storage, access, pc, req, local, replies, up>>

-----------------------------------------------------------------------------
NoRequest == [op |-> "CLOSE_FILE", path |-> CHOOSE p \in Path : TRUE,
              flags |-> {}, n |-> 0]

\* Locals that outlive a critical section, or span the steps of one.
Local == [file         : File,        \* *file of a writer, *to_remove of a removal
          list         : Seq(Path),   \* files_list of a READ_N_FILES
          freed        : BOOLEAN,     \* a file_t it points to, or the node's, is freed
          no_of_files  : Int,         \* values loaded by an unlocked update
          current_size : 0 .. (SizeMod - 1)]

NoLocal == [file |-> storage_create_file, list |-> <<>>, freed |-> FALSE,
            no_of_files |-> 0, current_size |-> 0]

\* The removal of an oversize file, which runs without the mutex.
Removing == {"too_big", "load_count", "store_count", "load_size", "store_size",
             "unlink", "unhash"}

Labels == Op \cup Removing \cup {"idle", "replace", "send_files", "free_files"}

TypeOK ==
    /\ IsStorage(storage)
    /\ access \in Client \cup {NoClient}
    /\ pc \in [Client -> Labels]
    /\ req \in [Client -> Request]
    /\ local \in [Client -> Local]
    /\ replies \in [Client -> Nat]
    /\ up \in BOOLEAN

\* Every client has opened its connection.
Init ==
    /\ storage = storage_create
    /\ access = NoClient
    /\ pc = [c \in Client |-> "idle"]
    /\ req = [c \in Client |-> NoRequest]
    /\ local = [c \in Client |-> NoLocal]
    /\ replies = [c \in Client |-> 1]
    /\ up = TRUE

-----------------------------------------------------------------------------
\* Helpers of the actions.

At(c, label) == up /\ pc[c] = label

\* A critical section, lock_return to unlock_return, in one step.
InMutex == access = NoClient /\ UNCHANGED access

\* lock_return and unlock_return of a critical section of several steps.
\* Variants: the mutex is released at once, or never.
TakeAndDrop(c) == InMutex
Lock(c) == access = NoClient /\ access' = c
NoUnlock == UNCHANGED access
Unlock == access' = NoClient

\* The handler returns a status and worker_thread sends k responses; the
\* worker writes the descriptor back to the main loop.
Return(c, k) ==
    /\ pc' = [pc EXCEPT ![c] = "idle"]
    /\ req' = [req EXCEPT ![c] = NoRequest]
    /\ replies' = [replies EXCEPT ![c] = @ + k]

Goto(c, label) ==
    /\ pc' = [pc EXCEPT ![c] = label]
    /\ UNCHANGED <<req, replies>>

Forget(c) == local' = [local EXCEPT ![c] = NoLocal]

\* The file_t of every path of P is freed: what still points to it dangles.
PointsTo(d, p) ==
    \/ /\ pc[d] \in {"replace", "load_count", "store_count", "load_size"}
       /\ req[d].path = p
    \/ pc[d] \in {"send_files", "free_files"} /\ \E i \in DOMAIN local[d].list : local[d].list[i] = p

Freeing(P) ==
    [d \in Client |-> IF \E p \in P : PointsTo(d, p)
                      THEN [local[d] EXCEPT !.freed = TRUE] ELSE local[d]]

\* The file c's request names, and the checks the handlers make on it.
File_(c) == storage.files[req[c].path]
Found(c) == req[c].path \in Stored(storage)
\* Variant: the owner is not compared.
NoOwnerCheck(c) == Found(c)
Owns(c) == Found(c) /\ File_(c).locked_by = c
\* Variant: whoever holds the lock will do.
SomeoneHoldsLock(c) == Found(c) /\ IsLocked(File_(c))
HoldsLock(c) == Owns(c) /\ IsLocked(File_(c))

\* SET_FLAG / CLR_FLAG of O_LOCK, locked_by, storage_update_file.
SetLock(c) ==
    storage' = storage_update_file(storage, req[c].path,
                 [File_(c) EXCEPT !.flags = @ \cup {"O_LOCK"}, !.locked_by = c])
\* Variant: the owner is not reset.
ClearFlagOnly(c) ==
    storage' = storage_update_file(storage, req[c].path,
                 [File_(c) EXCEPT !.flags = @ \ {"O_LOCK"}])
ClearLock(c) ==
    storage' = storage_update_file(storage, req[c].path,
                 [File_(c) EXCEPT !.flags = @ \ {"O_LOCK"}, !.locked_by = NoClient])

-----------------------------------------------------------------------------
\* Requests and connections

WithinBounds(c, r) ==
    /\ storage.no_of_files \in -CountBound .. CountBound
    /\ Len(storage.fifo_queue) <= QueueBound
    /\ replies[c] <= ReplyBound
    /\ r.op = "APPEND_TO_FILE" =>
          \A p \in Stored(storage) : storage.files[p].size + r.n <= FileBound

\* The api sends a request and consumes one answer per call, so a client that
\* has no answer left to consume is blocked in its last call.
worker_thread(c, r) ==
    /\ At(c, "idle")
    /\ replies[c] > 0
    /\ Cardinality({d \in Client : pc[d] # "idle"}) < NWorkers
    /\ WithinBounds(c, r)
    /\ pc' = [pc EXCEPT ![c] = r.op]
    /\ req' = [req EXCEPT ![c] = r]
    /\ replies' = [replies EXCEPT ![c] = @ - 1]
    /\ UNCHANGED <<storage, access, local, up>>

\* CLOSE_CONNECTION closes the descriptor; nothing in the storage that holds
\* it is updated, and the next connection gets the same number.
CloseConnection(c) ==
    /\ At(c, "idle")
    /\ replies[c] > 1
    /\ replies' = [replies EXCEPT ![c] = 1]
    /\ UNCHANGED <<storage, access, pc, req, local, up>>

-----------------------------------------------------------------------------
\* open_file_handler: one critical section per flag, in this order.

\* The handler goes on with the flags that are left, or returns.
OpenNext(c, flag) ==
    LET rest == req[c].flags \ {flag} IN
    IF rest = {} THEN Return(c, 1)
    ELSE /\ req' = [req EXCEPT ![c].flags = rest]
         /\ UNCHANGED <<pc, replies>>

MustReplace == storage.no_of_files + 1 > MaxFiles

OpenCreate(c) ==
    /\ At(c, "OPEN_FILE") /\ "O_CREATE" \in req[c].flags
    /\ InMutex
    /\ \/ /\ Found(c)                                       \* FILE_EXISTS
          /\ Return(c, 1)
          /\ UNCHANGED <<storage, local, up>>
       \/ /\ ~Found(c) /\ MustReplace /\ storage.fifo_queue = <<>>
          /\ Return(c, 1)                                   \* INTERNAL_ERROR
          /\ UNCHANGED <<storage, local, up>>
       \/ /\ ~Found(c) /\ MustReplace /\ storage.fifo_queue # <<>>
          /\ LET p      == Head(storage.fifo_queue)
                 popped == [storage EXCEPT !.fifo_queue = Tail(@)]
             IN  /\ \E o \in storage_remove_file(popped, p) :
                       /\ storage' = storage_add_file(o.st, req[c].path,
                                                      storage_create_file)
                       /\ up' = o.up
                 /\ local' = IF Queued(popped, p)
                             THEN Freeing({p} \cap Stored(storage)) ELSE local
          /\ OpenNext(c, "O_CREATE")
       \/ /\ ~Found(c) /\ ~MustReplace
          /\ storage' = storage_add_file(storage, req[c].path, storage_create_file)
          /\ OpenNext(c, "O_CREATE")
          /\ UNCHANGED <<local, up>>

OpenLock(c) ==
    /\ At(c, "OPEN_FILE")
    /\ "O_LOCK" \in req[c].flags /\ "O_CREATE" \notin req[c].flags
    /\ InMutex
    /\ IF ~Found(c) \/ HoldsLock(c)                 \* NOT_FOUND, UNAUTHORIZED
       THEN Return(c, 1) /\ UNCHANGED storage
       ELSE SetLock(c) /\ OpenNext(c, "O_LOCK")
    /\ UNCHANGED <<local, up>>

\* O_NOFLAG only looks the file up; without any flag nothing is looked up.
OpenNoFlag(c) ==
    /\ At(c, "OPEN_FILE") /\ req[c].flags \subseteq {"O_NOFLAG"}
    /\ IF req[c].flags = {} THEN UNCHANGED access ELSE InMutex
    /\ Return(c, 1)
    /\ UNCHANGED <<storage, local, up>>

close_file_handler(c) ==
    /\ At(c, "CLOSE_FILE")
    /\ InMutex
    /\ IF HoldsLock(c) THEN ClearLock(c) ELSE UNCHANGED storage
    /\ Return(c, 1)
    /\ UNCHANGED <<local, up>>

-----------------------------------------------------------------------------
\* write_file_handler

\* The requests it refuses: BAD_REQUEST (before the mutex is taken), NOT_FOUND,
\* UNAUTHORIZED, FILE_EXISTS.
WriteRefused(c) ==
    /\ At(c, "WRITE_FILE")
    /\ \/ req[c].n = 0 /\ UNCHANGED access
       \/ /\ req[c].n > 0 /\ InMutex
          /\ Owns(c) => req[c].n <= MaxSize /\ ~IsFresh(File_(c))
    /\ Return(c, 1)
    /\ UNCHANGED <<storage, local, up>>

\* FILE_TOO_BIG: the mutex is released, then the file is removed.
WriteTooBig(c) ==
    /\ At(c, "WRITE_FILE")
    /\ InMutex
    /\ Owns(c) /\ req[c].n > MaxSize
    /\ Goto(c, "too_big")
    /\ UNCHANGED <<storage, local, up>>

WriteAdmitted(c) ==
    /\ At(c, "WRITE_FILE")
    /\ Lock(c)
    /\ Owns(c) /\ IsFresh(File_(c)) /\ req[c].n \in 1 .. MaxSize
    /\ local' = [local EXCEPT ![c].file = File_(c)]
    /\ Goto(c, "replace")
    /\ UNCHANGED <<storage, up>>

\* An iteration of storage_FIFO_replace, which dies when there is no file to
\* expel.  The expelled files and their number are part of the client's answer.
storage_FIFO_replace(c) ==
    /\ At(c, "replace")
    /\ NeedsSpace(storage, req[c].n)
    /\ IF CanExpel(storage)
       THEN /\ storage' = Expel(storage)
            /\ local' = Freeing({Head(storage.fifo_queue)})
            /\ UNCHANGED up
       ELSE up' = FALSE /\ UNCHANGED <<storage, local>>
    /\ UNCHANGED <<access, pc, req, replies>>

\* The file is updated through the pointer obtained before the replacement.
WriteCommit(c) ==
    /\ At(c, "replace")
    /\ ~NeedsSpace(storage, req[c].n)
    /\ LET f == [local[c].file EXCEPT !.flags = @ \ {"O_CREATE"}, !.size = req[c].n]
       IN  storage' = [storage_update_file(storage, req[c].path, f) EXCEPT
                         !.fifo_queue   = Append(@, req[c].path),
                         !.current_size = (@ + req[c].n) % SizeMod]
    /\ up' \in (IF local[c].freed THEN BOOLEAN ELSE {TRUE})
    /\ Unlock
    /\ Return(c, 1) /\ Forget(c)

\* storage_remove_file without the mutex, one access at a time.

TooBigFind(c) ==
    /\ At(c, "too_big")
    /\ IF Found(c)
       THEN Goto(c, "load_count") /\ local' = [local EXCEPT ![c].file = File_(c)]
       ELSE Return(c, 1) /\ UNCHANGED local
    /\ UNCHANGED <<storage, access, up>>

\* no_of_files--
TooBigLoadCount(c) ==
    /\ At(c, "load_count")
    /\ local' = [local EXCEPT ![c].no_of_files = storage.no_of_files - 1]
    /\ Goto(c, "store_count")
    /\ UNCHANGED <<storage, access, up>>

TooBigStoreCount(c) ==
    /\ At(c, "store_count")
    /\ storage' = [storage EXCEPT !.no_of_files = local[c].no_of_files]
    /\ local' = [local EXCEPT ![c].no_of_files = 0]
    /\ Goto(c, "load_size")
    /\ UNCHANGED <<access, up>>

\* to_remove->size: anything once the file is freed; else as it was found, or as
\* an append of another client, its owner by now, left it.
SizeRead(c) ==
    IF local[c].freed THEN 0 .. (SizeMod - 1)
    ELSE {local[c].file.size}
         \cup {storage.files[p].size : p \in {req[c].path} \cap Stored(storage)}

TooBigLoadSize(c) ==
    /\ At(c, "load_size")
    /\ \E size \in SizeRead(c) :
          local' = [local EXCEPT ![c] = [NoLocal EXCEPT
                      !.current_size = (storage.current_size - size) % SizeMod]]
    /\ up' \in (IF local[c].freed THEN BOOLEAN ELSE {TRUE})
    /\ Goto(c, "store_size")
    /\ UNCHANGED <<storage, access>>

TooBigStoreSize(c) ==
    /\ At(c, "store_size")
    /\ storage' = [storage EXCEPT !.current_size = local[c].current_size]
    /\ Goto(c, "unlink") /\ Forget(c)
    /\ UNCHANGED <<access, up>>

\* list_remove_element; without a node for the path it fails and the removal
\* stops here.
TooBigUnlink(c) ==
    /\ At(c, "unlink")
    /\ IF Queued(storage, req[c].path)
       THEN /\ \E o \in UnlinkOutcomes(storage, req[c].path) :
                  /\ storage' = o.st
                  /\ local' = [Freeing({req[c].path}) EXCEPT ![c].freed = o.freed]
            /\ Goto(c, "unhash")
       ELSE Return(c, 1) /\ Forget(c) /\ UNCHANGED storage
    /\ UNCHANGED <<access, up>>

TooBigUnhash(c) ==
    /\ At(c, "unhash")
    /\ \E o \in UnhashOutcomes(storage, req[c].path, local[c].freed) :
          storage' = o.st /\ up' = o.up
    /\ Return(c, 1)
    /\ local' = [Freeing({req[c].path} \cap Stored(storage)) EXCEPT ![c] = NoLocal]
    /\ UNCHANGED access

TooBig(c) ==
    \/ TooBigFind(c)
    \/ TooBigLoadCount(c) \/ TooBigStoreCount(c)
    \/ TooBigLoadSize(c) \/ TooBigStoreSize(c)
    \/ TooBigUnlink(c) \/ TooBigUnhash(c)

-----------------------------------------------------------------------------
\* append_to_file_handler.  Its case in worker_thread has no break: after the
\* response the worker goes on with read_file_handler on the same request.

append_to_file_handler(c) ==
    /\ At(c, "APPEND_TO_FILE")
    /\ IF req[c].n = 0 \/ req[c].n > MaxSize        \* BAD_REQUEST, FILE_TOO_BIG
       THEN UNCHANGED <<access, storage>>
       ELSE /\ InMutex
            /\ IF ~Owns(c)                          \* NOT_FOUND, UNAUTHORIZED
               THEN UNCHANGED storage
               ELSE storage' =
                      [storage_update_file(storage, req[c].path,
                          [File_(c) EXCEPT !.size = @ + req[c].n])
                       EXCEPT !.current_size = (@ + req[c].n) % SizeMod]
    /\ pc' = [pc EXCEPT ![c] = "READ_FILE"]
    /\ replies' = [replies EXCEPT ![c] = @ + 1]
    /\ UNCHANGED <<req, local, up>>

\* read_file_handler returns NOT_FOUND without releasing the mutex.
read_file_handler(c) ==
    /\ At(c, "READ_FILE")
    /\ IF Found(c) THEN InMutex ELSE Lock(c)
    /\ Return(c, 1)
    /\ UNCHANGED <<storage, local, up>>

\* read_n_files_handler: the first n files of fifo_queue, every file if n is
\* out of range (the limit is max_size, not the number of files).
Wanted(c) == IF req[c].n \in 1 .. MaxSize THEN req[c].n ELSE MaxSize

ReadNCollect(c) ==
    /\ At(c, "READ_N_FILES")
    /\ InMutex
    /\ LET queue == storage.fifo_queue
           k     == IF Wanted(c) < Len(queue) THEN Wanted(c) ELSE Len(queue)
       IN  /\ \A i \in 1 .. k : queue[i] \in Stored(storage)
           /\ local' = [local EXCEPT ![c].list = SubSeq(queue, 1, k)]
    /\ Goto(c, "send_files")
    /\ UNCHANGED <<storage, up>>

\* A queued path the hash map has lost: INTERNAL_ERROR.
ReadNFails(c) ==
    /\ At(c, "READ_N_FILES")
    /\ InMutex
    /\ \E k \in 1 .. Len(storage.fifo_queue) :
          /\ k <= Wanted(c)
          /\ storage.fifo_queue[k] \notin Stored(storage)
          /\ \A i \in 1 .. (k - 1) : storage.fifo_queue[i] \in Stored(storage)
          /\ local' = [local EXCEPT ![c].list = SubSeq(storage.fifo_queue, 1, k - 1)]
    /\ Goto(c, "free_files")
    /\ UNCHANGED <<storage, up>>

\* The mutex is released and the response sent; then list_destroy frees the
\* stored files that were collected, one by one.  The key of each is freed with
\* it, like that of a file whose node is unlinked.
ReadNFree(c) ==
    /\ At(c, "free_files") /\ local[c].list # <<>>
    /\ LET p == Head(local[c].list) IN
       /\ storage' \in {storage, [storage EXCEPT !.files = KeyLost(@, p)]}
       /\ local' = [Freeing({p}) EXCEPT ![c].list = Tail(@)]
    /\ up' \in BOOLEAN
    /\ UNCHANGED <<access, pc, req, replies>>

ReadNFreed(c) ==
    /\ At(c, "free_files") /\ local[c].list = <<>>
    /\ Return(c, 1) /\ Forget(c)
    /\ UNCHANGED <<storage, access, up>>

\* The files are sent after the mutex is released; a file freed meanwhile is
\* read from freed memory.  The number, the files, and one more response.
ReadNSend(c) ==
    /\ At(c, "send_files")
    /\ up' \in (IF local[c].freed THEN BOOLEAN ELSE {TRUE})
    /\ Return(c, 2) /\ Forget(c)
    /\ UNCHANGED <<storage, access>>

-----------------------------------------------------------------------------
\* remove_file_handler, lock_file_handler, unlock_file_handler

remove_file_handler(c) ==
    /\ At(c, "REMOVE_FILE")
    /\ InMutex
    /\ \/ ~HoldsLock(c) /\ UNCHANGED <<storage, local, up>>
       \/ /\ HoldsLock(c)
          /\ \E o \in storage_remove_file(storage, req[c].path) :
                storage' = o.st /\ up' = o.up
          /\ local' = IF Queued(storage, req[c].path) THEN Freeing({req[c].path})
                      ELSE local
    /\ Return(c, 1)

\* A free lock is taken, a lock held by another client is waited for: AWAITING
\* is the one status that is not sent.
lock_file_handler(c) ==
    /\ At(c, "LOCK_FILE")
    /\ InMutex
    /\ \/ /\ ~Found(c) \/ HoldsLock(c)
          /\ Return(c, 1) /\ UNCHANGED storage
       \/ /\ Found(c) /\ ~IsLocked(File_(c))
          /\ SetLock(c) /\ Return(c, 1)
       \/ /\ Found(c) /\ IsLocked(File_(c)) /\ ~Owns(c)
          /\ storage' = storage_update_file(storage, req[c].path,
                          [File_(c) EXCEPT !.waiting_on_lock = Append(@, c)])
          /\ Return(c, 0)
    /\ UNCHANGED <<local, up>>

unlock_file_handler(c) ==
    /\ At(c, "UNLOCK_FILE")
    /\ InMutex
    /\ IF HoldsLock(c) THEN ClearLock(c) ELSE UNCHANGED storage
    /\ Return(c, 1)
    /\ UNCHANGED <<local, up>>

-----------------------------------------------------------------------------
\* lock_manager_thread: one pass over fifo_queue, up to the first path the
\* hash map does not find.

\* Variant: the scan starts after the head.
ScannedAfterHead ==
    {storage.fifo_queue[i] :
        i \in {j \in DOMAIN storage.fifo_queue :
                 j > 1 /\ \A k \in 1 .. j : storage.fifo_queue[k] \in Stored(storage)}}

Scanned ==
    {storage.fifo_queue[i] :
        i \in {j \in DOMAIN storage.fifo_queue :
                 \A k \in 1 .. j : storage.fifo_queue[k] \in Stored(storage)}}

Granted == {p \in Scanned : /\ ~IsLocked(storage.files[p])
                            /\ storage.files[p].waiting_on_lock # <<>>}

\* The first waiter leaves the list and gets the lock.
\* Variant: it stays in the list.
GrantAndKeep(f) ==
    [f EXCEPT !.flags = @ \cup {"O_LOCK"}, !.locked_by = Head(f.waiting_on_lock)]
Grant(f) ==
    [f EXCEPT !.flags           = @ \cup {"O_LOCK"},
              !.locked_by       = Head(f.waiting_on_lock),
              !.waiting_on_lock = Tail(@)]

\* The responses to a client.  Variant: none is sent.
NoAnswers(c) == 0
Answers(c) == Cardinality({p \in Granted : Head(storage.files[p].waiting_on_lock) = c})

lock_manager_thread ==
    /\ up
    /\ InMutex
    /\ Granted # {}
    /\ storage' = [storage EXCEPT !.files =
                     [p \in DOMAIN @ |-> IF p \in Granted THEN Grant(@[p]) ELSE @[p]]]
    /\ replies' = [c \in Client |-> replies[c] + Answers(c)]
    /\ UNCHANGED <<pc, req, local, access, up>>

-----------------------------------------------------------------------------
\* A step of the worker that serves c.
Handle(c) ==
    \/ OpenCreate(c) \/ OpenLock(c) \/ OpenNoFlag(c)
    \/ close_file_handler(c)
    \/ WriteRefused(c) \/ WriteTooBig(c) \/ WriteAdmitted(c)
    \/ storage_FIFO_replace(c) \/ WriteCommit(c)
    \/ TooBig(c)
    \/ append_to_file_handler(c) \/ read_file_handler(c)
    \/ ReadNCollect(c) \/ ReadNFails(c) \/ ReadNFree(c) \/ ReadNFreed(c) \/ ReadNSend(c)
    \/ remove_file_handler(c) \/ lock_file_handler(c) \/ unlock_file_handler(c)

Next ==
    \/ \E c \in Client, r \in Requests : worker_thread(c, r)
    \/ \E c \in Client : CloseConnection(c)
    \/ \E c \in Client : Handle(c)
    \/ lock_manager_thread

Spec == Init /\ [][Next]_vars

\* Clients send what they like; a worker that can go on does, and so does the
\* lock manager, which never sleeps.  Both contend for one pthread mutex, which
\* is granted to every thread that keeps asking for it.
FairSpec ==
    /\ Spec
    /\ \A c \in Client : SF_vars(Handle(c))
    /\ SF_vars(lock_manager_thread)

-----------------------------------------------------------------------------
\* The service of module LockService, implemented by the fields locked_by and
\* waiting_on_lock.  A file that is dropped from the table while its writer
\* makes room for it (by the unlocked removal of an oversize file) is still in
\* use: the writer puts it back.

Writing(c, p) == pc[c] = "replace" /\ req[c].path = p

FileOf(p) ==
    IF p \in Stored(storage) THEN storage.files[p]
    ELSE IF \E c \in Client : Writing(c, p)
         THEN local[CHOOSE c \in Client : Writing(c, p)].file
         ELSE storage_create_file

Owner == [p \in Path |-> FileOf(p).locked_by]
WaitingList == [p \in Path |-> FileOf(p).waiting_on_lock]
Busy == {c \in Client : pc[c] # "idle"}

Locks == INSTANCE LockService WITH
            owner <- Owner, waiting <- WaitingList, busy <- Busy

\* The service of module FileCache: the table, the queue, and the write of the
\* worker that is in its replacement.

Sizes == [p \in Stored(storage) |-> storage.files[p].size]
Writes == {<<req[c].path, req[c].n>> : c \in {d \in Client : pc[d] = "replace"}}

Cache == INSTANCE FileCache WITH
            Capacity <- MaxSize, size <- Sizes, order <- storage.fifo_queue,
            writing <- Writes

-----------------------------------------------------------------------------
\* Conditions on the configuration and on the requests under which more holds.

\* No two paths in use fall into the same bucket.
NoCollision == \A p, q \in Path : Hash[p] = Hash[q] => p = q

\* No write is larger than the whole storage.
NoOversize == \A r \in Requests : r.op = "WRITE_FILE" => r.n <= MaxSize

\* Nothing is appended: append_to_file_handler makes no room.
NoAppend == \A r \in Requests : r.op # "APPEND_TO_FILE"

\* The limit on the number of files is not reached.
RoomForAll == IsFiniteSet(Path) /\ Cardinality(Path) <= MaxFiles

\* The sum of two sizes within the capacity fits a size_t.
NoWrap == 2 * MaxSize < SizeMod

\* No file is ever removed, and the capacity is enough for all files at once.
NoRemoval == \A r \in Requests : r.op # "REMOVE_FILE"
RoomForBytes ==
    \E largest \in 0 .. MaxSize :
        /\ \A r \in Requests : r.op = "WRITE_FILE" => r.n <= largest
        /\ Cardinality(Path) * largest <= MaxSize

\* No file leaves the table: none is removed, expelled or dropped with its bucket.
FilesKept == [][Stored(storage) \subseteq Stored(storage')]_vars

\* No request is answered more than once.
AnsweredOnce == \A r \in Requests : r.op \notin {"APPEND_TO_FILE", "READ_N_FILES"}

-----------------------------------------------------------------------------
\* Properties.

\* The flag O_LOCK and the field locked_by, which the handlers write and test
\* separately (write and append test only the owner, lock only the flag), never
\* disagree about a stored file, nor in the file_t a writer is about to put back.
LockFieldsAgree ==
    /\ \A p \in Stored(storage) :
          IsLocked(storage.files[p]) <=> storage.files[p].locked_by # NoClient
    /\ \A c \in Client : pc[c] = "replace" =>
          IsLocked(local[c].file) /\ local[c].file.locked_by = c

\* fifo_queue and the hash map, two structures updated by separate calls that
\* can each fail: every queued path is found in the map, as a file that has been
\* written, and is queued once.  The eviction loop, readNFiles and the lock
\* manager all rely on it.
QueueResolves ==
    LET queue == storage.fifo_queue IN
    /\ \A i \in DOMAIN queue : /\ queue[i] \in Stored(storage)
                               /\ ~IsFresh(storage.files[queue[i]])
    /\ \A i, j \in DOMAIN queue : queue[i] = queue[j] => i = j

\* The file_t pointer a writer obtained before the replacement still is the
\* stored file, unchanged, when the writer updates and re-inserts it.
WriterPointerValid ==
    \A c \in Client : pc[c] = "replace" =>
        /\ access = c
        /\ Found(c) /\ File_(c) = local[c].file
        /\ ~local[c].freed

\* A client in a waiting list is blocked in lockFile (its worker is done and
\* nothing has been answered), it waits in one list, once, and never for a lock
\* it holds itself.
WaitersBlocked ==
    \A p \in Stored(storage) :
       LET queue == storage.files[p].waiting_on_lock IN
       \A i \in DOMAIN queue :
          /\ pc[queue[i]] = "idle" /\ replies[queue[i]] = 0
          /\ storage.files[p].locked_by # queue[i]
          /\ \A q \in Stored(storage) :
                \A j \in DOMAIN storage.files[q].waiting_on_lock :
                   storage.files[q].waiting_on_lock[j] = queue[i]
                      => p = q /\ i = j

Waiting(c) == \E p \in Stored(storage) :
                 \E i \in DOMAIN storage.files[p].waiting_on_lock :
                    storage.files[p].waiting_on_lock[i] = c

\* A client that was told nothing yet and has no worker is in some waiting list,
\* from which the lock manager can serve it: no AWAITING request is forgotten.
NoWaiterForgotten ==
    \A c \in Client : pc[c] = "idle" /\ replies[c] = 0 => Waiting(c)

\* current_size, which the handlers count up and down on their own, is the number
\* of bytes in the stored files, and stays within the capacity.
Bytes(files) == UNION {{p} \X (1 .. files[p].size) : p \in DOMAIN files}

BytesAccounted == storage.current_size = Cardinality(Bytes(storage.files))
WithinCapacity == storage.current_size <= MaxSize

\* no_of_files never counts a file that is not in the table.  (It may miss some:
\* storage_remove_file uncounts a file that was never written, and leaves it.)
FilesCounted == storage.no_of_files <= Cardinality(Stored(storage))

\* The replacement always finds a file to expel.
ReplacementSucceeds ==
    \A c \in Client :
       pc[c] = "replace" /\ NeedsSpace(storage, req[c].n) => CanExpel(storage)

\* The contents of a stored file change only in a write or an append of the
\* client that holds its lock.
OnlyOwnerModifies ==
    [][\A p \in Stored(storage) \cap Stored(storage)' :
          storage.files[p].size # storage'.files[p].size =>
             \E c \in Client :
                /\ storage.files[p].locked_by = c /\ storage'.files[p].locked_by = c
                /\ req[c].path = p
                /\ pc[c] \in {"replace", "APPEND_TO_FILE"}]_vars

\* A file leaves the table only when it is expelled as the oldest one to make
\* room, or removed in a request of the client that holds its lock: never as a
\* side effect of the removal of another file, or in the name of a former owner.
OnlyOwnerRemoves ==
    [][\A p \in Stored(storage) : p \notin DOMAIN storage'.files =>
          \E c \in Client :
             \/ /\ pc[c] = "replace"
                /\ storage.fifo_queue # <<>> /\ p = Head(storage.fifo_queue)
             \/ /\ pc[c] \in {"REMOVE_FILE", "unlink", "unhash"}
                /\ req[c].path = p /\ storage.files[p].locked_by = c]_vars

\* A lock passes from one client to another only after its owner gave it up.
LockNotStolen ==
    [][\A p \in Stored(storage) \cap Stored(storage)' :
          storage.files[p].locked_by # NoClient =>
             storage'.files[p].locked_by \in {storage.files[p].locked_by, NoClient}]_vars

\* Whatever the handlers, the eviction and the lock manager do, each of their
\* steps changes the locks of the files in one of the ways of LockService:
\* only its owner releases a lock, a client enters a waiting list last, in a
\* request of its own and while another client holds the lock, and leaves it
\* first, as the new owner, unless the file itself goes.
ImplementsLockService == Locks!Spec

\* The handlers together implement a FileCache.  The replacement, which takes one
\* step per expelled file, is not interrupted and expels exactly the oldest
\* files that have to go, although it counts their bytes in current_size, finds
\* them in fifo_queue and drops them from the hash map; fifo_queue is in the order
\* of the writes, and a removal leaves the rest of that order as it was.
ImplementsFileCache == Cache!Spec

\* Every request a worker has taken is eventually done with, unless the process
\* dies: no worker is stuck in the mutex, in the replacement or in a fallthrough.
RequestsComplete ==
    \A c \in Client : pc[c] # "idle" ~> (pc[c] = "idle" \/ ~up)

Contended(p) == /\ p \in Stored(storage)
                /\ ~IsLocked(storage.files[p])
                /\ storage.files[p].waiting_on_lock # <<>>

\* A queued file whose lock is free while clients wait for it is locked again,
\* unless it leaves the storage.
FreeLockGranted ==
    \A p \in Path : Contended(p) /\ Queued(storage, p) ~> (~Contended(p) \/ ~up)
=============================================================================
