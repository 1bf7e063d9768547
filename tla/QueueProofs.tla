----------------------------- MODULE QueueProofs -----------------------------
(***************************************************************************)
(* The eviction queue and the hash map agree, and the pointer of a writer  *)
(* survives the replacement, for every set of clients and paths, as long   *)
(* as no two paths share a bucket and no write exceeds the capacity.       *)
(***************************************************************************)
EXTENDS LockProofs

-----------------------------------------------------------------------------
\* QueueResolves for any storage.
Resolves(st) ==
    /\ \A i \in DOMAIN st.fifo_queue :
          st.fifo_queue[i] \in DOMAIN st.files /\ ~IsFresh(st.files[st.fifo_queue[i]])
    /\ \A i, j \in DOMAIN st.fifo_queue :
          st.fifo_queue[i] = st.fifo_queue[j] => i = j

LEMMA ResolvesStorage == QueueResolves <=> Resolves(storage)
BY DEF QueueResolves, Resolves, Stored

\* Every file but p is in the new table if it was in the old one, and stays
\* written if it was.
Stays(st, new, p) ==
    \A q \in DOMAIN st.files : q # p =>
       /\ q \in DOMAIN new.files
       /\ ~IsFresh(st.files[q]) => ~IsFresh(new.files[q])

LEMMA ResolvesSame ==
    ASSUME NEW st, NEW new, Resolves(st), new.fifo_queue = st.fifo_queue,
           \A q \in DOMAIN st.files :
              /\ q \in DOMAIN new.files
              /\ ~IsFresh(st.files[q]) => ~IsFresh(new.files[q])
    PROVE  Resolves(new)
BY DEF Resolves

\* The same when the table changes at a path that is not queued.
LEMMA ResolvesOutside ==
    ASSUME NEW st, NEW new, NEW p, Resolves(st), new.fifo_queue = st.fifo_queue,
           ~Queued(st, p), Stays(st, new, p)
    PROVE  Resolves(new)
BY DEF Resolves, Stays, Queued

\* The head, which occurs nowhere else, leaves the queue.
LEMMA ResolvesTail ==
    ASSUME NEW st, IsStorage(st), Resolves(st), st.fifo_queue # <<>>,
           NEW new, new.fifo_queue = Tail(st.fifo_queue),
           Stays(st, new, Head(st.fifo_queue))
    PROVE  Resolves(new) /\ ~Queued(new, Head(st.fifo_queue))
<1> DEFINE q == st.fifo_queue
           n == Len(q)
<1>1. /\ q \in Seq(Path) /\ n \in Nat /\ n > 0 /\ DOMAIN q = 1 .. n
    BY LenProperties, EmptySeq DEF IsStorage
<1>2. /\ Head(q) = q[1] /\ Tail(q) \in Seq(Path) /\ Len(Tail(q)) = n - 1
      /\ \A i \in 1 .. (n - 1) : Tail(q)[i] = q[i + 1]
    BY <1>1, HeadTailProperties
<1>3. DOMAIN Tail(q) = 1 .. (n - 1)
    BY <1>1, <1>2, LenProperties
<1> HIDE DEF n
<1>4. \A i \in 1 .. (n - 1) : i + 1 \in 1 .. n /\ 1 \in 1 .. n /\ i + 1 # 1
    BY <1>1
<1>5. \A i \in 1 .. (n - 1) : new.fifo_queue[i] = q[i + 1] /\ q[i + 1] # q[1]
    BY <1>1, <1>2, <1>4 DEF Resolves
<1>6. \A i \in 1 .. (n - 1) : q[i + 1] \in DOMAIN new.files /\ ~IsFresh(new.files[q[i + 1]])
    BY <1>1, <1>2, <1>4, <1>5 DEF Resolves, Stays
<1>7. \A i, j \in 1 .. (n - 1) : q[i + 1] = q[j + 1] => i = j
    <2> SUFFICES ASSUME NEW i \in 1 .. (n - 1), NEW j \in 1 .. (n - 1), q[i + 1] = q[j + 1]
                 PROVE  i = j
        OBVIOUS
    <2>1. i + 1 = j + 1
        BY <1>1, <1>4 DEF Resolves
    <2> QED
        BY <1>1, <2>1
<1> QED
    BY <1>2, <1>3, <1>5, <1>6, <1>7 DEF Resolves, Queued

\* A written file that is not queued is queued.
LEMMA ResolvesAppend ==
    ASSUME NEW st, IsStorage(st), Resolves(st), NEW p \in Path, ~Queued(st, p),
           NEW new, new.fifo_queue = Append(st.fifo_queue, p),
           Stays(st, new, p), p \in DOMAIN new.files, ~IsFresh(new.files[p])
    PROVE  Resolves(new)
<1> DEFINE q == st.fifo_queue
           n == Len(q)
<1>1. q \in Seq(Path) /\ n \in Nat /\ DOMAIN q = 1 .. n
    BY LenProperties DEF IsStorage
<1>2. /\ Append(q, p) \in Seq(Path) /\ Len(Append(q, p)) = n + 1
      /\ \A i \in 1 .. n : Append(q, p)[i] = q[i]
      /\ Append(q, p)[n + 1] = p
    BY <1>1, AppendProperties
<1>3. DOMAIN Append(q, p) = 1 .. (n + 1)
    BY <1>1, <1>2, LenProperties
<1> HIDE DEF n
<1>4. \A i \in 1 .. (n + 1) : i \in 1 .. n \/ i = n + 1
    BY <1>1
<1>5. \A i \in 1 .. n : q[i] # p
    BY <1>1 DEF Queued
<1>6. \A i \in 1 .. n : q[i] \in DOMAIN new.files /\ ~IsFresh(new.files[q[i]])
    BY <1>1, <1>5 DEF Resolves, Stays
<1>7. \A i, j \in 1 .. n : q[i] = q[j] => i = j
    BY <1>1 DEF Resolves
<1> QED
    BY <1>2, <1>3, <1>4, <1>5, <1>6, <1>7 DEF Resolves

\* A queued file leaves the table and, with its one node, the queue.
LEMMA ResolvesRemoved ==
    ASSUME NEW st, IsStorage(st), Resolves(st), NEW p \in Path, Queued(st, p),
           NEW new, new.fifo_queue = list_remove_element(st.fifo_queue, p),
           Stays(st, new, p)
    PROVE  Resolves(new)
<1> DEFINE q == st.fifo_queue
           n == Len(q)
<1>1. q \in Seq(Path) /\ n \in Nat /\ DOMAIN q = 1 .. n
    BY LenProperties DEF IsStorage
<1>2. PICK k \in 1 .. n : q[k] = p /\ new.fifo_queue = RemoveAt(q, k)
    <2>1. \E i \in 1 .. Len(q) : q[i] = p
        BY <1>1 DEF Queued
    <2> HIDE DEF q
    <2>2. PICK k \in 1 .. Len(q) : q[k] = p /\ list_remove_element(q, p) = RemoveAt(q, k)
        BY <1>1, <2>1, ListRemoveElement
    <2> QED
        BY <2>2 DEF q
<1> DEFINE r == RemoveAt(q, k)
           at(i) == IF i < k THEN i ELSE i + 1
<1>3. /\ r \in Seq(Path) /\ Len(r) = n - 1
      /\ \A i \in 1 .. (n - 1) : r[i] = IF i < k THEN q[i] ELSE q[i + 1]
    BY <1>1, RemoveAtProperties
<1>4. DOMAIN r = 1 .. (n - 1)
    BY <1>3, LenProperties
<1> HIDE DEF n, r
<1>5. \A i \in 1 .. (n - 1) : at(i) \in 1 .. n /\ at(i) # k /\ r[i] = q[at(i)]
    BY <1>1, <1>3
<1>6. \A i, j \in 1 .. (n - 1) : at(i) = at(j) => i = j
    BY <1>1
<1> HIDE DEF at
<1>7. \A i \in 1 .. n : i # k => q[i] # p
    BY <1>1, <1>2 DEF Resolves
<1>8. \A i \in 1 .. (n - 1) : r[i] \in DOMAIN new.files /\ ~IsFresh(new.files[r[i]])
    <2> TAKE i \in 1 .. (n - 1)
    <2>1. at(i) \in DOMAIN q /\ r[i] = q[at(i)] /\ r[i] # p
        BY <1>1, <1>5, <1>7
    <2> QED
        BY <2>1 DEF Resolves, Stays
<1>9. \A i, j \in 1 .. (n - 1) : r[i] = r[j] => i = j
    <2> SUFFICES ASSUME NEW i \in 1 .. (n - 1), NEW j \in 1 .. (n - 1), r[i] = r[j]
                 PROVE  i = j
        OBVIOUS
    <2>1. at(i) = at(j)
        BY <1>1, <1>5 DEF Resolves
    <2> QED
        BY <1>6, <2>1
<1> QED
    BY <1>2, <1>4, <1>8, <1>9 DEF Resolves, r

-----------------------------------------------------------------------------
\* With every path in a bucket of its own a removal takes one file.

LEMMA RemoveAlone ==
    ASSUME NoCollision, NEW st, IsStorage(st), NEW p \in Path,
           NEW new, \/ new.files = hash_map_remove(st.files, p)
                    \/ new.files = hash_map_remove(KeyLost(st.files, p), p)
    PROVE  Stays(st, new, p)
<1>1. DOMAIN st.files \subseteq Path
    BY DEF IsStorage, IsTable
<1>2. \A q \in DOMAIN st.files : q # p => Hash[q] # Hash[p]
    BY <1>1 DEF NoCollision
<1> QED
    BY <1>2 DEF Stays, hash_map_remove, KeyLost

\* storage_remove_file keeps the queue and the table in agreement.
LEMMA ResolvesRemoveFile ==
    ASSUME NoCollision, NEW st, IsStorage(st), Resolves(st), NEW p \in Path,
           NEW o \in storage_remove_file(st, p)
    PROVE  Resolves(o.st)
<1>1. CASE o.st.files = st.files /\ o.st.fifo_queue = st.fifo_queue
    BY <1>1, ResolvesSame
<1>2. CASE /\ Queued(st, p)
           /\ o.st.fifo_queue = list_remove_element(st.fifo_queue, p)
           /\ \/ o.st.files = hash_map_remove(st.files, p)
              \/ o.st.files = hash_map_remove(KeyLost(st.files, p), p)
    BY <1>2, RemoveAlone, ResolvesRemoved
<1> QED
    BY <1>1, <1>2, RemoveFile

-----------------------------------------------------------------------------
\* The inductive invariant: no worker is in the removal of an oversize file, or
\* frees files it collected; the one writer holds the mutex and an untouched file;
\* nothing else dangles.
Isolated(c) ==
    /\ pc[c] \notin Removing \cup {"free_files"}
    /\ pc[c] = "WRITE_FILE" => req[c].n <= MaxSize
    /\ pc[c] # "send_files" => ~local[c].freed
    /\ pc[c] = "replace" => /\ access = c /\ Found(c) /\ File_(c) = local[c].file
                            /\ IsFresh(File_(c))
WriterIsolated == \A c \in Client : Isolated(c)

LEMMA IsolatedSteps ==
    ASSUME NEW c \in Client, Isolated(c)
    PROVE  ~(TooBig(c) \/ ReadNFree(c) \/ ReadNFreed(c))
BY TooBigThread DEF Isolated, ReadNFree, ReadNFreed, At

\* Every queued path is found: a READ_N_FILES does not fail.
LEMMA ReadNSucceeds ==
    ASSUME TypeOK, QueueResolves, NEW c \in Client
    PROVE  ~ReadNFails(c)
<1>1. SUFFICES ASSUME ReadNFails(c)
               PROVE  FALSE
    OBVIOUS
<1>2. PICK k \in 1 .. Len(storage.fifo_queue) :
         storage.fifo_queue[k] \notin Stored(storage)
    BY <1>1 DEF ReadNFails
<1>3. k \in DOMAIN storage.fifo_queue
    BY LenProperties DEF TypeOK, IsStorage
<1> QED
    BY <1>2, <1>3 DEF QueueResolves

\* The queue: a file that is locked, unlocked or waited for stays as written as it
\* was.
LEMMA QueueLock ==
    ASSUME TypeOK, QueueResolves, NEW c \in Client, Found(c), NEW f \in File,
           IsFresh(f) <=> IsFresh(File_(c)),
           storage' = storage_update_file(storage, req[c].path, f)
    PROVE  Resolves(storage')
<1>1. req[c].path \in Path /\ IsStorage(storage)
    BY DEF TypeOK, Request
<1>2. /\ storage'.files = hash_map_insert(storage.files, req[c].path, f)
      /\ storage'.fifo_queue = storage.fifo_queue
    BY <1>1, UpdateFile
<1> QED
    BY <1>2, ResolvesStorage, ResolvesSame DEF hash_map_insert, File_, Found, Stored

LEMMA QueueSetClear ==
    ASSUME TypeOK, QueueResolves, NEW c \in Client, Found(c), SetLock(c) \/ ClearLock(c)
    PROVE  Resolves(storage')
<1> DEFINE f == [File_(c) EXCEPT !.flags = @ \cup {"O_LOCK"}, !.locked_by = c]
           g == [File_(c) EXCEPT !.flags = @ \ {"O_LOCK"}, !.locked_by = NoClient]
<1>1. File_(c) \in File
    BY StoredFile DEF TypeOK, Found, File_
<1>2. f \in File /\ (IsFresh(f) <=> IsFresh(File_(c)))
    BY <1>1 DEF File, IsFresh
<1>3. g \in File /\ (IsFresh(g) <=> IsFresh(File_(c)))
    BY <1>1 DEF File, IsFresh
<1>4. PICK h \in {f, g} : storage' = storage_update_file(storage, req[c].path, h)
    BY DEF SetLock, ClearLock
<1>5. h \in File /\ (IsFresh(h) <=> IsFresh(File_(c)))
    BY <1>2, <1>3, <1>4
<1> HIDE DEF f, g
<1> QED
    BY <1>4, <1>5, QueueLock

\* openFile: expelling the oldest file at the limit leaves it in the table, but
\* the queue still agrees with the table.
LEMMA QueueOpenCreate ==
    ASSUME NoCollision, TypeOK, QueueResolves, NEW c \in Client, OpenCreate(c)
    PROVE  Resolves(storage')
<1> DEFINE p == Head(storage.fifo_queue)
           popped == [storage EXCEPT !.fifo_queue = Tail(@)]
<1>0. IsStorage(storage) /\ req[c].path \in Path /\ Resolves(storage)
    BY ResolvesStorage DEF TypeOK, Request
<1>1. CASE UNCHANGED storage
    BY <1>0, <1>1
<1>2. CASE /\ ~Found(c) /\ storage.fifo_queue # <<>>
           /\ \E o \in storage_remove_file(popped, p) :
                 storage' = storage_add_file(o.st, req[c].path, storage_create_file)
    <2>1. p \in Path /\ Tail(storage.fifo_queue) \in Seq(Path)
        BY <1>0, <1>2, HeadTailProperties DEF IsStorage
    <2>2. popped = [files |-> storage.files, fifo_queue |-> Tail(storage.fifo_queue),
                    no_of_files |-> storage.no_of_files,
                    current_size |-> storage.current_size]
        BY <1>0, ExceptOne
    <2> HIDE DEF popped
    <2>3. popped.files = storage.files /\ popped.fifo_queue = Tail(storage.fifo_queue)
        BY <2>2
    <2>4. IsStorage(popped)
        BY <1>0, <2>1, <2>2, RecordType DEF IsStorage
    <2>5. Resolves(popped)
        BY <1>0, <1>2, <2>3, ResolvesTail DEF Stays
    <2> HIDE DEF p
    <2>6. PICK o \in storage_remove_file(popped, p) :
             storage' = storage_add_file(o.st, req[c].path, storage_create_file)
        BY <1>2
    <2>7. /\ IsStorage(o.st) /\ Resolves(o.st)
          /\ Kept(storage.files, o.st.files)
        BY <2>1, <2>3, <2>4, <2>5, <2>6, RemoveFile, ResolvesRemoveFile, KeptItself,
           KeptByRemoval
    <2>8. /\ storage'.files = hash_map_insert(o.st.files, req[c].path, storage_create_file)
          /\ storage'.fifo_queue = o.st.fifo_queue
        BY <1>0, <2>6, <2>7, AddFile, NewFileType
    <2>9. req[c].path \notin DOMAIN o.st.files
        BY <1>2, <2>7 DEF Kept, Found, Stored
    <2> QED
        BY <2>7, <2>8, <2>9, ResolvesSame DEF hash_map_insert
<1>3. CASE /\ ~Found(c)
           /\ storage' = storage_add_file(storage, req[c].path, storage_create_file)
    <2>1. /\ storage'.files =
               hash_map_insert(storage.files, req[c].path, storage_create_file)
          /\ storage'.fifo_queue = storage.fifo_queue
        BY <1>0, <1>3, AddFile, NewFileType
    <2> QED
        BY <1>0, <1>3, <2>1, ResolvesSame DEF hash_map_insert, Found, Stored
<1> HIDE DEF p, popped
<1> QED
    BY <1>1, <1>2, <1>3 DEF OpenCreate, p, popped

\* An iteration of the replacement, and the update after it.
LEMMA QueueWrite ==
    ASSUME NoCollision, TypeOK, QueueResolves, NEW c \in Client, Isolated(c),
           storage_FIFO_replace(c) \/ WriteCommit(c)
    PROVE  Resolves(storage')
<1>0. IsStorage(storage) /\ req[c].path \in Path /\ Resolves(storage)
    BY ResolvesStorage DEF TypeOK, Request
<1>1. CASE storage_FIFO_replace(c)
    <2>1. CASE UNCHANGED storage
        BY <1>0, <2>1
    <2>2. CASE CanExpel(storage) /\ storage' = Expel(storage)
        <3>1. Head(storage.fifo_queue) \in Path /\ storage.fifo_queue # <<>>
            BY <1>0, <2>2 DEF CanExpel, IsStorage, IsTable, Stored
        <3>2. /\ storage'.fifo_queue = Tail(storage.fifo_queue)
              /\ storage'.files = hash_map_remove(storage.files, Head(storage.fifo_queue))
            BY <1>0, <2>2, ExpelFile
        <3>3. Stays(storage, storage', Head(storage.fifo_queue))
            BY <1>0, <3>1, <3>2, RemoveAlone
        <3> QED
            BY <1>0, <3>1, <3>2, <3>3, ResolvesTail
    <2> QED
        BY <1>1, <2>1, <2>2 DEF storage_FIFO_replace
<1>2. CASE WriteCommit(c)
    <2> DEFINE p == req[c].path
               f == [local[c].file EXCEPT !.flags = @ \ {"O_CREATE"}, !.size = req[c].n]
               u == storage_update_file(storage, p, f)
    <2>1. local[c].file \in File /\ req[c].n \in Nat
        BY DEF TypeOK, Local, Request
    <2>2. f \in File /\ ~IsFresh(f)
        BY <2>1 DEF File, IsFresh
    <2>3. storage' = [u EXCEPT !.fifo_queue = Append(@, p),
                               !.current_size = (@ + req[c].n) % SizeMod]
        BY <1>2 DEF WriteCommit
    <2> HIDE DEF f
    <2>4. /\ IsStorage(u) /\ u.files = hash_map_insert(storage.files, p, f)
          /\ u.fifo_queue = storage.fifo_queue
        BY <1>0, <2>2, UpdateFile
    <2> HIDE DEF u
    <2>5. storage'.files = u.files /\ storage'.fifo_queue = Append(u.fifo_queue, p)
        BY <2>3, <2>4, SetQueueSize
    <2>6. IsFresh(storage.files[p])
        BY <1>2 DEF WriteCommit, At, Isolated, File_
    <2>7. ~Queued(storage, p)
        BY <1>0, <2>6 DEF Queued, Resolves
    <2>8. /\ Stays(storage, storage', p)
          /\ p \in DOMAIN storage'.files /\ ~IsFresh(storage'.files[p])
        BY <2>2, <2>4, <2>5 DEF Stays, hash_map_insert
    <2>9. storage'.fifo_queue = Append(storage.fifo_queue, p)
        BY <2>4, <2>5
    <2> HIDE DEF p
    <2> QED
        BY <1>0, <2>7, <2>8, <2>9, ResolvesAppend DEF p
<1> QED
    BY <1>1, <1>2

\* Every step of a handler.
LEMMA QueueHandle ==
    ASSUME NoCollision, TypeOK, QueueResolves, NEW c \in Client, Isolated(c), Handle(c)
    PROVE  QueueResolves'
<1>0. IsStorage(storage) /\ req[c].path \in Path /\ Resolves(storage)
    BY ResolvesStorage DEF TypeOK, Request
<1>1. CASE UNCHANGED storage
    BY <1>1 DEF QueueResolves, Stored
<1>2. CASE Found(c) /\ (SetLock(c) \/ ClearLock(c))
    BY <1>2, QueueSetClear DEF QueueResolves, Resolves, Stored
<1>3. CASE OpenCreate(c) \/ storage_FIFO_replace(c) \/ WriteCommit(c)
    BY <1>3, QueueOpenCreate, QueueWrite DEF QueueResolves, Resolves, Stored
<1>4. CASE append_to_file_handler(c)
    <2>1. CASE /\ Found(c)
               /\ storage' =
                     [storage_update_file(storage, req[c].path,
                         [File_(c) EXCEPT !.size = @ + req[c].n])
                      EXCEPT !.current_size = (@ + req[c].n) % SizeMod]
        <3> DEFINE f == [File_(c) EXCEPT !.size = @ + req[c].n]
                   u == storage_update_file(storage, req[c].path, f)
        <3>1. File_(c) \in File /\ req[c].n \in Nat
            BY <2>1, StoredFile DEF TypeOK, Request, Found, File_
        <3>2. f \in File /\ (IsFresh(f) <=> IsFresh(File_(c)))
            BY <3>1 DEF File, IsFresh
        <3>3. storage' = [u EXCEPT !.current_size = (@ + req[c].n) % SizeMod]
            BY <2>1
        <3> HIDE DEF f
        <3>4. /\ IsStorage(u) /\ u.files = hash_map_insert(storage.files, req[c].path, f)
              /\ u.fifo_queue = storage.fifo_queue
            BY <1>0, <3>2, UpdateFile
        <3> HIDE DEF u
        <3>5. storage'.files = u.files /\ storage'.fifo_queue = u.fifo_queue
            BY <3>3, <3>4, ExceptOne
        <3>6. \A q \in DOMAIN storage.files :
                 /\ q \in DOMAIN storage'.files
                 /\ ~IsFresh(storage.files[q]) => ~IsFresh(storage'.files[q])
            BY <2>1, <3>2, <3>4, <3>5 DEF hash_map_insert, File_, Found, Stored
        <3>7. storage'.fifo_queue = storage.fifo_queue
            BY <3>4, <3>5
        <3>8. Resolves(storage')
            BY <1>0, <3>6, <3>7, ResolvesSame
        <3> QED
            BY <3>8 DEF QueueResolves, Resolves, Stored
    <2> QED
        BY <1>1, <1>4, <2>1 DEF append_to_file_handler, Owns
<1>5. CASE lock_file_handler(c)
    <2>1. CASE Found(c) /\ storage' = storage_update_file(storage, req[c].path,
                   [File_(c) EXCEPT !.waiting_on_lock = Append(@, c)])
        <3> DEFINE f == [File_(c) EXCEPT !.waiting_on_lock = Append(@, c)]
        <3>1. File_(c) \in File
            BY <1>0, <2>1, StoredFile DEF Found, File_
        <3>2. Append(File_(c).waiting_on_lock, c) \in Seq(Client)
            BY <3>1, AppendProperties DEF File
        <3>3. f \in File /\ (IsFresh(f) <=> IsFresh(File_(c)))
            BY <3>1, <3>2 DEF File, IsFresh
        <3>4. storage' = storage_update_file(storage, req[c].path, f)
            BY <2>1
        <3> HIDE DEF f
        <3> QED
            BY <2>1, <3>3, <3>4, QueueLock DEF QueueResolves, Resolves, Stored
    <2> QED
        BY <1>1, <1>2, <1>5, <2>1 DEF lock_file_handler
<1>6. CASE remove_file_handler(c)
    <2>1. CASE \E o \in storage_remove_file(storage, req[c].path) : storage' = o.st
        BY <1>0, <2>1, ResolvesRemoveFile DEF QueueResolves, Resolves, Stored
    <2> QED
        BY <1>1, <1>6, <2>1 DEF remove_file_handler
<1>7. ~ReadNFails(c)
    BY ReadNSucceeds
<1>8. CASE OpenLock(c) \/ close_file_handler(c) \/ unlock_file_handler(c)
    <2>1. UNCHANGED storage \/ (Found(c) /\ (SetLock(c) \/ ClearLock(c)))
        BY <1>8 DEF OpenLock, close_file_handler, unlock_file_handler, HoldsLock, Owns
    <2> QED
        BY <1>1, <1>2, <2>1
<1>9. CASE \/ OpenNoFlag(c) \/ WriteRefused(c) \/ WriteTooBig(c) \/ WriteAdmitted(c)
           \/ read_file_handler(c) \/ ReadNCollect(c) \/ ReadNSend(c)
    BY <1>1, <1>9 DEF OpenNoFlag, WriteRefused, WriteTooBig, WriteAdmitted,
                      read_file_handler, ReadNCollect, ReadNSend
<1>10. ~(TooBig(c) \/ ReadNFree(c) \/ ReadNFreed(c))
    BY IsolatedSteps
<1> QED
    BY <1>3, <1>4, <1>5, <1>6, <1>7, <1>8, <1>9, <1>10 DEF Handle

-----------------------------------------------------------------------------
\* The writer stays isolated.

LEMMA FreedPointers ==
    ASSUME TypeOK, NEW P, NEW d \in Client, Freeing(P)[d].freed
    PROVE  \/ local[d].freed
           \/ pc[d] \in Removing \cup {"send_files", "free_files"}
           \/ pc[d] = "replace" /\ req[d].path \in P
BY DEF Freeing, PointsTo, Removing

\* While a writer holds the mutex, another handler changes nothing that the
\* writer looks at.
LEMMA ShutOut ==
    ASSUME TypeOK, NEW c \in Client, Handle(c), Isolated(c),
           pc[c] # "replace", access # NoClient
    PROVE  /\ UNCHANGED <<storage, access>>
           /\ \A d \in Client \ {c} : local'[d] = local[d]
<1>1. CASE \/ OpenCreate(c) \/ OpenLock(c) \/ close_file_handler(c) \/ WriteTooBig(c)
           \/ WriteAdmitted(c) \/ read_file_handler(c)
    BY <1>1 DEF OpenCreate, OpenLock, close_file_handler, WriteTooBig, WriteAdmitted,
                read_file_handler, InMutex, Lock
<1>2. CASE \/ ReadNCollect(c) \/ ReadNFails(c) \/ remove_file_handler(c)
           \/ lock_file_handler(c) \/ unlock_file_handler(c)
    BY <1>2 DEF ReadNCollect, ReadNFails, remove_file_handler, lock_file_handler,
                unlock_file_handler, InMutex
<1>3. CASE OpenNoFlag(c) \/ WriteRefused(c) \/ append_to_file_handler(c)
    BY <1>3 DEF OpenNoFlag, WriteRefused, append_to_file_handler, InMutex
<1>4. CASE ReadNSend(c)
    BY <1>4 DEF ReadNSend, Forget, TypeOK
<1>5. ~(storage_FIFO_replace(c) \/ WriteCommit(c))
    BY DEF storage_FIFO_replace, WriteCommit, At
<1>6. ~(TooBig(c) \/ ReadNFree(c) \/ ReadNFreed(c))
    BY IsolatedSteps
<1> QED
    BY <1>1, <1>2, <1>3, <1>4, <1>5, <1>6 DEF Handle

\* What the steps of c do to the mark on the file_t a worker points to.
LEMMA StaysUnfreed ==
    ASSUME TypeOK, NEW c \in Client, Handle(c), Isolated(c), NEW d \in Client,
           Isolated(d), pc[d] \notin {"replace", "send_files"}, ~local[d].freed
    PROVE  ~local'[d].freed
<1>0. local[d] \in Local
    BY DEF TypeOK
<1>1. CASE OpenCreate(c) \/ storage_FIFO_replace(c) \/ remove_file_handler(c)
    <2>1. UNCHANGED local \/ \E P : local' = Freeing(P)
        BY <1>1 DEF OpenCreate, storage_FIFO_replace, remove_file_handler
    <2> QED
        BY <2>1, FreedPointers DEF Isolated
<1>2. CASE \/ OpenLock(c) \/ OpenNoFlag(c) \/ close_file_handler(c) \/ WriteRefused(c)
           \/ WriteTooBig(c) \/ append_to_file_handler(c) \/ read_file_handler(c)
           \/ lock_file_handler(c) \/ unlock_file_handler(c)
    BY <1>2 DEF OpenLock, OpenNoFlag, close_file_handler, WriteRefused, WriteTooBig,
                append_to_file_handler, read_file_handler, lock_file_handler,
                unlock_file_handler
<1>3. CASE WriteAdmitted(c) \/ ReadNCollect(c) \/ ReadNFails(c)
    BY <1>0, <1>3 DEF WriteAdmitted, ReadNCollect, ReadNFails, TypeOK, Local
<1>4. CASE WriteCommit(c) \/ ReadNSend(c)
    <2>1. local' = [local EXCEPT ![c] = NoLocal]
        BY <1>4 DEF WriteCommit, ReadNSend, Forget
    <2>2. ~NoLocal.freed
        BY DEF NoLocal
    <2> QED
        BY <2>1, <2>2 DEF TypeOK
<1>5. ~(TooBig(c) \/ ReadNFree(c) \/ ReadNFreed(c))
    BY IsolatedSteps
<1> QED
    BY <1>1, <1>2, <1>3, <1>4, <1>5 DEF Handle

\* Where a step of c leads, unless it starts or continues a replacement.
LEMMA LeadsAway ==
    ASSUME TypeOK, QueueResolves, NEW c \in Client, Handle(c), Isolated(c),
           ~WriteAdmitted(c), ~storage_FIFO_replace(c)
    PROVE  pc'[c] \in {"idle", "OPEN_FILE", "READ_FILE", "send_files"}
<1>1. CASE OpenCreate(c) \/ OpenLock(c)
    BY <1>1 DEF OpenCreate, OpenLock, OpenNext, Return, At, TypeOK
<1>2. CASE \/ OpenNoFlag(c) \/ close_file_handler(c) \/ WriteRefused(c)
           \/ WriteCommit(c) \/ read_file_handler(c)
    BY <1>2 DEF OpenNoFlag, close_file_handler, WriteRefused, WriteCommit,
                read_file_handler, Return, TypeOK
<1>3. CASE \/ ReadNSend(c) \/ remove_file_handler(c)
           \/ lock_file_handler(c) \/ unlock_file_handler(c)
    BY <1>3 DEF ReadNSend, remove_file_handler, lock_file_handler,
                unlock_file_handler, Return, TypeOK
<1>4. CASE append_to_file_handler(c) \/ ReadNCollect(c)
    BY <1>4 DEF append_to_file_handler, ReadNCollect, Goto, TypeOK
<1>5. ~WriteTooBig(c)
    <2>1. req[c].n \in Nat
        BY DEF TypeOK, Request
    <2> QED
        BY <2>1, SizeAssumption DEF WriteTooBig, At, Isolated
<1>6. ~(TooBig(c) \/ ReadNFree(c) \/ ReadNFreed(c))
    BY IsolatedSteps
<1> QED
    BY <1>1, <1>2, <1>3, <1>4, <1>5, <1>6, ReadNSucceeds DEF Handle

\* The client that takes the step.
LEMMA OwnIsolated ==
    ASSUME NoCollision, TypeOK, QueueResolves, NEW c \in Client, Handle(c), Isolated(c)
    PROVE  Isolated(c)'
<1>1. CASE WriteAdmitted(c)
    <2>1. /\ access' = c /\ storage' = storage /\ req' = req
          /\ Found(c) /\ IsFresh(File_(c)) /\ pc[c] = "WRITE_FILE"
          /\ pc' = [pc EXCEPT ![c] = "replace"]
          /\ local' = [local EXCEPT ![c].file = File_(c)]
        BY <1>1 DEF WriteAdmitted, Lock, Goto, Owns, At
    <2>2. local[c] \in Local
        BY DEF TypeOK
    <2>3. local'[c].file = File_(c)
        BY <2>1, <2>2 DEF TypeOK, Local
    <2>4. ~local[c].freed
        BY <2>1 DEF Isolated
    <2>5. ~local'[c].freed
        BY <1>1, <2>1, <2>4, StaysUnfreed
    <2>6. pc'[c] = "replace"
        BY <2>1 DEF TypeOK
    <2> QED
        BY <2>1, <2>3, <2>5, <2>6 DEF Isolated, Removing, Found, File_, Stored
<1>2. CASE storage_FIFO_replace(c)
    <2> DEFINE p == Head(storage.fifo_queue)
    <2>1. /\ pc[c] = "replace" /\ UNCHANGED <<access, pc, req>>
          /\ \/ UNCHANGED <<storage, local>>
             \/ /\ CanExpel(storage) /\ storage' = Expel(storage)
                /\ local' = Freeing({p})
        BY <1>2 DEF storage_FIFO_replace, At
    <2>2. CASE UNCHANGED <<storage, local>>
        BY <2>1, <2>2 DEF Isolated, Found, File_, Stored
    <2>3. CASE /\ CanExpel(storage) /\ storage' = Expel(storage)
               /\ local' = Freeing({p})
        <3>0. IsStorage(storage) /\ Resolves(storage)
            BY ResolvesStorage DEF TypeOK
        <3>1. p \in Path /\ storage.fifo_queue # <<>>
            BY <3>0, <2>3 DEF CanExpel, IsStorage, IsTable, Stored
        <3>2. storage'.files = hash_map_remove(storage.files, p)
            BY <3>0, <2>3, ExpelFile
        <3>3. Stays(storage, storage', p) /\ Kept(storage.files, storage'.files)
            BY <3>0, <3>1, <3>2, RemoveAlone, KeptByRemoval
        <3>4. ~IsFresh(storage.files[p])
            <4>1. /\ storage.fifo_queue \in Seq(Path)
                  /\ Len(storage.fifo_queue) \in Nat /\ Len(storage.fifo_queue) > 0
                  /\ DOMAIN storage.fifo_queue = 1 .. Len(storage.fifo_queue)
                BY <3>0, <3>1, LenProperties, EmptySeq DEF IsStorage
            <4>2. p = storage.fifo_queue[1]
                BY <4>1, HeadTailProperties
            <4>3. 1 \in DOMAIN storage.fifo_queue
                BY <4>1
            <4> QED
                BY <3>0, <4>2, <4>3 DEF Resolves
        <3> HIDE DEF p
        <3>5. /\ Found(c) /\ File_(c) = local[c].file /\ IsFresh(File_(c))
              /\ access = c /\ ~local[c].freed
            BY <2>1 DEF Isolated
        <3>6. req[c].path # p
            BY <3>4, <3>5 DEF File_
        <3>7. Found(c)' /\ File_(c)' = File_(c)
            BY <2>1, <3>3, <3>5, <3>6 DEF Found, File_, Stored, Stays, Kept
        <3>8. local'[c].file = local[c].file
            BY <2>3, FreeingKeepsFiles
        <3>9. ~local'[c].freed
            BY <2>1, <2>3, <3>5, <3>6, FreedPointers DEF Removing
        <3> QED
            BY <2>1, <3>5, <3>7, <3>8, <3>9 DEF Isolated
    <2> QED
        BY <2>1, <2>2, <2>3
<1>3. CASE ~WriteAdmitted(c) /\ ~storage_FIFO_replace(c)
    <2>1. pc'[c] \in {"idle", "OPEN_FILE", "READ_FILE", "send_files"}
        BY <1>3, LeadsAway
    <2>2. CASE pc[c] \notin {"replace", "send_files"}
        <3>1. ~local'[c].freed
            BY <2>2, StaysUnfreed DEF Isolated
        <3> QED
            BY <2>1, <3>1 DEF Isolated, Removing
    <2>3. CASE pc[c] \in {"replace", "send_files"}
        <3>1. Forget(c)
            BY <1>3, <2>3, IsolatedSteps DEF Handle, At, OpenCreate, OpenLock, OpenNoFlag,
               close_file_handler, WriteRefused, WriteTooBig, WriteCommit,
               append_to_file_handler,
               read_file_handler, ReadNCollect, ReadNFails, ReadNSend,
               remove_file_handler, lock_file_handler, unlock_file_handler
        <3>2. ~local'[c].freed
            BY <3>1 DEF Forget, TypeOK, NoLocal
        <3> QED
            BY <2>1, <3>2 DEF Isolated, Removing
    <2> QED
        BY <2>2, <2>3
<1> QED
    BY <1>1, <1>2, <1>3

\* The other clients.
LEMMA OthersIsolated ==
    ASSUME TypeOK, NEW c \in Client, Handle(c), Isolated(c),
           NEW d \in Client \ {c}, Isolated(d)
    PROVE  Isolated(d)'
<1>1. pc'[d] = pc[d] /\ req'[d] = req[d]
    BY HandleStep DEF ThreadStep
<1>2. CASE pc[d] = "replace"
    <2>1. access = d /\ d # NoClient /\ pc[c] # "replace"
        BY <1>2, ClientAssumption DEF Isolated
    <2>2. UNCHANGED <<storage, access>> /\ local'[d] = local[d]
        BY <2>1, ShutOut
    <2> QED
        BY <1>1, <1>2, <2>2 DEF Isolated, Found, File_, Stored
<1>3. CASE pc[d] = "send_files"
    BY <1>1, <1>3 DEF Isolated
<1>4. CASE pc[d] \notin {"replace", "send_files"}
    <2>1. ~local'[d].freed
        BY <1>4, StaysUnfreed DEF Isolated
    <2> QED
        BY <1>1, <1>4, <2>1 DEF Isolated
<1> QED
    BY <1>2, <1>3, <1>4

-----------------------------------------------------------------------------
\* The invariant and its consequences.

LEMMA QueueStart == Init => QueueResolves /\ WriterIsolated
<1>1. DOMAIN storage_create.fifo_queue = {}
    BY EmptySeq, LenProperties DEF storage_create
<1> QED
    BY <1>1 DEF Init, QueueResolves, WriterIsolated, Isolated, Removing, NoLocal

LEMMA QueueNext ==
    ASSUME NoCollision, NoOversize, TypeOK, QueueResolves, WriterIsolated, [Next]_vars
    PROVE  QueueResolves' /\ WriterIsolated'
<1>1. CASE UNCHANGED vars
    BY <1>1 DEF vars, QueueResolves, WriterIsolated, Isolated, Found, File_, Stored
<1>2. ASSUME NEW c \in Client, NEW r \in Requests, worker_thread(c, r)
      PROVE  QueueResolves' /\ WriterIsolated'
    <2>1. /\ UNCHANGED <<storage, local, access>> /\ pc[c] = "idle"
          /\ pc' = [pc EXCEPT ![c] = r.op] /\ req' = [req EXCEPT ![c] = r]
        BY <1>2 DEF worker_thread, At
    <2>2. r.op \in Op /\ (r.op = "WRITE_FILE" => r.n <= MaxSize)
        BY RequestsAssumption DEF Request, NoOversize
    <2>3. pc'[c] = r.op /\ req'[c] = r
        BY <2>1 DEF TypeOK
    <2>4. ~local[c].freed
        BY <2>1 DEF WriterIsolated, Isolated
    <2>5. Isolated(c)'
        BY <2>1, <2>2, <2>3, <2>4 DEF Isolated, Removing, Op
    <2>6. \A d \in Client \ {c} : pc'[d] = pc[d] /\ req'[d] = req[d]
        BY <2>1 DEF TypeOK
    <2>7. \A d \in Client \ {c} : Isolated(d)'
        BY <2>1, <2>6 DEF WriterIsolated, Isolated, Found, File_, Stored
    <2> QED
        BY <2>1, <2>5, <2>7 DEF QueueResolves, WriterIsolated, Stored
<1>3. ASSUME NEW c \in Client, CloseConnection(c)
      PROVE  QueueResolves' /\ WriterIsolated'
    BY <1>3 DEF CloseConnection, QueueResolves, WriterIsolated, Isolated, Found, File_,
                Stored
<1>4. ASSUME NEW c \in Client, Handle(c)
      PROVE  QueueResolves' /\ WriterIsolated'
    <2>1. Isolated(c)
        BY DEF WriterIsolated
    <2>2. QueueResolves' /\ Isolated(c)'
        BY <1>4, <2>1, QueueHandle, OwnIsolated
    <2>3. \A d \in Client \ {c} : Isolated(d)'
        BY <1>4, <2>1, OthersIsolated DEF WriterIsolated
    <2> QED
        BY <2>2, <2>3 DEF WriterIsolated
<1>5. CASE lock_manager_thread
    <2>1. QueueResolves'
        BY <1>5, LockManagerStep, ResolvesStorage, ResolvesSame
           DEF QueueResolves, Resolves, Stored
    <2>2. access = NoClient /\ UNCHANGED <<access, pc, req, local>>
        BY <1>5, LockManagerStep
    <2>3. \A d \in Client : pc[d] # "replace"
        BY <2>2, ClientAssumption DEF WriterIsolated, Isolated
    <2> QED
        BY <2>1, <2>2, <2>3 DEF WriterIsolated, Isolated
<1> QED
    BY <1>1, <1>2, <1>3, <1>4, <1>5 DEF Next

LEMMA QueueInvariant ==
    ASSUME NoCollision, NoOversize
    PROVE  Spec => [](QueueResolves /\ WriterIsolated)
<1>1. Init => QueueResolves /\ WriterIsolated
    BY QueueStart
<1>2. TypeOK /\ QueueResolves /\ WriterIsolated /\ [Next]_vars
         => QueueResolves' /\ WriterIsolated'
    BY QueueNext
<1> QED
    BY <1>1, <1>2, TypeCorrect, PTL DEF Spec

\* Without collisions and oversize writes, every path the eviction loop, readNFiles
\* and the lock manager take from fifo_queue is in the hash map.
THEOREM QueueAgrees ==
    ASSUME NoCollision, NoOversize
    PROVE  Spec => []QueueResolves
BY QueueInvariant, PTL

\* Then the file_t that write_file_handler looked up before the replacement still
\* is the stored file when it is written to.
THEOREM PointerValid ==
    ASSUME NoCollision, NoOversize
    PROVE  Spec => []WriterPointerValid
<1>1. WriterIsolated => WriterPointerValid
    BY DEF WriterIsolated, Isolated, WriterPointerValid
<1> QED
    BY <1>1, QueueInvariant, PTL
=============================================================================
