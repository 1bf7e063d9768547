-------------------------- MODULE AccountingProofs --------------------------
(***************************************************************************)
(* What storage_t keeps of the table in numbers: which files leave it and  *)
(* how no_of_files counts them, and how current_size counts their bytes,   *)
(* for every set of clients and paths, as long as no two paths share a     *)
(* bucket and no write exceeds the capacity.  When all files fit, none     *)
(* leaves, and the clients that wait for one are not forgotten.            *)
(***************************************************************************)
EXTENDS QueueProofs, LockServiceProofs

-----------------------------------------------------------------------------
\* The three things a step of c does to the set of stored files: nothing, the
\* creation of the file of the request, the removal of one file, which is the
\* oldest one or belongs to c.
Unchanged == /\ DOMAIN storage'.files = DOMAIN storage.files
             /\ storage'.no_of_files <= storage.no_of_files

Created(c) == /\ ~Found(c)
              /\ DOMAIN storage'.files = DOMAIN storage.files \cup {req[c].path}
              /\ storage'.no_of_files <= storage.no_of_files + 1

Removed(c, p) ==
    /\ p \in DOMAIN storage.files
    /\ DOMAIN storage'.files = DOMAIN storage.files \ {p}
    /\ storage'.no_of_files = storage.no_of_files - 1
    /\ \/ /\ pc[c] = "replace"
          /\ storage.fifo_queue # <<>> /\ p = Head(storage.fifo_queue)
       \/ /\ pc[c] = "REMOVE_FILE"
          /\ req[c].path = p /\ storage.files[p].locked_by = c

Accounted(c) == Unchanged \/ Created(c) \/ \E p \in Path : Removed(c, p)

LEMMA RemovesOne ==
    ASSUME NoCollision, NEW st, IsStorage(st), NEW p \in DOMAIN st.files,
           NEW new, \/ new = hash_map_remove(st.files, p)
                    \/ new = hash_map_remove(KeyLost(st.files, p), p)
    PROVE  DOMAIN new = DOMAIN st.files \ {p}
<1>1. DOMAIN st.files \subseteq Path
    BY DEF IsStorage, IsTable
<1>2. \A q \in DOMAIN st.files : q # p <=> Hash[q] # Hash[p]
    BY <1>1 DEF NoCollision
<1>3. CASE new = hash_map_remove(st.files, p)
    BY <1>2, <1>3 DEF hash_map_remove
<1>4. CASE new = hash_map_remove(KeyLost(st.files, p), p)
    BY <1>4 DEF hash_map_remove, KeyLost
<1> QED
    BY <1>3, <1>4

LEMMA NumberTyped ==
    ASSUME TypeOK
    PROVE  storage.no_of_files \in Int /\ IsStorage(storage)
BY DEF TypeOK, IsStorage

LEMMA AccountedSame ==
    ASSUME TypeOK, NEW c, UNCHANGED storage
    PROVE  Accounted(c)
BY NumberTyped DEF Accounted, Unchanged

\* The update of a file that is there.
LEMMA AccountedUpdate ==
    ASSUME TypeOK, NEW c \in Client, Found(c), NEW f \in File,
           storage' = storage_update_file(storage, req[c].path, f)
    PROVE  Accounted(c)
<1>1. req[c].path \in Path
    BY DEF TypeOK, Request
<1>2. /\ storage'.files = hash_map_insert(storage.files, req[c].path, f)
      /\ storage'.no_of_files = storage.no_of_files
    BY <1>1, NumberTyped, UpdateFile
<1>3. DOMAIN storage'.files = DOMAIN storage.files
    BY <1>2 DEF hash_map_insert, Found, Stored
<1> QED
    BY <1>2, <1>3, NumberTyped DEF Accounted, Unchanged

LEMMA AccountedLock ==
    ASSUME TypeOK, NEW c \in Client, Found(c), SetLock(c) \/ ClearLock(c)
    PROVE  Accounted(c)
<1> DEFINE f == [File_(c) EXCEPT !.flags = @ \cup {"O_LOCK"}, !.locked_by = c]
           g == [File_(c) EXCEPT !.flags = @ \ {"O_LOCK"}, !.locked_by = NoClient]
<1>1. File_(c) \in File
    BY StoredFile DEF TypeOK, Found, File_
<1>2. f \in File /\ g \in File
    BY <1>1 DEF File
<1>3. \/ storage' = storage_update_file(storage, req[c].path, f)
      \/ storage' = storage_update_file(storage, req[c].path, g)
    BY DEF SetLock, ClearLock
<1> HIDE DEF f, g
<1> QED
    BY <1>2, <1>3, AccountedUpdate

\* openFile: the file that is expelled at the limit is not in the queue any more
\* when storage_remove_file looks for it, and stays in the table.
LEMMA AccountedCreate ==
    ASSUME TypeOK, QueueResolves, NEW c \in Client, OpenCreate(c)
    PROVE  Accounted(c)
<1> DEFINE p == Head(storage.fifo_queue)
           popped == [storage EXCEPT !.fifo_queue = Tail(@)]
<1>0. IsStorage(storage) /\ req[c].path \in Path /\ Resolves(storage)
    BY ResolvesStorage DEF TypeOK, Request
<1>1. CASE UNCHANGED storage
    BY <1>1, AccountedSame
<1>2. CASE /\ ~Found(c) /\ storage.fifo_queue # <<>>
           /\ \E o \in storage_remove_file(popped, p) :
                 storage' = storage_add_file(o.st, req[c].path, storage_create_file)
    <2>1. p \in Path /\ Tail(storage.fifo_queue) \in Seq(Path)
        BY <1>0, <1>2, HeadTailProperties DEF IsStorage
    <2>2. popped = [files |-> storage.files, fifo_queue |-> Tail(storage.fifo_queue),
                    no_of_files |-> storage.no_of_files,
                    current_size |-> storage.current_size]
        BY <1>0, ExceptOne
    <2> HIDE DEF popped
    <2>3. /\ popped.files = storage.files /\ popped.fifo_queue = Tail(storage.fifo_queue)
          /\ popped.no_of_files = storage.no_of_files
        BY <2>2
    <2>4. IsStorage(popped)
        BY <1>0, <2>1, <2>2, RecordType DEF IsStorage
    <2>5. ~Queued(popped, p)
        BY <1>0, <1>2, <2>3, ResolvesTail DEF Stays
    <2> HIDE DEF p
    <2>6. PICK o \in storage_remove_file(popped, p) :
             storage' = storage_add_file(o.st, req[c].path, storage_create_file)
        BY <1>2
    <2>7. /\ IsStorage(o.st) /\ o.st.files = storage.files
          /\ \/ o.st.no_of_files = storage.no_of_files
             \/ o.st.no_of_files = storage.no_of_files - 1
        BY <2>1, <2>3, <2>4, <2>5, <2>6, RemoveFile
    <2>8. /\ storage'.files = hash_map_insert(storage.files, req[c].path,
                                              storage_create_file)
          /\ storage'.no_of_files = o.st.no_of_files + 1
        BY <1>0, <2>6, <2>7, AddFile, NewFileType
    <2>9. DOMAIN storage'.files = DOMAIN storage.files \cup {req[c].path}
        BY <2>8 DEF hash_map_insert
    <2>10. storage'.no_of_files <= storage.no_of_files + 1
        BY <2>7, <2>8, NumberTyped
    <2> QED
        BY <1>2, <2>9, <2>10 DEF Accounted, Created
<1>3. CASE /\ ~Found(c)
           /\ storage' = storage_add_file(storage, req[c].path, storage_create_file)
    <2>1. /\ storage'.files =
               hash_map_insert(storage.files, req[c].path, storage_create_file)
          /\ storage'.no_of_files = storage.no_of_files + 1
        BY <1>0, <1>3, AddFile, NewFileType
    <2>2. DOMAIN storage'.files = DOMAIN storage.files \cup {req[c].path}
        BY <2>1 DEF hash_map_insert
    <2> QED
        BY <1>3, <2>1, <2>2, NumberTyped DEF Accounted, Created
<1> HIDE DEF p, popped
<1> QED
    BY <1>1, <1>2, <1>3 DEF OpenCreate, p, popped

\* The update that ends a write.
LEMMA CommitAccounted ==
    ASSUME TypeOK, NEW c \in Client, Isolated(c), WriteCommit(c)
    PROVE  Unchanged
<1>0. IsStorage(storage) /\ req[c].path \in Path
    BY DEF TypeOK, Request
<1> DEFINE p == req[c].path
           f == [local[c].file EXCEPT !.flags = @ \ {"O_CREATE"}, !.size = req[c].n]
           u == storage_update_file(storage, p, f)
<1>1. local[c].file \in File /\ req[c].n \in Nat
    BY DEF TypeOK, Local, Request
<1>2. f \in File
    BY <1>1 DEF File
<1>3. storage' = [u EXCEPT !.fifo_queue = Append(@, p),
                           !.current_size = (@ + req[c].n) % SizeMod]
    BY DEF WriteCommit
<1> HIDE DEF f
<1>4. /\ IsStorage(u) /\ u.files = hash_map_insert(storage.files, p, f)
      /\ u.no_of_files = storage.no_of_files
    BY <1>0, <1>2, UpdateFile
<1> HIDE DEF u
<1>5. storage'.files = u.files /\ storage'.no_of_files = u.no_of_files
    BY <1>3, <1>4, SetQueueSize
<1>6. p \in DOMAIN storage.files
    BY DEF WriteCommit, At, Isolated, Found, Stored
<1>7. DOMAIN storage'.files = DOMAIN storage.files
    BY <1>4, <1>5, <1>6 DEF hash_map_insert
<1> QED
    BY <1>4, <1>5, <1>7, NumberTyped DEF Unchanged

\* The replacement and the update after it.
LEMMA AccountedWrite ==
    ASSUME NoCollision, TypeOK, NEW c \in Client, Isolated(c),
           storage_FIFO_replace(c) \/ WriteCommit(c)
    PROVE  Accounted(c)
<1>0. IsStorage(storage) /\ req[c].path \in Path
    BY DEF TypeOK, Request
<1>1. CASE storage_FIFO_replace(c)
    <2>1. CASE UNCHANGED storage
        BY <2>1, AccountedSame
    <2>2. CASE CanExpel(storage) /\ storage' = Expel(storage)
        <3> DEFINE p == Head(storage.fifo_queue)
        <3>1. p \in DOMAIN storage.files /\ storage.fifo_queue # <<>> /\ p \in Path
            BY <1>0, <2>2 DEF CanExpel, IsStorage, IsTable, Stored
        <3>2. /\ storage'.files = hash_map_remove(storage.files, p)
              /\ storage'.no_of_files = storage.no_of_files - 1
            BY <1>0, <2>2, ExpelFile
        <3>3. DOMAIN storage'.files = DOMAIN storage.files \ {p}
            BY <1>0, <3>1, <3>2, RemovesOne
        <3>4. pc[c] = "replace"
            BY <1>1 DEF storage_FIFO_replace, At
        <3> QED
            BY <3>1, <3>2, <3>3, <3>4 DEF Accounted, Removed
    <2> QED
        BY <1>1, <2>1, <2>2 DEF storage_FIFO_replace
<1>2. CASE WriteCommit(c)
    BY <1>2, CommitAccounted DEF Accounted
<1> QED
    BY <1>1, <1>2

\* removeFile, by the owner of the file.
LEMMA AccountedRemove ==
    ASSUME NoCollision, TypeOK, NEW c \in Client, remove_file_handler(c)
    PROVE  Accounted(c)
<1>0. IsStorage(storage) /\ req[c].path \in Path
    BY DEF TypeOK, Request
<1>1. CASE UNCHANGED storage
    BY <1>1, AccountedSame
<1>2. CASE /\ HoldsLock(c)
           /\ \E o \in storage_remove_file(storage, req[c].path) : storage' = o.st
    <2> DEFINE p == req[c].path
    <2>1. PICK o \in storage_remove_file(storage, p) : storage' = o.st
        BY <1>2
    <2>2. /\ pc[c] = "REMOVE_FILE" /\ p \in DOMAIN storage.files
          /\ storage.files[p].locked_by = c
        BY <1>2 DEF remove_file_handler, At, HoldsLock, Owns, Found, File_, Stored
    <2> HIDE DEF p
    <2>3. storage'.no_of_files = storage.no_of_files - 1
        BY <1>0, <2>1, <2>2, RemoveFile DEF p, Stored
    <2>4. \/ storage'.files = storage.files
          \/ storage'.files = hash_map_remove(storage.files, p)
          \/ storage'.files = hash_map_remove(KeyLost(storage.files, p), p)
        BY <1>0, <2>1, RemoveFile DEF p
    <2>5. \/ storage'.files = storage.files
          \/ DOMAIN storage'.files = DOMAIN storage.files \ {p}
        BY <1>0, <2>2, <2>4, RemovesOne
    <2>6. p = req[c].path /\ p \in Path
        BY <1>0 DEF p
    <2> QED
        BY <2>2, <2>3, <2>5, <2>6, NumberTyped DEF Accounted, Unchanged, Removed
<1> QED
    BY <1>1, <1>2 DEF remove_file_handler

\* Every step of a handler.
LEMMA AccountedHandle ==
    ASSUME NoCollision, TypeOK, QueueResolves, NEW c \in Client, Isolated(c), Handle(c)
    PROVE  Accounted(c)
<1>0. IsStorage(storage) /\ req[c].path \in Path /\ Resolves(storage)
    BY ResolvesStorage DEF TypeOK, Request
<1>1. CASE OpenCreate(c) \/ storage_FIFO_replace(c) \/ WriteCommit(c) \/ remove_file_handler(c)
    BY <1>1, AccountedCreate, AccountedWrite, AccountedRemove
<1>2. CASE append_to_file_handler(c)
    <2>1. CASE /\ Found(c)
               /\ storage' =
                     [storage_update_file(storage, req[c].path,
                         [File_(c) EXCEPT !.size = @ + req[c].n])
                      EXCEPT !.current_size = (@ + req[c].n) % SizeMod]
        <3> DEFINE f == [File_(c) EXCEPT !.size = @ + req[c].n]
                   u == storage_update_file(storage, req[c].path, f)
        <3>1. File_(c) \in File /\ req[c].n \in Nat
            BY <2>1, StoredFile DEF TypeOK, Request, Found, File_
        <3>2. f \in File
            BY <3>1 DEF File
        <3>3. storage' = [u EXCEPT !.current_size = (@ + req[c].n) % SizeMod]
            BY <2>1
        <3> HIDE DEF f
        <3>4. /\ IsStorage(u) /\ u.files = hash_map_insert(storage.files, req[c].path, f)
              /\ u.no_of_files = storage.no_of_files
            BY <1>0, <3>2, UpdateFile
        <3> HIDE DEF u
        <3>5. storage'.files = u.files /\ storage'.no_of_files = u.no_of_files
            BY <3>3, <3>4, ExceptOne
        <3>6. DOMAIN storage'.files = DOMAIN storage.files
            BY <2>1, <3>4, <3>5 DEF hash_map_insert, Found, Stored
        <3> QED
            BY <3>4, <3>5, <3>6, NumberTyped DEF Accounted, Unchanged
    <2>2. CASE UNCHANGED storage
        BY <2>2, AccountedSame
    <2> QED
        BY <1>2, <2>1, <2>2 DEF append_to_file_handler, Owns
<1>3. CASE lock_file_handler(c)
    <2>1. CASE Found(c) /\ storage' = storage_update_file(storage, req[c].path,
                   [File_(c) EXCEPT !.waiting_on_lock = Append(@, c)])
        <3> DEFINE f == [File_(c) EXCEPT !.waiting_on_lock = Append(@, c)]
        <3>1. File_(c) \in File
            BY <1>0, <2>1, StoredFile DEF Found, File_
        <3>2. Append(File_(c).waiting_on_lock, c) \in Seq(Client)
            BY <3>1, AppendProperties DEF File
        <3>3. f \in File
            BY <3>1, <3>2 DEF File
        <3>4. storage' = storage_update_file(storage, req[c].path, f)
            BY <2>1
        <3> HIDE DEF f
        <3> QED
            BY <2>1, <3>3, <3>4, AccountedUpdate
    <2>2. CASE UNCHANGED storage
        BY <2>2, AccountedSame
    <2>3. CASE Found(c) /\ SetLock(c)
        BY <2>3, AccountedLock
    <2> QED
        BY <1>3, <2>1, <2>2, <2>3 DEF lock_file_handler
<1>4. ~ReadNFails(c)
    BY ReadNSucceeds
<1>5. CASE OpenLock(c) \/ close_file_handler(c) \/ unlock_file_handler(c)
    <2>1. UNCHANGED storage \/ (Found(c) /\ (SetLock(c) \/ ClearLock(c)))
        BY <1>5 DEF OpenLock, close_file_handler, unlock_file_handler, HoldsLock, Owns
    <2> QED
        BY <2>1, AccountedSame, AccountedLock
<1>6. CASE \/ OpenNoFlag(c) \/ WriteRefused(c) \/ WriteTooBig(c) \/ WriteAdmitted(c)
           \/ read_file_handler(c) \/ ReadNCollect(c) \/ ReadNSend(c)
    <2>1. UNCHANGED storage
        BY <1>6 DEF OpenNoFlag, WriteRefused, WriteTooBig, WriteAdmitted,
                    read_file_handler, ReadNCollect, ReadNSend
    <2> QED
        BY <2>1, AccountedSame
<1>7. ~(TooBig(c) \/ ReadNFree(c) \/ ReadNFreed(c))
    BY IsolatedSteps
<1> QED
    BY <1>1, <1>2, <1>3, <1>4, <1>5, <1>6, <1>7 DEF Handle

\* Every step of the server.
LEMMA AccountedNext ==
    ASSUME NoCollision, TypeOK, QueueResolves, WriterIsolated, [Next]_vars
    PROVE  Unchanged \/ \E c \in Client : Accounted(c)
<1>1. CASE UNCHANGED storage
    BY <1>1, NumberTyped DEF Unchanged
<1>2. ASSUME NEW c \in Client, Handle(c)
      PROVE  Accounted(c)
    BY <1>2, AccountedHandle DEF WriterIsolated
<1>3. CASE lock_manager_thread
    <2>1. DOMAIN storage'.files = DOMAIN storage.files
        BY <1>3, LockManagerStep
    <2>2. storage'.no_of_files = storage.no_of_files
        BY <1>3, ExceptOne, NumberTyped DEF lock_manager_thread
    <2> QED
        BY <2>1, <2>2, NumberTyped DEF Unchanged
<1> QED
    BY <1>1, <1>2, <1>3 DEF Next, vars, worker_thread, CloseConnection

-----------------------------------------------------------------------------
\* A file leaves the table when a writer expels it, as the oldest one, or when
\* the client that holds its lock removes it, and not as a side effect.
THEOREM RemovalsOwned ==
    ASSUME NoCollision, NoOversize
    PROVE  Spec => OnlyOwnerRemoves
<1> DEFINE A == \A p \in Stored(storage) : p \notin DOMAIN storage'.files =>
                   \E c \in Client :
                      \/ /\ pc[c] = "replace"
                         /\ storage.fifo_queue # <<>> /\ p = Head(storage.fifo_queue)
                      \/ /\ pc[c] \in {"REMOVE_FILE", "unlink", "unhash"}
                         /\ req[c].path = p /\ storage.files[p].locked_by = c
<1>1. TypeOK /\ QueueResolves /\ WriterIsolated /\ [Next]_vars => A
    <2> SUFFICES ASSUME TypeOK, QueueResolves, WriterIsolated, [Next]_vars
                 PROVE  A
        OBVIOUS
    <2>1. CASE Unchanged
        BY <2>1 DEF Unchanged, Stored
    <2>2. ASSUME NEW c \in Client, Created(c)
          PROVE  A
        BY <2>2 DEF Created, Stored
    <2>3. ASSUME NEW c \in Client, NEW p \in Path, Removed(c, p)
          PROVE  A
        BY <2>3 DEF Removed, Stored
    <2> QED
        BY <2>1, <2>2, <2>3, AccountedNext DEF Accounted
<1>2. TypeOK /\ QueueResolves /\ WriterIsolated /\ [Next]_vars => [A]_vars
    BY <1>1
<1> HIDE DEF A
<1>3. Spec => [][A]_vars
    BY <1>2, TypeCorrect, QueueInvariant, PTL DEF Spec
<1> QED
    BY <1>3 DEF OnlyOwnerRemoves, A

\* no_of_files never counts a file that is not in the table, so open_file_handler
\* never refuses or replaces because of files that are gone.
THEOREM CountBounded ==
    ASSUME NoCollision, NoOversize
    PROVE  Spec => []FilesCounted
<1> DEFINE Inv == IsFiniteSet(Stored(storage)) /\ FilesCounted
<1>1. Init => Inv
    <2> SUFFICES ASSUME Init
                 PROVE  Inv
        OBVIOUS
    <2>1. Stored(storage) = {} /\ storage.no_of_files = 0
        BY DEF Init, storage_create, Stored
    <2> QED
        BY <2>1, FS_EmptySet DEF FilesCounted
<1>2. TypeOK /\ TypeOK' /\ QueueResolves /\ WriterIsolated /\ Inv /\ [Next]_vars => Inv'
    <2> SUFFICES ASSUME TypeOK, TypeOK', QueueResolves, WriterIsolated, [Next]_vars, Inv
                 PROVE  Inv'
        OBVIOUS
    <2> DEFINE S == DOMAIN storage.files
               T == DOMAIN storage'.files
               m == storage.no_of_files
               n == storage'.no_of_files
    <2>1. /\ IsFiniteSet(S) /\ Cardinality(S) \in Nat
          /\ m <= Cardinality(S) /\ m \in Int /\ n \in Int
        BY NumberTyped, FS_CardinalityType DEF FilesCounted, Stored, TypeOK, IsStorage
    <2>2. CASE Unchanged
        <3>1. T = S /\ n <= m
            BY <2>2 DEF Unchanged
        <3> QED
            BY <2>1, <3>1 DEF FilesCounted, Stored
    <2>3. ASSUME NEW c \in Client, Created(c)
          PROVE  Inv'
        <3>1. T = S \cup {req[c].path} /\ req[c].path \notin S /\ n <= m + 1
            BY <2>3 DEF Created, Found, Stored
        <3>2. IsFiniteSet(T) /\ Cardinality(T) = Cardinality(S) + 1
            BY <2>1, <3>1, FS_AddElement
        <3>3. n <= Cardinality(T)
            BY <2>1, <3>1, <3>2
        <3> QED
            BY <3>2, <3>3 DEF FilesCounted, Stored
    <2>4. ASSUME NEW c \in Client, NEW p \in Path, Removed(c, p)
          PROVE  Inv'
        <3>1. T = S \ {p} /\ p \in S /\ n = m - 1
            BY <2>4 DEF Removed
        <3>2. IsFiniteSet(T) /\ Cardinality(T) = Cardinality(S) - 1
            BY <2>1, <3>1, FS_RemoveElement
        <3>3. n <= Cardinality(T)
            BY <2>1, <3>1, <3>2
        <3> QED
            BY <3>2, <3>3 DEF FilesCounted, Stored
    <2> QED
        BY <2>2, <2>3, <2>4, AccountedNext DEF Accounted
<1> QED
    BY <1>1, <1>2, TypeCorrect, QueueInvariant, PTL DEF Spec

-----------------------------------------------------------------------------
\* The bytes of the stored files.

\* The bytes of one file.
LEMMA CountBytes ==
    ASSUME NEW p, NEW n \in Nat
    PROVE  /\ IsFiniteSet({p} \X (1 .. n))
           /\ Cardinality({p} \X (1 .. n)) = n
<1> DEFINE f == [i \in 1 .. n |-> <<p, i>>]
<1>1. f \in Bijection(1 .. n, {p} \X (1 .. n))
    <2>1. f \in [1 .. n -> {p} \X (1 .. n)]
        OBVIOUS
    <2>2. \A i, j \in 1 .. n : f[i] = f[j] => i = j
        OBVIOUS
    <2>3. \A x \in {p} \X (1 .. n) : \E i \in 1 .. n : f[i] = x
        OBVIOUS
    <2> HIDE DEF f
    <2> QED
        BY <2>1, <2>2, <2>3 DEF Bijection, Injection, Surjection, IsInjective
<1>2. ExistsBijection(1 .. n, {p} \X (1 .. n))
    BY <1>1 DEF ExistsBijection
<1> QED
    BY <1>2, FS_NatBijection, FS_CountingElements

\* Two tables of which the second has n bytes more, all of them in p.
OneLarger(files, new, p, n) ==
    /\ p \in DOMAIN new /\ new[p].size = n
    /\ p \in DOMAIN files => files[p].size = 0
    /\ DOMAIN new \ {p} = DOMAIN files \ {p}
    /\ \A q \in DOMAIN files \ {p} : new[q].size = files[q].size

LEMMA BytesLarger ==
    ASSUME NEW files, NEW new, NEW p, NEW n \in Nat, OneLarger(files, new, p, n),
           IsFiniteSet(Bytes(files)) \/ IsFiniteSet(Bytes(new))
    PROVE  /\ IsFiniteSet(Bytes(files)) /\ IsFiniteSet(Bytes(new))
           /\ Cardinality(Bytes(new)) = Cardinality(Bytes(files)) + n
<1> DEFINE A == Bytes(files)
           B == Bytes(new)
           P == {p} \X (1 .. n)
<1>1. B = A \cup P
    <2>1. \A x : x \in B <=> \E q \in DOMAIN new : x \in {q} \X (1 .. new[q].size)
        BY DEF Bytes
    <2>2. \A x : x \in A <=> \E q \in DOMAIN files : x \in {q} \X (1 .. files[q].size)
        BY DEF Bytes
    <2>3. \A x : x \in {p} \X (1 .. 0) => FALSE
        OBVIOUS
    <2>4. ASSUME NEW x, x \in B
          PROVE  x \in A \cup P
        <3>1. PICK q \in DOMAIN new : x \in {q} \X (1 .. new[q].size)
            BY <2>1, <2>4
        <3>2. CASE q = p
            BY <3>1, <3>2 DEF OneLarger
        <3>3. CASE q # p
            BY <2>2, <3>1, <3>3 DEF OneLarger
        <3> QED
            BY <3>2, <3>3
    <2>5. ASSUME NEW x, x \in A
          PROVE  x \in B
        <3>1. PICK q \in DOMAIN files : x \in {q} \X (1 .. files[q].size)
            BY <2>2, <2>5
        <3>2. q # p
            BY <2>3, <3>1 DEF OneLarger
        <3> QED
            BY <2>1, <3>1, <3>2 DEF OneLarger
    <2>6. ASSUME NEW x \in P
          PROVE  x \in B
        BY <2>1 DEF OneLarger
    <2> QED
        BY <2>4, <2>5, <2>6
<1>2. A \cap P = {}
    <2> SUFFICES ASSUME NEW x \in A, x \in P
                 PROVE  FALSE
        OBVIOUS
    <2>1. PICK q \in DOMAIN files : x \in {q} \X (1 .. files[q].size)
        BY DEF Bytes
    <2>2. q = p
        BY <2>1
    <2>3. files[q].size = 0
        BY <2>2 DEF OneLarger
    <2> QED
        BY <2>1, <2>3
<1>3. IsFiniteSet(P) /\ Cardinality(P) = n
    BY CountBytes
<1> HIDE DEF A, B, P
<1>4. IsFiniteSet(A)
    <2>1. CASE IsFiniteSet(A)
        BY <2>1
    <2>2. CASE IsFiniteSet(B)
        BY <1>1, <2>2, FS_Subset
    <2> QED
        BY <2>1, <2>2 DEF A, B
<1>5. /\ IsFiniteSet(B)
      /\ Cardinality(B) = Cardinality(A) + Cardinality(P) - Cardinality(A \cap P)
    BY <1>1, <1>3, <1>4, FS_Union
<1>6. Cardinality(A \cap P) = 0 /\ Cardinality(A) \in Nat
    BY <1>2, <1>4, FS_EmptySet, FS_CardinalityType
<1>7. Cardinality(B) = Cardinality(A) + n
    BY <1>3, <1>5, <1>6
<1> QED
    BY <1>4, <1>5, <1>7 DEF A, B

\* When no file has a byte.
LEMMA NoBytes ==
    ASSUME NEW files, \A p \in DOMAIN files : files[p].size = 0
    PROVE  Bytes(files) = {}
<1> SUFFICES ASSUME NEW x \in Bytes(files)
             PROVE  FALSE
    OBVIOUS
<1>1. PICK p \in DOMAIN files : x \in {p} \X (1 .. files[p].size)
    BY DEF Bytes
<1>2. files[p].size = 0
    OBVIOUS
<1> QED
    BY <1>1, <1>2

-----------------------------------------------------------------------------
\* A storage whose current_size counts the bytes: exactly the files that were
\* written have any, and are queued.
Sized(st) ==
    /\ \A p \in DOMAIN st.files : IF IsFresh(st.files[p]) THEN st.files[p].size = 0
                                  ELSE Queued(st, p)
    /\ IsFiniteSet(Bytes(st.files))
    /\ st.current_size = Cardinality(Bytes(st.files))
    /\ st.current_size <= MaxSize

\* What an operation does to the sizes of files, and whether they were written.
Alike(f, g) == g.size = f.size /\ (IsFresh(g) <=> IsFresh(f))

SizesKept(st, new) ==
    /\ DOMAIN new.files = DOMAIN st.files
    /\ \A q \in DOMAIN st.files : Alike(st.files[q], new.files[q])
    /\ new.fifo_queue = st.fifo_queue
    /\ new.current_size = st.current_size

SizesKeptBut(st, new, p) ==
    /\ DOMAIN new.files \ {p} = DOMAIN st.files \ {p}
    /\ \A q \in DOMAIN st.files \ {p} :
          /\ Alike(st.files[q], new.files[q])
          /\ Queued(st, q) => Queued(new, q)

Grown(st, new, p, n) ==
    /\ SizesKeptBut(st, new, p)
    /\ p \in DOMAIN st.files => st.files[p].size = 0
    /\ p \in DOMAIN new.files /\ new.files[p].size = n
    /\ IF IsFresh(new.files[p]) THEN n = 0 ELSE Queued(new, p)
    /\ new.current_size = (st.current_size + n) % SizeMod

Shrunk(st, new, p) ==
    /\ SizesKeptBut(st, new, p)
    /\ p \in DOMAIN st.files /\ p \notin DOMAIN new.files
    /\ new.current_size = (st.current_size - st.files[p].size) % SizeMod

\* Arithmetic of size_t within its range.
LEMMA Unwrapped ==
    ASSUME NEW x \in Int, 0 <= x, x < SizeMod
    PROVE  x % SizeMod = x
BY SizeAssumption

LEMMA SizedKept ==
    ASSUME NEW st, NEW new, Sized(st), SizesKept(st, new)
    PROVE  Sized(new)
<1>1. Bytes(new.files) = Bytes(st.files)
    BY DEF Bytes, SizesKept, Alike
<1>2. \A p : Queued(st, p) <=> Queued(new, p)
    BY DEF Queued, SizesKept
<1> QED
    BY <1>1, <1>2 DEF Sized, SizesKept, Alike

LEMMA SizedGrown ==
    ASSUME NEW st, NEW new, NEW p, NEW n \in Nat, Sized(st), Grown(st, new, p, n),
           st.current_size + n <= MaxSize
    PROVE  Sized(new)
<1>1. OneLarger(st.files, new.files, p, n)
    BY DEF OneLarger, Grown, SizesKeptBut, Alike
<1>2. /\ IsFiniteSet(Bytes(new.files))
      /\ Cardinality(Bytes(new.files)) = Cardinality(Bytes(st.files)) + n
    BY <1>1, BytesLarger DEF Sized
<1>3. st.current_size \in Nat
    BY FS_CardinalityType DEF Sized
<1>4. new.current_size = st.current_size + n
    BY <1>3, Unwrapped, SizeAssumption DEF Grown
<1>5. \A q \in DOMAIN new.files : IF IsFresh(new.files[q]) THEN new.files[q].size = 0
                                  ELSE Queued(new, q)
    BY DEF Sized, Grown, SizesKeptBut, Alike
<1> QED
    BY <1>2, <1>4, <1>5 DEF Sized

LEMMA SizedShrunk ==
    ASSUME NEW st, IsStorage(st), NEW new, NEW p, Sized(st), Shrunk(st, new, p)
    PROVE  Sized(new)
<1> DEFINE n == st.files[p].size
<1>0. n \in Nat
    BY DEF Shrunk, IsStorage, IsTable, File
<1>1. OneLarger(new.files, st.files, p, n)
    BY DEF OneLarger, Shrunk, SizesKeptBut, Alike
<1> HIDE DEF n
<1>2. /\ IsFiniteSet(Bytes(new.files))
      /\ Cardinality(Bytes(st.files)) = Cardinality(Bytes(new.files)) + n
    BY <1>0, <1>1, BytesLarger DEF Sized
<1>3. Cardinality(Bytes(new.files)) \in Nat /\ st.current_size \in Nat
    BY <1>2, FS_CardinalityType DEF Sized
<1>4. new.current_size = Cardinality(Bytes(new.files))
    <2>1. /\ st.current_size - n = Cardinality(Bytes(new.files))
          /\ st.current_size - n < SizeMod
        BY <1>0, <1>2, <1>3, SizeAssumption DEF Sized
    <2> QED
        BY <1>0, <1>3, <2>1, Unwrapped DEF Shrunk, n
<1>5. \A q \in DOMAIN new.files : IF IsFresh(new.files[q]) THEN new.files[q].size = 0
                                  ELSE Queued(new, q)
    BY DEF Sized, Shrunk, SizesKeptBut, Alike
<1>6. new.current_size <= MaxSize
    BY <1>0, <1>2, <1>3, <1>4, SizeAssumption DEF Sized
<1> QED
    BY <1>2, <1>4, <1>5, <1>6 DEF Sized
-----------------------------------------------------------------------------
\* The other nodes of the queue stay when one is unlinked or added.

LEMMA TailKeeps ==
    ASSUME NEW st, IsStorage(st), st.fifo_queue # <<>>,
           NEW new, new.fifo_queue = Tail(st.fifo_queue),
           NEW q, q # Head(st.fifo_queue), Queued(st, q)
    PROVE  Queued(new, q)
<1> DEFINE s == st.fifo_queue
<1>1. s \in Seq(Path) /\ Len(s) \in Nat /\ DOMAIN s = 1 .. Len(s)
    BY LenProperties DEF IsStorage
<1>2. PICK i \in 1 .. Len(s) : s[i] = q
    BY <1>1 DEF Queued
<1>3. /\ s # <<>> /\ Head(s) = s[1] /\ Tail(s) \in Seq(Path)
      /\ Len(Tail(s)) = Len(s) - 1
      /\ \A j \in 1 .. Len(Tail(s)) : Tail(s)[j] = s[j + 1]
    BY <1>1, HeadTailProperties
<1>4. DOMAIN Tail(s) = 1 .. Len(Tail(s))
    BY <1>3, LenProperties
<1>5. i # 1
    BY <1>2, <1>3
<1> HIDE DEF s
<1>6. i - 1 \in 1 .. Len(Tail(s)) /\ Tail(s)[i - 1] = q
    BY <1>1, <1>2, <1>3, <1>5
<1> QED
    BY <1>4, <1>6 DEF Queued, s

LEMMA UnlinkKeeps ==
    ASSUME NEW st, IsStorage(st), NEW p \in Path, Queued(st, p),
           NEW new, new.fifo_queue = list_remove_element(st.fifo_queue, p),
           NEW q, q # p, Queued(st, q)
    PROVE  Queued(new, q)
<1> DEFINE s == st.fifo_queue
<1>1. s \in Seq(Path) /\ Len(s) \in Nat /\ DOMAIN s = 1 .. Len(s)
    BY LenProperties DEF IsStorage
<1>2. PICK i \in 1 .. Len(s) : s[i] = q
    BY <1>1 DEF Queued
<1>3. \E k \in 1 .. Len(s) : s[k] = p
    BY <1>1 DEF Queued
<1> HIDE DEF s
<1>4. PICK k \in 1 .. Len(s) : s[k] = p /\ list_remove_element(s, p) = RemoveAt(s, k)
    BY <1>1, <1>3, ListRemoveElement
<1> DEFINE r == RemoveAt(s, k)
           at == IF i < k THEN i ELSE i - 1
<1>5. /\ r \in Seq(Path) /\ Len(r) = Len(s) - 1
      /\ \A j \in 1 .. (Len(s) - 1) : r[j] = IF j < k THEN s[j] ELSE s[j + 1]
    BY <1>1, RemoveAtProperties
<1>6. DOMAIN r = 1 .. (Len(s) - 1)
    BY <1>5, LenProperties
<1>7. i # k
    BY <1>2, <1>4
<1> HIDE DEF r
<1>8. at \in 1 .. (Len(s) - 1) /\ r[at] = q
    BY <1>1, <1>2, <1>5, <1>7
<1> QED
    BY <1>4, <1>6, <1>8 DEF Queued, r, s

LEMMA AppendKeeps ==
    ASSUME NEW st, IsStorage(st), NEW p \in Path,
           NEW new, new.fifo_queue = Append(st.fifo_queue, p)
    PROVE  Queued(new, p) /\ \A q : Queued(st, q) => Queued(new, q)
<1> DEFINE s == st.fifo_queue
<1>1. s \in Seq(Path) /\ Len(s) \in Nat /\ DOMAIN s = 1 .. Len(s)
    BY LenProperties DEF IsStorage
<1>2. /\ Append(s, p) \in Seq(Path) /\ Len(Append(s, p)) = Len(s) + 1
      /\ \A i \in 1 .. Len(s) : Append(s, p)[i] = s[i]
      /\ Append(s, p)[Len(s) + 1] = p
    BY <1>1, AppendProperties
<1>3. DOMAIN Append(s, p) = 1 .. (Len(s) + 1)
    BY <1>2, LenProperties
<1> HIDE DEF s
<1>4. Len(s) + 1 \in DOMAIN Append(s, p) /\ \A i \in DOMAIN s : i \in DOMAIN Append(s, p)
    BY <1>1, <1>3
<1> QED
    BY <1>1, <1>2, <1>4 DEF Queued, s

\* With every path in a bucket of its own, the other files are untouched.
LEMMA RemoveKeeps ==
    ASSUME NoCollision, NEW st, IsStorage(st), NEW p \in DOMAIN st.files,
           NEW new, \/ new = hash_map_remove(st.files, p)
                    \/ new = hash_map_remove(KeyLost(st.files, p), p)
    PROVE  /\ DOMAIN new = DOMAIN st.files \ {p}
           /\ \A q \in DOMAIN st.files \ {p} : new[q] = st.files[q]
<1>1. DOMAIN new = DOMAIN st.files \ {p}
    BY RemovesOne
<1> QED
    BY <1>1 DEF hash_map_remove, KeyLost

-----------------------------------------------------------------------------
\* What the steps of a handler do to the sizes of the stored files.

SizeStep(c) ==
    \/ SizesKept(storage, storage')
    \/ \E p \in Path : Shrunk(storage, storage', p)
    \/ \E p \in Path, n \in Nat : /\ Grown(storage, storage', p, n)
                                  /\ storage.current_size + n <= MaxSize
                                  /\ n # 0 => pc[c] = "replace" /\ n = req[c].n

\* No append is in progress, and what is being written fits.
Modest(c) ==
    /\ pc[c] # "APPEND_TO_FILE"
    /\ pc[c] = "replace" => req[c].n \in 1 .. MaxSize

LEMMA SizeSame ==
    ASSUME UNCHANGED storage
    PROVE  SizesKept(storage, storage')
BY DEF SizesKept, Alike

\* The update of a file that keeps its size.
LEMMA SizeUpdate ==
    ASSUME TypeOK, NEW c \in Client, Found(c), NEW f \in File, Alike(File_(c), f),
           storage' = storage_update_file(storage, req[c].path, f)
    PROVE  SizesKept(storage, storage')
<1>1. req[c].path \in Path /\ IsStorage(storage)
    BY DEF TypeOK, Request
<1>2. /\ storage'.files = hash_map_insert(storage.files, req[c].path, f)
      /\ storage'.fifo_queue = storage.fifo_queue
      /\ storage'.current_size = storage.current_size
    BY <1>1, UpdateFile
<1>3. /\ DOMAIN storage'.files = DOMAIN storage.files
      /\ \A q \in DOMAIN storage.files : Alike(storage.files[q], storage'.files[q])
    BY <1>2 DEF hash_map_insert, Found, Stored, File_, Alike
<1> QED
    BY <1>2, <1>3 DEF SizesKept

LEMMA SizeLock ==
    ASSUME TypeOK, NEW c \in Client, Found(c), SetLock(c) \/ ClearLock(c)
    PROVE  SizesKept(storage, storage')
<1> DEFINE f == [File_(c) EXCEPT !.flags = @ \cup {"O_LOCK"}, !.locked_by = c]
           g == [File_(c) EXCEPT !.flags = @ \ {"O_LOCK"}, !.locked_by = NoClient]
<1>1. File_(c) \in File
    BY StoredFile DEF TypeOK, Found, File_
<1>2. f \in File /\ Alike(File_(c), f) /\ g \in File /\ Alike(File_(c), g)
    BY <1>1 DEF File, Alike, IsFresh
<1>3. \/ storage' = storage_update_file(storage, req[c].path, f)
      \/ storage' = storage_update_file(storage, req[c].path, g)
    BY DEF SetLock, ClearLock
<1> HIDE DEF f, g
<1> QED
    BY <1>2, <1>3, SizeUpdate

\* openFile: the limit is not reached, since a file is missing.
LEMMA BelowLimit ==
    ASSUME RoomForAll, TypeOK, FilesCounted, NEW c \in Client, ~Found(c)
    PROVE  ~MustReplace
<1> DEFINE S == DOMAIN storage.files
           p == req[c].path
<1>1. S \subseteq Path /\ p \in Path /\ p \notin S
    BY DEF TypeOK, IsStorage, IsTable, Request, Found, Stored
<1>2. IsFiniteSet(S) /\ Cardinality(S) \in Nat
    BY <1>1, FS_Subset, FS_CardinalityType DEF RoomForAll
<1>3. Cardinality(S \cup {p}) = Cardinality(S) + 1
    BY <1>1, <1>2, FS_AddElement
<1>4. Cardinality(S \cup {p}) <= Cardinality(Path) /\ Cardinality(Path) \in Nat
    BY <1>1, FS_Subset, FS_CardinalityType DEF RoomForAll
<1>5. storage.no_of_files <= Cardinality(S)
    BY DEF FilesCounted, Stored
<1> HIDE DEF S, p
<1> QED
    BY <1>2, <1>3, <1>4, <1>5, NumberTyped, SizeAssumption DEF MustReplace, RoomForAll

LEMMA SizeCreate ==
    ASSUME RoomForAll, TypeOK, FilesCounted, Sized(storage), NEW c \in Client,
           OpenCreate(c)
    PROVE  SizeStep(c)
<1>0. IsStorage(storage) /\ req[c].path \in Path
    BY DEF TypeOK, Request
<1>1. CASE UNCHANGED storage
    BY <1>1, SizeSame DEF SizeStep
<1>2. CASE /\ ~Found(c)
           /\ storage' = storage_add_file(storage, req[c].path, storage_create_file)
    <2> DEFINE p == req[c].path
    <2>1. /\ storage'.files = hash_map_insert(storage.files, p, storage_create_file)
          /\ storage'.fifo_queue = storage.fifo_queue
          /\ storage'.current_size = storage.current_size
        BY <1>0, <1>2, AddFile, NewFileType
    <2>2. /\ storage.current_size \in Int /\ storage.current_size >= 0
          /\ storage.current_size < SizeMod
        BY <1>0, SizeAssumption DEF IsStorage
    <2>3. storage'.current_size = (storage.current_size + 0) % SizeMod
        BY <2>1, <2>2, Unwrapped
    <2>4. p \notin DOMAIN storage.files
        BY <1>2 DEF Found, Stored
    <2>5. SizesKeptBut(storage, storage', p)
        BY <2>1, <2>4 DEF SizesKeptBut, Alike, hash_map_insert, Queued
    <2>6. p \in DOMAIN storage'.files /\ storage'.files[p] = storage_create_file
        BY <2>1 DEF hash_map_insert
    <2>7. Grown(storage, storage', p, 0)
        BY <2>3, <2>4, <2>5, <2>6 DEF Grown, storage_create_file, IsFresh
    <2>8. storage.current_size + 0 <= MaxSize
        BY <2>2 DEF Sized
    <2> HIDE DEF p
    <2> QED
        BY <1>0, <2>7, <2>8 DEF SizeStep, p
<1> QED
    BY <1>1, <1>2, BelowLimit DEF OpenCreate

\* The replacement.
LEMMA SizeReplace ==
    ASSUME NoCollision, TypeOK, NEW c \in Client, storage_FIFO_replace(c)
    PROVE  SizeStep(c)
<1>0. IsStorage(storage)
    BY DEF TypeOK
<1>1. CASE UNCHANGED storage
    BY <1>1, SizeSame DEF SizeStep
<1>2. CASE CanExpel(storage) /\ storage' = Expel(storage)
    <2> DEFINE p == Head(storage.fifo_queue)
    <2>1. p \in DOMAIN storage.files /\ storage.fifo_queue # <<>> /\ p \in Path
        BY <1>0, <1>2 DEF CanExpel, IsStorage, IsTable, Stored
    <2>2. /\ storage'.files = hash_map_remove(storage.files, p)
          /\ storage'.fifo_queue = Tail(storage.fifo_queue)
          /\ storage'.current_size =
                (storage.current_size - storage.files[p].size) % SizeMod
        BY <1>0, <1>2, ExpelFile
    <2>3. /\ DOMAIN storage'.files = DOMAIN storage.files \ {p}
          /\ \A q \in DOMAIN storage.files \ {p} : storage'.files[q] = storage.files[q]
        BY <1>0, <2>1, <2>2, RemoveKeeps
    <2>4. \A q : q # p /\ Queued(storage, q) => Queued(storage', q)
        BY <1>0, <2>1, <2>2, TailKeeps
    <2> HIDE DEF p
    <2>5. SizesKeptBut(storage, storage', p)
        BY <2>3, <2>4 DEF SizesKeptBut, Alike
    <2> QED
        BY <2>1, <2>2, <2>3, <2>5 DEF SizeStep, Shrunk
<1> QED
    BY <1>1, <1>2 DEF storage_FIFO_replace

\* The loop condition, without the arithmetic of size_t.
LEMMA SpaceNeeded ==
    ASSUME NoWrap, IsStorage(storage), Sized(storage), NEW n \in 0 .. MaxSize
    PROVE  NeedsSpace(storage, n) <=> storage.current_size + n > MaxSize
<1>1. /\ storage.current_size \in Int /\ 0 <= storage.current_size
      /\ storage.current_size <= MaxSize /\ n \in Nat /\ n <= MaxSize
    BY SizeAssumption DEF IsStorage, Sized
<1> DEFINE sum == storage.current_size + n
<1>2. sum \in Int /\ 0 <= sum /\ sum < SizeMod
    BY <1>1, SizeAssumption DEF NoWrap
<1> HIDE DEF sum
<1>3. sum % SizeMod = sum
    BY <1>2, Unwrapped
<1> QED
    BY <1>3 DEF NeedsSpace, sum

\* The write after it: no need of space means that the sum has not wrapped.
LEMMA SizeCommit ==
    ASSUME NoWrap, TypeOK, Sized(storage), NEW c \in Client, Isolated(c), Modest(c),
           WriteCommit(c)
    PROVE  SizeStep(c)
<1> DEFINE p == req[c].path
           n == req[c].n
           f == [local[c].file EXCEPT !.flags = @ \ {"O_CREATE"}, !.size = n]
           u == storage_update_file(storage, p, f)
<1>0. IsStorage(storage) /\ p \in Path /\ n \in 1 .. MaxSize
    BY DEF TypeOK, Request, Modest, WriteCommit, At
<1>1. local[c].file \in File
    BY DEF TypeOK, Local
<1>2. f \in File /\ f.size = n /\ ~IsFresh(f)
    <2>1. n \in Nat
        BY <1>0
    <2> HIDE DEF n
    <2> QED
        BY <1>1, <2>1 DEF File, IsFresh
<1>3. storage' = [u EXCEPT !.fifo_queue = Append(@, p),
                           !.current_size = (@ + n) % SizeMod]
    BY DEF WriteCommit
<1> HIDE DEF f
<1>4. /\ IsStorage(u) /\ u.files = hash_map_insert(storage.files, p, f)
      /\ u.fifo_queue = storage.fifo_queue
      /\ u.current_size = storage.current_size
    BY <1>0, <1>2, UpdateFile
<1> HIDE DEF u
<1>5. /\ storage'.files = u.files /\ storage'.fifo_queue = Append(u.fifo_queue, p)
      /\ storage'.current_size = (u.current_size + n) % SizeMod
    BY <1>3, <1>4, SetQueueSize
<1>6. Queued(storage', p) /\ \A q : Queued(storage, q) => Queued(storage', q)
    BY <1>0, <1>4, <1>5, AppendKeeps
<1>7. /\ DOMAIN storage'.files = DOMAIN storage.files \cup {p}
      /\ storage'.files[p] = f
      /\ \A q \in DOMAIN storage.files \ {p} : storage'.files[q] = storage.files[q]
    BY <1>4, <1>5 DEF hash_map_insert
<1>8. p \in DOMAIN storage.files => storage.files[p].size = 0
    BY DEF WriteCommit, At, Isolated, File_, Sized
<1>9. SizesKeptBut(storage, storage', p)
    BY <1>6, <1>7 DEF SizesKeptBut, Alike
<1>10. Grown(storage, storage', p, n)
    BY <1>2, <1>4, <1>5, <1>6, <1>7, <1>8, <1>9 DEF Grown
<1>11. storage.current_size + n <= MaxSize
    BY <1>0, SpaceNeeded, SizeAssumption DEF WriteCommit, IsStorage
<1>12. pc[c] = "replace" /\ n \in Nat
    BY <1>0 DEF WriteCommit, At
<1> QED
    BY <1>0, <1>10, <1>11, <1>12 DEF SizeStep

\* removeFile: what is not queued has no bytes.
LEMMA SizeRemove ==
    ASSUME NoCollision, TypeOK, Sized(storage), NEW c \in Client, remove_file_handler(c)
    PROVE  SizeStep(c)
<1>0. IsStorage(storage) /\ req[c].path \in Path
    BY DEF TypeOK, Request
<1>1. CASE UNCHANGED storage
    BY <1>1, SizeSame DEF SizeStep
<1>2. CASE /\ HoldsLock(c)
           /\ \E o \in storage_remove_file(storage, req[c].path) : storage' = o.st
    <2> DEFINE p == req[c].path
    <2>1. p \in DOMAIN storage.files
        BY <1>2 DEF HoldsLock, Owns, Found, Stored
    <2>2. PICK o \in storage_remove_file(storage, p) : storage' = o.st
        BY <1>2
    <2>3. p \in Path
        BY <1>0
    <2> HIDE DEF p
    <2>4. storage'.current_size =
             (storage.current_size - storage.files[p].size) % SizeMod
        BY <1>0, <2>1, <2>2, <2>3, RemoveFile DEF Stored
    <2>5. CASE /\ storage'.files = storage.files
               /\ storage'.fifo_queue = storage.fifo_queue /\ ~Queued(storage, p)
        <3>1. storage.files[p].size = 0
            BY <2>1, <2>5 DEF Sized
        <3>2. /\ storage.current_size \in Int /\ storage.current_size >= 0
              /\ storage.current_size < SizeMod
            BY <1>0, SizeAssumption DEF IsStorage
        <3>3. storage'.current_size = storage.current_size
            BY <2>4, <3>1, <3>2, Unwrapped
        <3> QED
            BY <2>5, <3>3 DEF SizeStep, SizesKept, Alike
    <2>6. CASE /\ Queued(storage, p)
               /\ storage'.fifo_queue = list_remove_element(storage.fifo_queue, p)
               /\ \/ storage'.files = hash_map_remove(storage.files, p)
                  \/ storage'.files = hash_map_remove(KeyLost(storage.files, p), p)
        <3>1. /\ DOMAIN storage'.files = DOMAIN storage.files \ {p}
              /\ \A q \in DOMAIN storage.files \ {p} :
                    storage'.files[q] = storage.files[q]
            <4> DEFINE new == storage'.files
            <4>1. \/ new = hash_map_remove(storage.files, p)
                  \/ new = hash_map_remove(KeyLost(storage.files, p), p)
                BY <2>6
            <4> HIDE DEF new
            <4>2. /\ DOMAIN new = DOMAIN storage.files \ {p}
                  /\ \A q \in DOMAIN storage.files \ {p} : new[q] = storage.files[q]
                BY <1>0, <2>1, <4>1, RemoveKeeps
            <4> QED
                BY <4>2 DEF new
        <3>2. \A q : q # p /\ Queued(storage, q) => Queued(storage', q)
            BY <1>0, <2>3, <2>6, UnlinkKeeps
        <3>3. SizesKeptBut(storage, storage', p)
            BY <3>1, <3>2 DEF SizesKeptBut, Alike
        <3> QED
            BY <2>1, <2>3, <2>4, <3>1, <3>3 DEF SizeStep, Shrunk
    <2> QED
        BY <1>0, <2>1, <2>2, <2>3, <2>5, <2>6, RemoveFile DEF Stored
<1> QED
    BY <1>1, <1>2 DEF remove_file_handler

\* The other handlers.
LEMMA QuietHandle ==
    ASSUME TypeOK, QueueResolves, NEW c \in Client, Isolated(c), Modest(c), Handle(c),
           ~OpenCreate(c), ~storage_FIFO_replace(c), ~WriteCommit(c),
           ~remove_file_handler(c)
    PROVE  SizesKept(storage, storage')
<1>0. IsStorage(storage) /\ req[c].path \in Path /\ Resolves(storage)
    BY ResolvesStorage DEF TypeOK, Request
<1>1. ~append_to_file_handler(c)
    BY DEF append_to_file_handler, At, Modest
<1>2. CASE lock_file_handler(c)
    <2>1. CASE Found(c) /\ storage' = storage_update_file(storage, req[c].path,
                   [File_(c) EXCEPT !.waiting_on_lock = Append(@, c)])
        <3> DEFINE f == [File_(c) EXCEPT !.waiting_on_lock = Append(@, c)]
        <3>1. File_(c) \in File
            BY <1>0, <2>1, StoredFile DEF Found, File_
        <3>2. Append(File_(c).waiting_on_lock, c) \in Seq(Client)
            BY <3>1, AppendProperties DEF File
        <3>3. f \in File /\ Alike(File_(c), f)
            BY <3>1, <3>2 DEF File, Alike, IsFresh
        <3>4. storage' = storage_update_file(storage, req[c].path, f)
            BY <2>1
        <3> HIDE DEF f
        <3> QED
            BY <2>1, <3>3, <3>4, SizeUpdate
    <2>2. CASE UNCHANGED storage
        BY <2>2, SizeSame
    <2>3. CASE Found(c) /\ SetLock(c)
        BY <2>3, SizeLock
    <2> QED
        BY <1>2, <2>1, <2>2, <2>3 DEF lock_file_handler
<1>3. ~ReadNFails(c)
    BY ReadNSucceeds
<1>4. CASE OpenLock(c) \/ close_file_handler(c) \/ unlock_file_handler(c)
    <2>1. UNCHANGED storage \/ (Found(c) /\ (SetLock(c) \/ ClearLock(c)))
        BY <1>4 DEF OpenLock, close_file_handler, unlock_file_handler, HoldsLock, Owns
    <2> QED
        BY <2>1, SizeSame, SizeLock
<1>5. CASE \/ OpenNoFlag(c) \/ WriteRefused(c) \/ WriteTooBig(c) \/ WriteAdmitted(c)
           \/ read_file_handler(c) \/ ReadNCollect(c) \/ ReadNSend(c)
    <2>1. UNCHANGED storage
        BY <1>5 DEF OpenNoFlag, WriteRefused, WriteTooBig, WriteAdmitted,
                    read_file_handler, ReadNCollect, ReadNSend
    <2> QED
        BY <2>1, SizeSame
<1>6. ~(TooBig(c) \/ ReadNFree(c) \/ ReadNFreed(c))
    BY IsolatedSteps
<1> QED
    BY <1>1, <1>2, <1>3, <1>4, <1>5, <1>6 DEF Handle

\* Every step of a handler.
LEMMA SizeHandle ==
    ASSUME NoCollision, NoWrap, RoomForAll, TypeOK, QueueResolves, FilesCounted,
           Sized(storage), NEW c \in Client, Isolated(c), Modest(c), Handle(c)
    PROVE  SizeStep(c)
<1>1. CASE OpenCreate(c) \/ storage_FIFO_replace(c) \/ WriteCommit(c) \/ remove_file_handler(c)
    BY <1>1, SizeCreate, SizeReplace, SizeCommit, SizeRemove
<1>2. CASE ~(OpenCreate(c) \/ storage_FIFO_replace(c) \/ WriteCommit(c) \/ remove_file_handler(c))
    BY <1>2, QuietHandle DEF SizeStep
<1> QED
    BY <1>1, <1>2

-----------------------------------------------------------------------------
\* The invariant.

Counted ==
    /\ FilesCounted
    /\ Sized(storage)
    /\ \A c \in Client : Modest(c)

LEMMA CountedStart == Init => Counted
<1> SUFFICES ASSUME Init
             PROVE  Counted
    OBVIOUS
<1>1. /\ DOMAIN storage.files = {} /\ storage.no_of_files = 0
      /\ storage.current_size = 0
    BY DEF Init, storage_create
<1>2. Bytes(storage.files) = {}
    BY <1>1, NoBytes
<1>3. FilesCounted /\ Sized(storage)
    BY <1>1, <1>2, FS_EmptySet, SizeAssumption DEF FilesCounted, Sized, Stored
<1>4. \A c \in Client : Modest(c)
    BY DEF Init, Modest
<1> QED
    BY <1>3, <1>4 DEF Counted

\* Where a handler goes, except when it admits a writer or makes room.
LEMMA LabelHandle ==
    ASSUME TypeOK, NEW c \in Client, Handle(c),
           ~WriteAdmitted(c), ~storage_FIFO_replace(c)
    PROVE  pc'[c] \notin {"WRITE_FILE", "APPEND_TO_FILE", "replace", "REMOVE_FILE"}
<1>1. CASE \E k : Return(c, k)
    BY <1>1 DEF Return, TypeOK
<1>2. CASE \E l \in Removing \cup {"send_files", "free_files"} : Goto(c, l)
    BY <1>2 DEF Goto, Removing, TypeOK
<1>3. CASE pc[c] \in {"OPEN_FILE", "free_files"} /\ UNCHANGED pc
    BY <1>3
<1>4. CASE append_to_file_handler(c)
    BY <1>4 DEF append_to_file_handler, TypeOK
<1> QED
    BY <1>1, <1>2, <1>3, <1>4, TooBigThread, "too_big" \in Removing DEF
       Handle, At, Removing, OpenCreate, OpenLock, OpenNoFlag, OpenNext,
       close_file_handler, WriteRefused, WriteTooBig, WriteCommit, read_file_handler,
       ReadNCollect, ReadNFails, ReadNFree, ReadNFreed, ReadNSend, remove_file_handler, lock_file_handler,
       unlock_file_handler

\* A writer is admitted only with a size that fits, and an append is never asked for.
LEMMA ModestHandle ==
    ASSUME TypeOK, NEW c \in Client, Modest(c), Handle(c)
    PROVE  Modest(c)'
<1>1. CASE WriteAdmitted(c)
    BY <1>1 DEF WriteAdmitted, Goto, Modest, TypeOK
<1>2. CASE storage_FIFO_replace(c)
    BY <1>2 DEF storage_FIFO_replace, Modest
<1>3. CASE ~WriteAdmitted(c) /\ ~storage_FIFO_replace(c)
    BY <1>3, LabelHandle DEF Modest
<1> QED
    BY <1>1, <1>2, <1>3

LEMMA LockManagerSizes ==
    ASSUME TypeOK, lock_manager_thread
    PROVE  UNCHANGED <<pc, req>> /\ SizesKept(storage, storage')
<1>1. /\ UNCHANGED <<pc, req>> /\ storage'.fifo_queue = storage.fifo_queue
      /\ DOMAIN storage'.files = DOMAIN storage.files
    BY LockManagerStep
<1>2. \A p \in DOMAIN storage.files : Alike(storage.files[p], storage'.files[p])
    BY LockManagerStep DEF Alike
<1>3. storage'.current_size = storage.current_size
    BY ExceptOne DEF lock_manager_thread, TypeOK
<1> QED
    BY <1>1, <1>2, <1>3 DEF SizesKept

LEMMA CountedNext ==
    ASSUME NoCollision, NoAppend, RoomForAll, NoWrap, TypeOK, FilesCounted',
           QueueResolves, WriterIsolated, Counted, [Next]_vars
    PROVE  Counted'
<1>0. IsStorage(storage)
    BY DEF TypeOK
<1>1. ASSUME NEW c \in Client, SizeStep(c)
      PROVE  Sized(storage')
    BY <1>0, <1>1, SizedKept, SizedGrown, SizedShrunk DEF SizeStep, Counted
<1>2. CASE UNCHANGED vars
    BY <1>2 DEF Counted, vars, Modest
<1>3. ASSUME NEW c \in Client, NEW r \in Requests, worker_thread(c, r)
      PROVE  Counted'
    <2>1. /\ UNCHANGED storage
          /\ pc' = [pc EXCEPT ![c] = r.op] /\ req' = [req EXCEPT ![c] = r]
        BY <1>3 DEF worker_thread
    <2>2. r.op \in Op /\ r.op # "APPEND_TO_FILE"
        BY RequestsAssumption DEF Request, NoAppend
    <2>3. Modest(c)'
        BY <2>1, <2>2 DEF TypeOK, Modest, Op
    <2>4. \A d \in Client \ {c} : Modest(d)'
        BY <2>1 DEF TypeOK, Counted, Modest
    <2> QED
        BY <2>1, <2>3, <2>4 DEF Counted
<1>4. ASSUME NEW c \in Client, CloseConnection(c)
      PROVE  Counted'
    BY <1>4 DEF CloseConnection, Counted, Modest
<1>5. ASSUME NEW c \in Client, Handle(c)
      PROVE  Counted'
    <2>1. Isolated(c) /\ Modest(c) /\ Sized(storage) /\ FilesCounted
        BY DEF WriterIsolated, Counted
    <2>2. Sized(storage')
        BY <1>1, <1>5, <2>1, SizeHandle
    <2>3. Modest(c)'
        BY <1>5, <2>1, ModestHandle
    <2>4. \A d \in Client \ {c} : Modest(d)'
        BY <1>5, HandleStep DEF ThreadStep, Counted, Modest
    <2> QED
        BY <2>2, <2>3, <2>4 DEF Counted
<1>6. CASE lock_manager_thread
    BY <1>6, LockManagerSizes, SizedKept DEF Counted, Modest
<1> QED
    BY <1>2, <1>3, <1>4, <1>5, <1>6 DEF Next

LEMMA CountedInvariant ==
    ASSUME NoCollision, NoOversize, NoAppend, RoomForAll, NoWrap
    PROVE  Spec => []Counted
<1>1. Init => Counted
    BY CountedStart
<1>2. TypeOK /\ FilesCounted' /\ QueueResolves /\ WriterIsolated /\ Counted /\ [Next]_vars
         => Counted'
    BY CountedNext
<1>3. Spec => []FilesCounted
    BY CountBounded
<1> QED
    BY <1>1, <1>2, <1>3, TypeCorrect, QueueInvariant, PTL DEF Spec

\* current_size counts the bytes of the stored files, through every creation, write,
\* replacement and removal: no handler adds or subtracts twice, or forgets to.
THEOREM BytesCounted ==
    ASSUME NoCollision, NoOversize, NoAppend, RoomForAll, NoWrap
    PROVE  Spec => []BytesAccounted
<1>1. Counted => BytesAccounted
    BY DEF Counted, Sized, BytesAccounted
<1> QED
    BY <1>1, CountedInvariant, PTL

\* Replacing makes enough room for what is written: the capacity is never exceeded.
THEOREM CapacityKept ==
    ASSUME NoCollision, NoOversize, NoAppend, RoomForAll, NoWrap
    PROVE  Spec => []WithinCapacity
<1>1. Counted => WithinCapacity
    BY DEF Counted, Sized, WithinCapacity
<1> QED
    BY <1>1, CountedInvariant, PTL

\* As long as the storage needs space there is a file to expel: files that are not
\* in the queue have no bytes, so an empty queue means an empty storage.
THEOREM ReplacementFinds ==
    ASSUME NoCollision, NoOversize, NoAppend, RoomForAll, NoWrap
    PROVE  Spec => []ReplacementSucceeds
<1>1. TypeOK /\ QueueResolves /\ Counted => ReplacementSucceeds
    <2> SUFFICES ASSUME TypeOK, QueueResolves, Counted, NEW c \in Client,
                        pc[c] = "replace", NeedsSpace(storage, req[c].n)
                 PROVE  CanExpel(storage)
        BY DEF ReplacementSucceeds
    <2> DEFINE queue == storage.fifo_queue
    <2>1. queue \in Seq(Path) /\ DOMAIN queue = 1 .. Len(queue) /\ Len(queue) \in Nat
        BY LenProperties DEF TypeOK, IsStorage
    <2>2. CASE queue = <<>>
        <3>1. \A p : ~Queued(storage, p)
            BY <2>1, <2>2, EmptySeq DEF Queued
        <3>2. \A p \in DOMAIN storage.files : storage.files[p].size = 0
            BY <3>1 DEF Counted, Sized
        <3>3. storage.current_size = 0
            BY <3>2, NoBytes, FS_EmptySet DEF Counted, Sized
        <3>4. req[c].n \in 1 .. MaxSize
            BY DEF Counted, Modest
        <3>5. (0 + req[c].n) % SizeMod = 0 + req[c].n
            BY <3>4, Unwrapped, SizeAssumption
        <3> QED
            BY <3>3, <3>4, <3>5, SizeAssumption DEF NeedsSpace
    <2>3. CASE queue # <<>>
        <3>1. Head(queue) = queue[1] /\ 1 \in DOMAIN queue
            BY <2>1, <2>3, HeadTailProperties, EmptySeq
        <3> QED
            BY <2>3, <3>1 DEF CanExpel, QueueResolves
    <2> QED
        BY <2>2, <2>3
<1> QED
    BY <1>1, CountedInvariant, QueueInvariant, TypeCorrect, PTL

-----------------------------------------------------------------------------
\* When there is room for all files and none is removed, every file stays.

\* No stored file is larger than n, nor is one that is being written.
Light(n) ==
    /\ \A p \in DOMAIN storage.files : storage.files[p].size <= n
    /\ \A c \in Client : /\ pc[c] # "REMOVE_FILE"
                         /\ pc[c] \in {"WRITE_FILE", "replace"} => req[c].n <= n

\* All the other files together leave enough room for the one that is written,
\* which has no bytes yet.
LEMMA EnoughRoom ==
    ASSUME NoWrap, RoomForAll, TypeOK, Sized(storage),
           NEW n \in 0 .. MaxSize, Cardinality(Path) * n <= MaxSize, Light(n),
           NEW c \in Client, Isolated(c), pc[c] = "replace"
    PROVE  ~NeedsSpace(storage, req[c].n)
<1> DEFINE p == req[c].path
           B == Bytes(storage.files)
           others == Path \ {p}
           m == Cardinality(others)
<1>1. n \in Nat /\ MaxSize \in Nat /\ req[c].n \in Nat /\ req[c].n <= n /\ p \in Path
    BY SizeAssumption DEF TypeOK, Request, Light
<1>2. \A q \in DOMAIN storage.files : q \in Path /\ storage.files[q].size \in Nat
    BY DEF TypeOK, IsStorage, IsTable, File
<1>3. p \in DOMAIN storage.files /\ storage.files[p].size = 0
    BY DEF Isolated, Found, File_, Stored, Sized
<1>4. IsFiniteSet(others) /\ m = Cardinality(Path) - 1 /\ m \in Nat
    BY <1>1, FS_RemoveElement, FS_CardinalityType DEF RoomForAll
<1>5. IsFiniteSet(1 .. n) /\ Cardinality(1 .. n) = n
    BY <1>1, FS_Interval
<1>6. B \subseteq others \X (1 .. n)
    <2> SUFFICES ASSUME NEW x \in B
                 PROVE  x \in others \X (1 .. n)
        OBVIOUS
    <2>1. PICK q \in DOMAIN storage.files : x \in {q} \X (1 .. storage.files[q].size)
        BY DEF Bytes
    <2>2. storage.files[q].size <= n /\ storage.files[q].size \in Nat /\ q \in Path
        BY <1>2 DEF Light
    <2>3. q # p
        BY <1>3, <2>1
    <2> QED
        BY <1>1, <2>1, <2>2, <2>3
<1> HIDE DEF p, B, others, m
<1>7. /\ IsFiniteSet(others \X (1 .. n))
      /\ Cardinality(others \X (1 .. n)) = m * n
    BY <1>4, <1>5, FS_Product DEF m
<1>8. Cardinality(B) <= m * n
    BY <1>6, <1>7, FS_Subset
<1>9. m * n + n <= MaxSize /\ m * n \in Nat
    <2>1. m * n + n = (m + 1) * n /\ m * n \in Nat
        BY <1>1, <1>4
    <2>2. m + 1 = Cardinality(Path)
        BY <1>4, FS_CardinalityType DEF RoomForAll
    <2> QED
        BY <2>1, <2>2
<1>10. storage.current_size = Cardinality(B) /\ Cardinality(B) \in Nat
    BY FS_CardinalityType DEF Sized, B
<1>11. storage.current_size + req[c].n \in 0 .. MaxSize
    <2> DEFINE k == m * n
    <2>1. k \in Nat /\ k + n <= MaxSize /\ Cardinality(B) <= k
        BY <1>8, <1>9
    <2> HIDE DEF k
    <2> QED
        BY <1>1, <1>10, <2>1
<1> QED
    BY <1>1, <1>11, SpaceNeeded DEF TypeOK

\* What a step of a worker leaves in its request.
LEMMA LightHandle ==
    ASSUME TypeOK, NEW n \in 0 .. MaxSize, Light(n), NEW c \in Client, Handle(c)
    PROVE  /\ pc'[c] # "REMOVE_FILE"
           /\ pc'[c] \in {"WRITE_FILE", "replace"} => req'[c].n <= n
<1>1. CASE WriteAdmitted(c)
    BY <1>1 DEF WriteAdmitted, Goto, At, Light, TypeOK
<1>2. CASE storage_FIFO_replace(c)
    BY <1>2 DEF storage_FIFO_replace, At, Light
<1>3. CASE ~WriteAdmitted(c) /\ ~storage_FIFO_replace(c)
    BY <1>3, LabelHandle
<1> QED
    BY <1>1, <1>2, <1>3

\* What it leaves in the table: every file, and none that is too large.
LEMMA StaysHandle ==
    ASSUME NoCollision, NoWrap, RoomForAll, TypeOK, QueueResolves, FilesCounted,
           Sized(storage), NEW n \in 0 .. MaxSize, Cardinality(Path) * n <= MaxSize,
           Light(n), NEW c \in Client, Isolated(c), Modest(c), Handle(c)
    PROVE  /\ Stored(storage) \subseteq Stored(storage')
           /\ \A p \in DOMAIN storage'.files : storage'.files[p].size <= n
<1>1. Stored(storage) \subseteq Stored(storage')
    <2>1. CASE pc[c] # "replace"
        <3>1. Accounted(c)
            BY AccountedHandle
        <3> QED
            BY <2>1, <3>1 DEF Accounted, Unchanged, Created, Removed, Light, Stored
    <2>2. CASE pc[c] = "replace"
        <3>1. ~storage_FIFO_replace(c)
            BY <2>2, EnoughRoom DEF storage_FIFO_replace
        <3>2. WriteCommit(c)
            BY <2>2, <3>1, IsolatedSteps DEF Handle, At, OpenCreate, OpenLock,
               OpenNoFlag, OpenNext, close_file_handler, WriteRefused, WriteTooBig,
               WriteAdmitted, append_to_file_handler, read_file_handler, ReadNCollect,
               ReadNFails, ReadNSend, remove_file_handler, lock_file_handler, unlock_file_handler
        <3> QED
            BY <3>2, CommitAccounted DEF Unchanged, Stored
    <2> QED
        BY <2>1, <2>2
<1>2. SizeStep(c)
    BY SizeHandle
<1>3. ASSUME SizesKept(storage, storage')
      PROVE  \A q \in DOMAIN storage'.files : storage'.files[q].size <= n
    BY <1>3 DEF SizesKept, Alike, Light
<1>4. ASSUME NEW p \in Path, Shrunk(storage, storage', p)
      PROVE  \A q \in DOMAIN storage'.files : storage'.files[q].size <= n
    BY <1>4 DEF Shrunk, SizesKeptBut, Alike, Light
<1>5. ASSUME NEW p \in Path, NEW k \in Nat, Grown(storage, storage', p, k),
             k # 0 => pc[c] = "replace" /\ k = req[c].n
      PROVE  \A q \in DOMAIN storage'.files : storage'.files[q].size <= n
    <2>1. k <= n
        BY <1>5 DEF Light
    <2> QED
        BY <1>5, <2>1 DEF Grown, SizesKeptBut, Alike, Light
<1> QED
    BY <1>1, <1>2, <1>3, <1>4, <1>5 DEF SizeStep

LEMMA LightNext ==
    ASSUME NoCollision, NoWrap, RoomForAll, NoRemoval, TypeOK, QueueResolves,
           WriterIsolated, Counted, NEW n \in 0 .. MaxSize,
           Cardinality(Path) * n <= MaxSize,
           \A r \in Requests : r.op = "WRITE_FILE" => r.n <= n,
           Light(n), [Next]_vars
    PROVE  Light(n)' /\ [Stored(storage) \subseteq Stored(storage')]_vars
<1>1. CASE UNCHANGED vars
    BY <1>1 DEF Light, vars
<1>2. ASSUME NEW c \in Client, NEW r \in Requests, worker_thread(c, r)
      PROVE  Light(n)' /\ UNCHANGED storage
    <2>1. /\ UNCHANGED storage
          /\ pc' = [pc EXCEPT ![c] = r.op] /\ req' = [req EXCEPT ![c] = r]
        BY <1>2 DEF worker_thread
    <2>2. /\ r.op \in Op /\ r.op # "REMOVE_FILE"
          /\ r.op = "WRITE_FILE" => r.n <= n
        BY RequestsAssumption DEF Request, NoRemoval
    <2> QED
        BY <2>1, <2>2 DEF TypeOK, Light, Op
<1>3. ASSUME NEW c \in Client, CloseConnection(c)
      PROVE  Light(n)' /\ UNCHANGED storage
    BY <1>3 DEF CloseConnection, Light
<1>4. ASSUME NEW c \in Client, Handle(c)
      PROVE  Light(n)' /\ Stored(storage) \subseteq Stored(storage')
    <2>1. Isolated(c) /\ Modest(c) /\ Sized(storage) /\ FilesCounted
        BY DEF WriterIsolated, Counted
    <2>2. /\ Stored(storage) \subseteq Stored(storage')
          /\ \A p \in DOMAIN storage'.files : storage'.files[p].size <= n
        BY <1>4, <2>1, StaysHandle
    <2>3. /\ pc'[c] # "REMOVE_FILE"
          /\ pc'[c] \in {"WRITE_FILE", "replace"} => req'[c].n <= n
        BY <1>4, LightHandle
    <2>4. \A d \in Client \ {c} : pc'[d] = pc[d] /\ req'[d] = req[d]
        BY <1>4, HandleStep DEF ThreadStep
    <2> QED
        BY <2>2, <2>3, <2>4 DEF Light
<1>5. CASE lock_manager_thread
    <2>1. UNCHANGED <<pc, req>> /\ DOMAIN storage'.files = DOMAIN storage.files
        BY <1>5, LockManagerStep
    <2>2. \A p \in DOMAIN storage.files : storage'.files[p].size = storage.files[p].size
        BY <1>5, LockManagerStep
    <2> QED
        BY <2>1, <2>2 DEF Light, Stored
<1> QED
    BY <1>1, <1>2, <1>3, <1>4, <1>5 DEF Next

\* No file leaves the table when the capacity is enough for all of them and no
\* client removes one: the replacement expels nothing it need not expel.
THEOREM FilesStay ==
    ASSUME NoCollision, NoOversize, NoAppend, RoomForAll, NoWrap, NoRemoval, RoomForBytes
    PROVE  Spec => FilesKept
<1>1. PICK n \in 0 .. MaxSize :
         /\ \A r \in Requests : r.op = "WRITE_FILE" => r.n <= n
         /\ Cardinality(Path) * n <= MaxSize
    BY DEF RoomForBytes
<1>2. Init => Light(n)
    BY DEF Init, storage_create, Light
<1>3. TypeOK /\ QueueResolves /\ WriterIsolated /\ Counted /\ Light(n) /\ [Next]_vars
         => Light(n)' /\ [Stored(storage) \subseteq Stored(storage')]_vars
    BY <1>1, LightNext
<1> QED
    BY <1>2, <1>3, TypeCorrect, QueueInvariant, CountedInvariant, PTL DEF Spec, FilesKept

\* Then no client that waits for a lock is forgotten.
THEOREM WaitersNotForgotten ==
    ASSUME NoCollision, NoOversize, NoAppend, RoomForAll, NoWrap, NoRemoval, RoomForBytes
    PROVE  Spec => []NoWaiterForgotten
BY FilesStay, WaitersRemembered, PTL

-----------------------------------------------------------------------------
\* The refinement of FileCache.

\* The bytes the cache uses are those that current_size counts.
LEMMA UsedBytes ==
    ASSUME IsStorage(storage), Sized(storage)
    PROVE  Cache!Used = storage.current_size /\ storage.current_size \in Nat
<1>1. Bytes(storage.files) =
         UNION {{p} \X (1 .. Sizes[p]) : p \in DOMAIN Sizes}
    BY DEF Bytes, Sizes, Stored
<1>2. \A S : Cache!Cardinality(S) = Cardinality(S)
    BY DEF Cache!Cardinality, Cardinality
<1> QED
    BY <1>1, <1>2, FS_CardinalityType DEF Sized, Cache!Used

LEMMA SizesUnchanged ==
    ASSUME SizesKept(storage, storage')
    PROVE  Sizes' = Sizes /\ storage'.fifo_queue = storage.fifo_queue
BY DEF SizesKept, Alike, Sizes, Stored

\* The write in progress, when no worker is in its replacement and when one is.
LEMMA NoWrite ==
    ASSUME WriterIsolated, access = NoClient
    PROVE  Writes = {} /\ \A c \in Client : pc[c] # "replace"
BY ClientAssumption DEF WriterIsolated, Isolated, Writes

LEMMA OneWrite ==
    ASSUME WriterIsolated, NEW c \in Client, pc[c] = "replace"
    PROVE  Writes = {<<req[c].path, req[c].n>>} /\ \A d \in Client \ {c} : pc[d] # "replace"
<1>1. \A d \in Client : pc[d] = "replace" => d = c
    BY DEF WriterIsolated, Isolated
<1> QED
    BY <1>1 DEF Writes

LEMMA WritesUnchanged ==
    ASSUME TypeOK, NEW c \in Client, Handle(c), pc[c] # "replace", pc'[c] # "replace"
    PROVE  Writes' = Writes
<1>1. \A d \in Client \ {c} : pc'[d] = pc[d] /\ req'[d] = req[d]
    BY HandleStep DEF ThreadStep
<1>2. \A d \in Client : /\ pc'[d] = "replace" <=> pc[d] = "replace"
                        /\ pc[d] = "replace" => req'[d] = req[d]
    BY <1>1
<1> QED
    BY <1>2 DEF Writes

LEMMA CacheCreate ==
    ASSUME RoomForAll, TypeOK, FilesCounted, WriterIsolated, NEW c \in Client, OpenCreate(c)
    PROVE  [Cache!Next]_Cache!vars
<1>0. IsStorage(storage) /\ req[c].path \in Path
    BY DEF TypeOK, Request
<1>1. Writes = {} /\ Writes' = {}
    <2>1. access = NoClient /\ pc[c] = "OPEN_FILE" /\ Handle(c)
        BY DEF OpenCreate, At, InMutex, Handle
    <2>2. pc'[c] # "replace"
        BY <2>1, LabelHandle DEF WriteAdmitted, storage_FIFO_replace, At
    <2> QED
        BY <2>1, <2>2, NoWrite, WritesUnchanged
<1>2. CASE UNCHANGED storage
    BY <1>1, <1>2, SizeSame, SizesUnchanged DEF Cache!vars
<1>3. CASE /\ ~Found(c)
           /\ storage' = storage_add_file(storage, req[c].path, storage_create_file)
    <2> DEFINE p == req[c].path
    <2>1. /\ storage'.files = hash_map_insert(storage.files, p, storage_create_file)
          /\ storage'.fifo_queue = storage.fifo_queue
        BY <1>0, <1>3, AddFile, NewFileType
    <2>2. p \notin DOMAIN Sizes
        BY <1>3 DEF Found, Stored, Sizes
    <2>3. storage_create_file.size = 0
        BY DEF storage_create_file
    <2>4. Sizes' = [q \in DOMAIN Sizes \cup {p} |-> IF q = p THEN 0 ELSE Sizes[q]]
        BY <2>1, <2>3 DEF Sizes, Stored, hash_map_insert
    <2>5. Cache!Create(p)
        BY <1>1, <2>1, <2>2, <2>4 DEF Cache!Create
    <2> QED
        BY <1>0, <2>5 DEF Cache!Next
<1> QED
    BY <1>2, <1>3, BelowLimit DEF OpenCreate

LEMMA CacheBegin ==
    ASSUME TypeOK, QueueResolves, WriterIsolated, NEW c \in Client, WriteAdmitted(c)
    PROVE  [Cache!Next]_Cache!vars
<1> DEFINE p == req[c].path
           n == req[c].n
<1>1. /\ access = NoClient /\ UNCHANGED <<storage, req>>
      /\ Found(c) /\ IsFresh(File_(c)) /\ n \in 1 .. MaxSize
      /\ pc' = [pc EXCEPT ![c] = "replace"]
    BY DEF WriteAdmitted, Lock, Goto, Owns
<1>2. Writes = {} /\ \A d \in Client : pc[d] # "replace"
    BY <1>1, NoWrite
<1>3. \A d \in Client : pc'[d] = "replace" <=> d = c
    BY <1>1, <1>2 DEF TypeOK
<1>4. Writes' = {<<p, n>>}
    BY <1>1, <1>3 DEF Writes
<1>5. Sizes' = Sizes /\ storage'.fifo_queue = storage.fifo_queue
    BY <1>1, SizeSame, SizesUnchanged
<1>6. p \in DOMAIN Sizes /\ ~Cache!Written(p)
    BY <1>1 DEF Sizes, Found, File_, Cache!Written, QueueResolves
<1>7. p \in Path
    BY DEF TypeOK, Request
<1>8. Cache!BeginWrite(p, n)
    BY <1>2, <1>4, <1>5, <1>6 DEF Cache!BeginWrite
<1> QED
    BY <1>1, <1>7, <1>8 DEF Cache!Next

LEMMA CacheExpel ==
    ASSUME NoCollision, NoWrap, TypeOK, WriterIsolated, Counted, ReplacementSucceeds,
           NEW c \in Client, storage_FIFO_replace(c)
    PROVE  [Cache!Next]_Cache!vars
<1> DEFINE p == Head(storage.fifo_queue)
           n == req[c].n
<1>0. IsStorage(storage) /\ Sized(storage)
    BY DEF TypeOK, Counted
<1>1. /\ pc[c] = "replace" /\ NeedsSpace(storage, n) /\ UNCHANGED <<pc, req>>
      /\ CanExpel(storage) /\ storage' = Expel(storage)
    BY DEF storage_FIFO_replace, At, ReplacementSucceeds
<1>2. Writes' = Writes /\ Writes = {<<req[c].path, n>>}
    BY <1>1, OneWrite DEF Writes
<1>3. ~Cache!Fits(n)
    <2>1. n \in 0 .. MaxSize
        BY <1>1 DEF Counted, Modest
    <2>2. storage.current_size + n > MaxSize
        BY <1>0, <1>1, <2>1, SpaceNeeded
    <2> QED
        BY <1>0, <2>1, <2>2, UsedBytes, SizeAssumption DEF Cache!Fits
<1>4. p \in DOMAIN storage.files /\ storage.fifo_queue # <<>>
    BY <1>1 DEF CanExpel, Stored
<1>5. /\ storage'.files = hash_map_remove(storage.files, p)
      /\ storage'.fifo_queue = Tail(storage.fifo_queue)
    BY <1>0, <1>1, ExpelFile
<1>6. /\ DOMAIN storage'.files = DOMAIN storage.files \ {p}
      /\ \A q \in DOMAIN storage.files \ {p} : storage'.files[q] = storage.files[q]
    BY <1>0, <1>4, <1>5, RemoveKeeps
<1> HIDE DEF p
<1>7. Sizes' = Cache!Without(p)
    BY <1>6 DEF Sizes, Stored, Cache!Without
<1>8. \E w \in Writes : ~Cache!Fits(w[2])
    BY <1>2, <1>3
<1>9. Cache!Expel
    BY <1>2, <1>4, <1>5, <1>7, <1>8 DEF Cache!Expel, p
<1> QED
    BY <1>9 DEF Cache!Next

LEMMA CacheEnd ==
    ASSUME NoWrap, TypeOK, WriterIsolated, Counted, NEW c \in Client, WriteCommit(c)
    PROVE  [Cache!Next]_Cache!vars
<1> DEFINE p == req[c].path
           n == req[c].n
           f == [local[c].file EXCEPT !.flags = @ \ {"O_CREATE"}, !.size = n]
           u == storage_update_file(storage, p, f)
<1>0. /\ IsStorage(storage) /\ Sized(storage) /\ Isolated(c)
      /\ pc[c] = "replace" /\ ~NeedsSpace(storage, n) /\ p \in Path /\ n \in 0 .. MaxSize
    BY DEF WriteCommit, At, TypeOK, Request, Counted, Modest, WriterIsolated
<1>1. Writes = {<<p, n>>} /\ \A d \in Client \ {c} : pc[d] # "replace"
    BY <1>0, OneWrite
<1>2. Writes' = {}
    <2>1. pc' = [pc EXCEPT ![c] = "idle"]
        BY DEF WriteCommit, Return
    <2>2. \A d \in Client : pc'[d] # "replace"
        BY <1>1, <2>1 DEF TypeOK
    <2> QED
        BY <2>2 DEF Writes
<1>3. Cache!Fits(n)
    <2>1. ~(storage.current_size + n > MaxSize)
        BY <1>0, SpaceNeeded
    <2> QED
        BY <1>0, <2>1, UsedBytes, SizeAssumption DEF Cache!Fits
<1>4. local[c].file \in File /\ n \in Nat
    BY <1>0 DEF TypeOK, Local
<1>5. f \in File /\ f.size = n
    <2> HIDE DEF n
    <2> QED
        BY <1>4 DEF File
<1>6. storage' = [u EXCEPT !.fifo_queue = Append(@, p),
                           !.current_size = (@ + n) % SizeMod]
    BY DEF WriteCommit
<1> HIDE DEF f
<1>7. /\ IsStorage(u) /\ u.files = hash_map_insert(storage.files, p, f)
      /\ u.fifo_queue = storage.fifo_queue
    BY <1>0, <1>5, UpdateFile
<1> HIDE DEF u
<1>8. storage'.files = u.files /\ storage'.fifo_queue = Append(u.fifo_queue, p)
    BY <1>6, <1>7, SetQueueSize
<1>9. p \in DOMAIN storage.files
    BY <1>0 DEF Isolated, Found, Stored
<1>10. Sizes' = [Sizes EXCEPT ![p] = n]
    <2>1. /\ DOMAIN storage'.files = DOMAIN storage.files
          /\ storage'.files[p].size = n
          /\ \A q \in DOMAIN storage.files \ {p} : storage'.files[q] = storage.files[q]
        BY <1>5, <1>7, <1>8, <1>9 DEF hash_map_insert
    <2>2. Sizes' = [q \in DOMAIN storage.files |-> storage'.files[q].size]
        BY <2>1 DEF Sizes, Stored
    <2> HIDE DEF p, n
    <2>3. \A q \in DOMAIN storage.files :
             storage'.files[q].size = IF q = p THEN n ELSE storage.files[q].size
        BY <2>1
    <2> QED
        BY <2>2, <2>3 DEF Sizes, Stored
<1>11. \E w \in Writes : /\ Cache!Fits(w[2])
                         /\ Sizes' = [Sizes EXCEPT ![w[1]] = w[2]]
                         /\ storage'.fifo_queue = Append(storage.fifo_queue, w[1])
    BY <1>1, <1>3, <1>7, <1>8, <1>10
<1>12. Cache!EndWrite
    BY <1>2, <1>11 DEF Cache!EndWrite
<1> QED
    BY <1>12 DEF Cache!Next

LEMMA CacheDelete ==
    ASSUME NoCollision, TypeOK, WriterIsolated, NEW c \in Client, remove_file_handler(c)
    PROVE  [Cache!Next]_Cache!vars
<1> DEFINE p == req[c].path
<1>0. IsStorage(storage) /\ p \in Path
    BY DEF TypeOK, Request
<1>1. Writes = {} /\ Writes' = {}
    <2>1. access = NoClient /\ pc[c] = "REMOVE_FILE" /\ Handle(c)
        BY DEF remove_file_handler, At, InMutex, Handle
    <2>2. pc'[c] # "replace"
        BY <2>1, LabelHandle DEF WriteAdmitted, storage_FIFO_replace, At
    <2> QED
        BY <2>1, <2>2, NoWrite, WritesUnchanged
<1>2. CASE UNCHANGED storage
    BY <1>1, <1>2, SizeSame, SizesUnchanged DEF Cache!vars
<1>3. CASE /\ HoldsLock(c)
           /\ \E o \in storage_remove_file(storage, p) : storage' = o.st
    <2>1. p \in DOMAIN storage.files
        BY <1>3 DEF HoldsLock, Owns, Found, Stored
    <2>2. PICK o \in storage_remove_file(storage, p) : storage' = o.st
        BY <1>3
    <2> HIDE DEF p
    <2>3. CASE /\ storage'.files = storage.files
               /\ storage'.fifo_queue = storage.fifo_queue
        <3>1. Sizes' = Sizes
            BY <2>3 DEF Sizes, Stored
        <3> QED
            BY <1>1, <2>3, <3>1 DEF Cache!vars
    <2>4. CASE /\ Queued(storage, p)
               /\ storage'.fifo_queue = list_remove_element(storage.fifo_queue, p)
               /\ \/ storage'.files = hash_map_remove(storage.files, p)
                  \/ storage'.files = hash_map_remove(KeyLost(storage.files, p), p)
        <3> DEFINE new == storage'.files
                   s   == storage.fifo_queue
        <3>1. \/ new = hash_map_remove(storage.files, p)
              \/ new = hash_map_remove(KeyLost(storage.files, p), p)
            BY <2>4
        <3> HIDE DEF new
        <3>2. /\ DOMAIN new = DOMAIN storage.files \ {p}
              /\ \A q \in DOMAIN storage.files \ {p} : new[q] = storage.files[q]
            BY <1>0, <2>1, <3>1, RemoveKeeps
        <3>3. Sizes' = Cache!Without(p)
            BY <3>2 DEF new, Sizes, Stored, Cache!Without
        <3>4. s \in Seq(Path) /\ DOMAIN s = 1 .. Len(s)
            BY <1>0, LenProperties DEF IsStorage
        <3>5. \E i \in 1 .. Len(s) : s[i] = p
            BY <2>4, <3>4 DEF Queued
        <3>6. PICK i \in 1 .. Len(s) : s[i] = p /\ list_remove_element(s, p) = RemoveAt(s, i)
            BY <1>0, <3>4, <3>5, ListRemoveElement DEF p
        <3>7. \E k \in DOMAIN storage.fifo_queue :
                 storage.fifo_queue[k] = p /\ storage'.fifo_queue = RemoveAt(storage.fifo_queue, k)
            BY <2>4, <3>4, <3>6
        <3>8. Cache!Delete(p)
            BY <1>1, <3>3, <3>7 DEF Cache!Delete, Cache!RemoveAt, RemoveAt
        <3> QED
            BY <1>0, <3>8 DEF Cache!Next
    <2> QED
        BY <1>0, <2>1, <2>2, <2>3, <2>4, RemoveFile DEF Stored
<1> QED
    BY <1>2, <1>3 DEF remove_file_handler

LEMMA CacheStep ==
    ASSUME NoCollision, RoomForAll, NoWrap, TypeOK, QueueResolves, WriterIsolated,
           Counted, ReplacementSucceeds, [Next]_vars
    PROVE  [Cache!Next]_Cache!vars
<1>1. CASE UNCHANGED vars
    BY <1>1 DEF vars, Cache!vars, Sizes, Stored, Writes
<1>2. ASSUME NEW c \in Client, NEW r \in Requests, worker_thread(c, r)
      PROVE  UNCHANGED Cache!vars
    <2>1. /\ UNCHANGED storage /\ pc[c] = "idle"
          /\ pc' = [pc EXCEPT ![c] = r.op] /\ req' = [req EXCEPT ![c] = r]
        BY <1>2 DEF worker_thread, At
    <2>2. r.op \in Op
        BY RequestsAssumption DEF Request
    <2>3. \A d \in Client : /\ pc'[d] = "replace" <=> pc[d] = "replace"
                            /\ pc[d] = "replace" => req'[d] = req[d]
        BY <2>1, <2>2 DEF TypeOK, Op
    <2>4. Writes' = Writes
        BY <2>3 DEF Writes
    <2> QED
        BY <2>1, <2>4, SizeSame, SizesUnchanged DEF Cache!vars
<1>3. ASSUME NEW c \in Client, CloseConnection(c)
      PROVE  UNCHANGED Cache!vars
    BY <1>3 DEF CloseConnection, Cache!vars, Sizes, Stored, Writes
<1>4. ASSUME NEW c \in Client, Handle(c)
      PROVE  [Cache!Next]_Cache!vars
    <2>1. CASE \/ OpenCreate(c) \/ WriteAdmitted(c) \/ storage_FIFO_replace(c)
               \/ WriteCommit(c) \/ remove_file_handler(c)
        BY <2>1, CacheCreate, CacheBegin, CacheExpel, CacheEnd, CacheDelete DEF Counted
    <2>2. CASE ~(\/ OpenCreate(c) \/ WriteAdmitted(c) \/ storage_FIFO_replace(c)
                 \/ WriteCommit(c) \/ remove_file_handler(c))
        <3>1. SizesKept(storage, storage')
            BY <1>4, <2>2, QuietHandle DEF WriterIsolated, Counted
        <3>2. pc'[c] # "replace"
            BY <1>4, <2>2, LabelHandle
        <3>3. pc[c] # "replace"
            BY <1>4, <2>2, TooBigThread DEF Handle, At, Removing, OpenLock, OpenNoFlag,
               close_file_handler, WriteRefused, WriteTooBig, append_to_file_handler,
               read_file_handler, ReadNCollect, ReadNFails, ReadNFree, ReadNFreed,
               ReadNSend, lock_file_handler, unlock_file_handler
        <3> QED
            BY <1>4, <3>1, <3>2, <3>3, SizesUnchanged, WritesUnchanged DEF Cache!vars
    <2> QED
        BY <2>1, <2>2
<1>5. CASE lock_manager_thread
    BY <1>5, LockManagerSizes, SizesUnchanged DEF Cache!vars, Writes
<1> QED
    BY <1>1, <1>2, <1>3, <1>4, <1>5 DEF Next

\* The handlers, the replacement and the lock manager together implement the cache.
THEOREM CacheImplemented ==
    ASSUME NoCollision, NoOversize, NoAppend, RoomForAll, NoWrap
    PROVE  Spec => ImplementsFileCache
<1>1. Init => Cache!Init
    BY DEF Init, storage_create, Cache!Init, Sizes, Stored, Writes
<1>2. TypeOK /\ QueueResolves /\ WriterIsolated /\ Counted /\ ReplacementSucceeds /\ [Next]_vars
         => [Cache!Next]_Cache!vars
    BY CacheStep
<1> QED
    BY <1>1, <1>2, TypeCorrect, QueueInvariant, CountedInvariant, ReplacementFinds, PTL
    DEF Spec, ImplementsFileCache, Cache!Spec
=============================================================================
