-------------------------- MODULE FileServerProofs --------------------------
(***************************************************************************)
(* What each function of storage.c does to a well-formed storage, and the  *)
(* types of FileServer, for every set of clients, paths and requests and   *)
(* every capacity.                                                         *)
(***************************************************************************)
EXTENDS FileServer, SequenceProofs

-----------------------------------------------------------------------------
\* list_remove_element takes out the first node that holds the path.

\* The queue without its first node for p: the other nodes stay, in order.
LEMMA ListRemoveElement ==
    ASSUME NEW q \in Seq(Path), NEW p \in Path
    PROVE  /\ list_remove_element(q, p) \in Seq(Path)
           /\ (~\E i \in 1 .. Len(q) : q[i] = p) => list_remove_element(q, p) = q
           /\ (\E i \in 1 .. Len(q) : q[i] = p) =>
                 \E k \in 1 .. Len(q) :
                    /\ q[k] = p
                    /\ list_remove_element(q, p) = RemoveAt(q, k)
BY RemoveFirstProperties DEF list_remove_element

-----------------------------------------------------------------------------
\* Every operation returns a well-formed storage.

LEMMA NewFileType == storage_create_file \in File
BY EmptySeq DEF storage_create_file, File

LEMMA NewStorageType == IsStorage(storage_create)
BY SizeAssumption, EmptySeq DEF storage_create, IsStorage, IsTable

LEMMA InsertType ==
    ASSUME NEW files, IsTable(files), NEW p \in Path, NEW f \in File
    PROVE  IsTable(hash_map_insert(files, p, f))
BY DEF IsTable, hash_map_insert

\* Any restriction of a table: hash_map_remove, a lost key, a freed list.
LEMMA RestrictType ==
    ASSUME NEW files, IsTable(files), NEW S \in SUBSET DOMAIN files
    PROVE  IsTable([q \in S |-> files[q]])
BY DEF IsTable

LEMMA RemoveType ==
    ASSUME NEW files, IsTable(files), NEW p
    PROVE  IsTable(hash_map_remove(files, p)) /\ IsTable(KeyLost(files, p))
BY RestrictType DEF hash_map_remove, KeyLost

\* Storage records, field by field.

LEMMA RecordType ==
    ASSUME NEW files, IsTable(files), NEW queue \in Seq(Path), NEW n \in Int,
           NEW s \in 0 .. (SizeMod - 1)
    PROVE  IsStorage([files |-> files, fifo_queue |-> queue,
                      no_of_files |-> n, current_size |-> s])
BY DEF IsStorage

\* The updates of a storage, one or two fields at a time, as record literals.
LEMMA ExceptOne ==
    ASSUME NEW st, IsStorage(st), NEW a
    PROVE  /\ [st EXCEPT !.files = a] =
                [files |-> a, fifo_queue |-> st.fifo_queue,
                 no_of_files |-> st.no_of_files, current_size |-> st.current_size]
           /\ [st EXCEPT !.fifo_queue = a] =
                [files |-> st.files, fifo_queue |-> a,
                 no_of_files |-> st.no_of_files, current_size |-> st.current_size]
           /\ [st EXCEPT !.no_of_files = a] =
                [files |-> st.files, fifo_queue |-> st.fifo_queue,
                 no_of_files |-> a, current_size |-> st.current_size]
           /\ [st EXCEPT !.current_size = a] =
                [files |-> st.files, fifo_queue |-> st.fifo_queue,
                 no_of_files |-> st.no_of_files, current_size |-> a]
BY DEF IsStorage

\* A double update is two updates.
LEMMA ExceptTwice ==
    ASSUME NEW st, NEW a, NEW b
    PROVE  /\ [st EXCEPT !.no_of_files = a, !.current_size = b] =
                [[st EXCEPT !.no_of_files = a] EXCEPT !.current_size = b]
           /\ [st EXCEPT !.files = a, !.no_of_files = b] =
                [[st EXCEPT !.files = a] EXCEPT !.no_of_files = b]
           /\ [st EXCEPT !.fifo_queue = a, !.files = b] =
                [[st EXCEPT !.fifo_queue = a] EXCEPT !.files = b]
           /\ [st EXCEPT !.fifo_queue = a, !.current_size = b] =
                [[st EXCEPT !.fifo_queue = a] EXCEPT !.current_size = b]
OBVIOUS

LEMMA SetCounters ==
    ASSUME NEW st, IsStorage(st), NEW a, NEW b
    PROVE  [st EXCEPT !.no_of_files = a, !.current_size = b] =
           [files |-> st.files, fifo_queue |-> st.fifo_queue,
            no_of_files |-> a, current_size |-> b]
<1> DEFINE t == [st EXCEPT !.no_of_files = a]
<1>1. t = [files |-> st.files, fifo_queue |-> st.fifo_queue,
          no_of_files |-> a, current_size |-> st.current_size]
    BY ExceptOne
<1> HIDE DEF t
<1>2. [t EXCEPT !.current_size = b] =
        [files |-> st.files, fifo_queue |-> st.fifo_queue,
         no_of_files |-> a, current_size |-> b]
    BY <1>1
<1> QED
    BY <1>2, ExceptTwice DEF t

LEMMA SetFilesNumber ==
    ASSUME NEW st, IsStorage(st), NEW a, NEW b
    PROVE  [st EXCEPT !.files = a, !.no_of_files = b] =
           [files |-> a, fifo_queue |-> st.fifo_queue,
            no_of_files |-> b, current_size |-> st.current_size]
<1> DEFINE t == [st EXCEPT !.files = a]
<1>1. t = [files |-> a, fifo_queue |-> st.fifo_queue,
          no_of_files |-> st.no_of_files, current_size |-> st.current_size]
    BY ExceptOne
<1> HIDE DEF t
<1>2. [t EXCEPT !.no_of_files = b] =
        [files |-> a, fifo_queue |-> st.fifo_queue,
         no_of_files |-> b, current_size |-> st.current_size]
    BY <1>1
<1> QED
    BY <1>2, ExceptTwice DEF t

LEMMA SetQueueFiles ==
    ASSUME NEW st, IsStorage(st), NEW a, NEW b
    PROVE  [st EXCEPT !.fifo_queue = a, !.files = b] =
           [files |-> b, fifo_queue |-> a,
            no_of_files |-> st.no_of_files, current_size |-> st.current_size]
<1> DEFINE t == [st EXCEPT !.fifo_queue = a]
<1>1. t = [files |-> st.files, fifo_queue |-> a,
          no_of_files |-> st.no_of_files, current_size |-> st.current_size]
    BY ExceptOne
<1> HIDE DEF t
<1>2. [t EXCEPT !.files = b] =
        [files |-> b, fifo_queue |-> a,
         no_of_files |-> st.no_of_files, current_size |-> st.current_size]
    BY <1>1
<1> QED
    BY <1>2, ExceptTwice DEF t

LEMMA SetQueueSize ==
    ASSUME NEW st, IsStorage(st), NEW a, NEW b
    PROVE  [st EXCEPT !.fifo_queue = a, !.current_size = b] =
           [files |-> st.files, fifo_queue |-> a,
            no_of_files |-> st.no_of_files, current_size |-> b]
<1> DEFINE t == [st EXCEPT !.fifo_queue = a]
<1>1. t = [files |-> st.files, fifo_queue |-> a,
          no_of_files |-> st.no_of_files, current_size |-> st.current_size]
    BY ExceptOne
<1> HIDE DEF t
<1>2. [t EXCEPT !.current_size = b] =
        [files |-> st.files, fifo_queue |-> a,
         no_of_files |-> st.no_of_files, current_size |-> b]
    BY <1>1
<1> QED
    BY <1>2, ExceptTwice DEF t

-----------------------------------------------------------------------------
\* What the operations do to each field, and that the result is a storage.

LEMMA UpdateFile ==
    ASSUME NEW st, IsStorage(st), NEW p \in Path, NEW f \in File
    PROVE  /\ IsStorage(storage_update_file(st, p, f))
           /\ storage_update_file(st, p, f).files = hash_map_insert(st.files, p, f)
           /\ storage_update_file(st, p, f).fifo_queue = st.fifo_queue
           /\ storage_update_file(st, p, f).no_of_files = st.no_of_files
           /\ storage_update_file(st, p, f).current_size = st.current_size
<1>1. IsTable(hash_map_insert(st.files, p, f))
    BY InsertType DEF IsStorage
<1> QED
    BY <1>1, ExceptOne, RecordType DEF IsStorage, storage_update_file

LEMMA AddFile ==
    ASSUME NEW st, IsStorage(st), NEW p \in Path, NEW f \in File
    PROVE  /\ IsStorage(storage_add_file(st, p, f))
           /\ storage_add_file(st, p, f).files = hash_map_insert(st.files, p, f)
           /\ storage_add_file(st, p, f).fifo_queue = st.fifo_queue
           /\ storage_add_file(st, p, f).no_of_files = st.no_of_files + 1
           /\ storage_add_file(st, p, f).current_size = st.current_size
<1>1. IsTable(hash_map_insert(st.files, p, f))
    BY InsertType DEF IsStorage
<1>2. storage_add_file(st, p, f) =
        [files |-> hash_map_insert(st.files, p, f), fifo_queue |-> st.fifo_queue,
         no_of_files |-> st.no_of_files + 1, current_size |-> st.current_size]
    BY SetFilesNumber DEF storage_add_file
<1>3. /\ st.fifo_queue \in Seq(Path) /\ st.no_of_files + 1 \in Int
      /\ st.current_size \in 0 .. (SizeMod - 1)
    BY DEF IsStorage
<1> QED
    BY <1>1, <1>2, <1>3, RecordType

LEMMA UncountFile ==
    ASSUME NEW st, IsStorage(st), NEW p \in Stored(st)
    PROVE  /\ IsStorage(Uncount(st, p))
           /\ Uncount(st, p).files = st.files
           /\ Uncount(st, p).fifo_queue = st.fifo_queue
           /\ Uncount(st, p).no_of_files = st.no_of_files - 1
           /\ Uncount(st, p).current_size = (st.current_size - st.files[p].size) % SizeMod
<1> DEFINE n == st.no_of_files - 1
           s == (st.current_size - st.files[p].size) % SizeMod
<1>1. Uncount(st, p) = [files |-> st.files, fifo_queue |-> st.fifo_queue,
                        no_of_files |-> n, current_size |-> s]
    BY SetCounters DEF Uncount
<1>2. st.files[p].size \in Nat
    BY DEF IsStorage, IsTable, Stored, File
<1>3. n \in Int /\ s \in 0 .. (SizeMod - 1)
    BY <1>2, SizeAssumption DEF IsStorage
<1>4. IsTable(st.files) /\ st.fifo_queue \in Seq(Path)
    BY DEF IsStorage
<1> HIDE DEF n, s
<1>5. /\ Uncount(st, p).files = st.files /\ Uncount(st, p).fifo_queue = st.fifo_queue
      /\ Uncount(st, p).no_of_files = n /\ Uncount(st, p).current_size = s
    BY <1>1
<1>6. IsStorage(Uncount(st, p))
    BY <1>1, <1>3, <1>4, RecordType
<1> QED
    BY <1>5, <1>6 DEF n, s

LEMMA UnlinkFile ==
    ASSUME NEW st, IsStorage(st), NEW p \in Path, NEW o \in UnlinkOutcomes(st, p)
    PROVE  /\ IsStorage(o.st) /\ o.freed \in BOOLEAN
           /\ o.st.fifo_queue = list_remove_element(st.fifo_queue, p)
           /\ o.st.no_of_files = st.no_of_files
           /\ o.st.current_size = st.current_size
           /\ \/ o.st.files = st.files
              \/ o.st.files = KeyLost(st.files, p)
<1> DEFINE u == [st EXCEPT !.fifo_queue = list_remove_element(@, p)]
           l == [u EXCEPT !.files = KeyLost(@, p)]
<1>1. list_remove_element(st.fifo_queue, p) \in Seq(Path)
    BY ListRemoveElement DEF IsStorage
<1>2. /\ IsStorage(u) /\ u.files = st.files
      /\ u.fifo_queue = list_remove_element(st.fifo_queue, p)
      /\ u.no_of_files = st.no_of_files /\ u.current_size = st.current_size
    BY <1>1, ExceptOne, RecordType DEF IsStorage
<1>3. \/ o = [st |-> l, freed |-> FALSE]
      \/ o = [st |-> u, freed |-> TRUE]
      \/ o = [st |-> u, freed |-> FALSE]
    BY DEF UnlinkOutcomes
<1> HIDE DEF u
<1>4. IsTable(KeyLost(u.files, p))
    BY <1>2, RemoveType DEF IsStorage
<1>5. /\ IsStorage(l) /\ l.files = KeyLost(u.files, p)
      /\ l.fifo_queue = u.fifo_queue /\ l.no_of_files = u.no_of_files
      /\ l.current_size = u.current_size
    BY <1>2, <1>4, ExceptOne, RecordType DEF IsStorage
<1> HIDE DEF l
<1>6. CASE o = [st |-> l, freed |-> FALSE]
    <2>1. o.st = l /\ o.freed = FALSE
        BY <1>6
    <2> QED
        BY <1>2, <1>5, <2>1
<1>7. CASE o = [st |-> u, freed |-> TRUE]
    <2>1. o.st = u /\ o.freed = TRUE
        BY <1>7
    <2> QED
        BY <1>2, <2>1
<1>8. CASE o = [st |-> u, freed |-> FALSE]
    <2>1. o.st = u /\ o.freed = FALSE
        BY <1>8
    <2> QED
        BY <1>2, <2>1
<1> QED
    BY <1>3, <1>6, <1>7, <1>8

LEMMA UnhashFile ==
    ASSUME NEW st, IsStorage(st), NEW p, NEW freed,
           NEW o \in UnhashOutcomes(st, p, freed)
    PROVE  /\ IsStorage(o.st) /\ o.up \in BOOLEAN
           /\ o.st.fifo_queue = st.fifo_queue
           /\ o.st.no_of_files = st.no_of_files
           /\ o.st.current_size = st.current_size
           /\ o.st.files = hash_map_remove(st.files, p)
<1>1. IsTable(hash_map_remove(st.files, p))
    BY RemoveType DEF IsStorage
<1>2. o.st = [st EXCEPT !.files = hash_map_remove(@, p)] /\ o.up \in BOOLEAN
    BY DEF UnhashOutcomes
<1> QED
    BY <1>1, <1>2, ExceptOne, RecordType DEF IsStorage

LEMMA ExpelFile ==
    ASSUME NEW st, IsStorage(st), CanExpel(st)
    PROVE  /\ IsStorage(Expel(st))
           /\ Expel(st).fifo_queue = Tail(st.fifo_queue)
           /\ Expel(st).files = hash_map_remove(st.files, Head(st.fifo_queue))
           /\ Expel(st).no_of_files = st.no_of_files - 1
           /\ Expel(st).current_size =
                (st.current_size - st.files[Head(st.fifo_queue)].size) % SizeMod
<1> DEFINE p == Head(st.fifo_queue)
           u == Uncount(st, p)
<1>1. Tail(st.fifo_queue) \in Seq(Path)
    BY HeadTailProperties DEF IsStorage, CanExpel
<1>2. IsTable(hash_map_remove(st.files, p))
    BY RemoveType DEF IsStorage
<1>3. /\ IsStorage(u) /\ u.fifo_queue = st.fifo_queue /\ u.files = st.files
      /\ u.no_of_files = st.no_of_files - 1
      /\ u.current_size = (st.current_size - st.files[p].size) % SizeMod
    BY UncountFile DEF CanExpel
<1>4. Expel(st) = [u EXCEPT !.fifo_queue = Tail(u.fifo_queue),
                            !.files      = hash_map_remove(u.files, p)]
    BY DEF Expel
<1> HIDE DEF u
<1>5. Expel(st) = [files |-> hash_map_remove(u.files, p),
                   fifo_queue |-> Tail(u.fifo_queue),
                   no_of_files |-> u.no_of_files, current_size |-> u.current_size]
    BY <1>3, <1>4, SetQueueFiles
<1>6. u.no_of_files \in Int /\ u.current_size \in 0 .. (SizeMod - 1)
    BY <1>3 DEF IsStorage
<1>7. /\ Expel(st).files = hash_map_remove(st.files, p)
      /\ Expel(st).fifo_queue = Tail(st.fifo_queue)
      /\ Expel(st).no_of_files = st.no_of_files - 1
      /\ Expel(st).current_size = (st.current_size - st.files[p].size) % SizeMod
    BY <1>3, <1>5
<1>8. IsStorage(Expel(st))
    <2>1. IsTable(hash_map_remove(u.files, p)) /\ Tail(u.fifo_queue) \in Seq(Path)
        BY <1>1, <1>2, <1>3
    <2> HIDE DEF p
    <2> QED
        BY <1>5, <1>6, <2>1, RecordType
<1> QED
    BY <1>7, <1>8

\* storage_remove_file either leaves the table alone, but for the counters, or
\* it unlinks the first node of the path and drops the bucket.
LEMMA RemoveFile ==
    ASSUME NEW st, IsStorage(st), NEW p \in Path, NEW o \in storage_remove_file(st, p)
    PROVE  /\ IsStorage(o.st) /\ o.up \in BOOLEAN
           /\ o.st.no_of_files = IF p \in Stored(st) THEN st.no_of_files - 1
                                                     ELSE st.no_of_files
           /\ o.st.current_size = IF p \in Stored(st)
                                  THEN (st.current_size - st.files[p].size) % SizeMod
                                  ELSE st.current_size
           /\ \/ /\ o.st.files = st.files /\ o.st.fifo_queue = st.fifo_queue
                 /\ p \notin Stored(st) \/ ~Queued(st, p)
              \/ /\ p \in Stored(st) /\ Queued(st, p)
                 /\ o.st.fifo_queue = list_remove_element(st.fifo_queue, p)
                 /\ \/ o.st.files = hash_map_remove(st.files, p)
                    \/ o.st.files = hash_map_remove(KeyLost(st.files, p), p)
<1>1. CASE p \notin Stored(st)
    BY <1>1 DEF storage_remove_file
<1>2. CASE p \in Stored(st) /\ ~Queued(st, p)
    <2>1. o.st = Uncount(st, p) /\ o.up = TRUE
        BY <1>2 DEF storage_remove_file
    <2> QED
        BY <1>2, <2>1, UncountFile
<1>3. CASE p \in Stored(st) /\ Queued(st, p)
    <2>1. PICK u \in UnlinkOutcomes(Uncount(st, p), p) :
             o \in UnhashOutcomes(u.st, p, u.freed)
        BY <1>3 DEF storage_remove_file
    <2>2. /\ IsStorage(u.st)
          /\ u.st.fifo_queue = list_remove_element(st.fifo_queue, p)
          /\ u.st.no_of_files = st.no_of_files - 1
          /\ u.st.current_size = (st.current_size - st.files[p].size) % SizeMod
          /\ u.st.files = st.files \/ u.st.files = KeyLost(st.files, p)
        BY <1>3, <2>1, UncountFile, UnlinkFile
    <2>3. /\ IsStorage(o.st) /\ o.up \in BOOLEAN
          /\ o.st.fifo_queue = u.st.fifo_queue
          /\ o.st.no_of_files = u.st.no_of_files
          /\ o.st.current_size = u.st.current_size
          /\ o.st.files = hash_map_remove(u.st.files, p)
        BY <2>1, <2>2, UnhashFile
    <2> QED
        BY <1>3, <2>2, <2>3
<1> QED
    BY <1>1, <1>2, <1>3

-----------------------------------------------------------------------------
\* Types of the pieces the actions are built from.

LEMMA StoredFile ==
    ASSUME NEW st, IsStorage(st), NEW p \in Stored(st)
    PROVE  p \in Path /\ st.files[p] \in File
BY DEF IsStorage, IsTable, Stored

LEMMA NoRequestType == NoRequest \in Request
<1>1. (CHOOSE p \in Path : TRUE) \in Path
    BY PathAssumption
<1> QED
    BY <1>1 DEF NoRequest, Request, Op

LEMMA NoLocalType == NoLocal \in Local
BY NewFileType, EmptySeq, SizeAssumption DEF NoLocal, Local

LEMMA ReturnType ==
    ASSUME TypeOK, NEW c \in Client, NEW k \in Nat, Return(c, k)
    PROVE  /\ pc' \in [Client -> Labels] /\ req' \in [Client -> Request]
           /\ replies' \in [Client -> Nat]
BY NoRequestType DEF TypeOK, Return, Labels

LEMMA GotoType ==
    ASSUME TypeOK, NEW c \in Client, NEW label \in Labels, Goto(c, label)
    PROVE  /\ pc' \in [Client -> Labels] /\ req' \in [Client -> Request]
           /\ replies' \in [Client -> Nat]
BY DEF TypeOK, Goto

LEMMA FreeingType ==
    ASSUME TypeOK, NEW P
    PROVE  Freeing(P) \in [Client -> Local]
<1>1. ASSUME NEW d \in Client
      PROVE  [local[d] EXCEPT !.freed = TRUE] \in Local
    <2>1. local[d] \in Local
        BY DEF TypeOK
    <2> QED
        BY <2>1 DEF Local
<1> QED
    BY <1>1 DEF Freeing, TypeOK

LEMMA ForgetType ==
    ASSUME TypeOK, NEW c \in Client, Forget(c)
    PROVE  local' \in [Client -> Local]
BY NoLocalType DEF TypeOK, Forget

LEMMA MutexType ==
    ASSUME TypeOK, NEW c \in Client,
           InMutex \/ Lock(c) \/ Unlock \/ UNCHANGED access
    PROVE  access' \in Client \cup {NoClient}
BY DEF TypeOK, InMutex, Lock, Unlock

\* The locks of a file are set and cleared on a well-formed file.
LEMMA LockUpdateType ==
    ASSUME TypeOK, NEW c \in Client, Found(c), SetLock(c) \/ ClearLock(c)
    PROVE  IsStorage(storage')
<1>1. File_(c) \in File /\ req[c].path \in Path /\ IsStorage(storage)
    BY StoredFile DEF TypeOK, Found, File_
<1>2. [File_(c) EXCEPT !.flags = @ \cup {"O_LOCK"}, !.locked_by = c] \in File
    BY <1>1 DEF File
<1>3. [File_(c) EXCEPT !.flags = @ \ {"O_LOCK"}, !.locked_by = NoClient] \in File
    BY <1>1 DEF File
<1> QED
    BY <1>1, <1>2, <1>3, UpdateFile DEF SetLock, ClearLock

-----------------------------------------------------------------------------
\* Every step preserves the types, operation by operation.

LEMMA RequestStepsType ==
    ASSUME TypeOK, NEW c \in Client
    PROVE  /\ \A r \in Requests : worker_thread(c, r) => TypeOK'
           /\ CloseConnection(c) => TypeOK'
<1>1. ASSUME NEW r \in Requests, worker_thread(c, r)
      PROVE  TypeOK'
    <2>1. r \in Request /\ r.op \in Labels
        BY RequestsAssumption DEF Request, Labels
    <2>2. pc' \in [Client -> Labels] /\ req' \in [Client -> Request]
        BY <1>1, <2>1 DEF worker_thread, TypeOK
    <2>3. replies' \in [Client -> Nat]
        BY <1>1 DEF worker_thread, TypeOK
    <2> QED
        BY <1>1, <2>2, <2>3 DEF worker_thread, TypeOK
<1>2. ASSUME CloseConnection(c)
      PROVE  TypeOK'
    BY <1>2 DEF CloseConnection, TypeOK
<1> QED
    BY <1>1, <1>2

LEMMA OpenNextType ==
    ASSUME TypeOK, NEW c \in Client, NEW flag, OpenNext(c, flag)
    PROVE  /\ pc' \in [Client -> Labels] /\ req' \in [Client -> Request]
           /\ replies' \in [Client -> Nat]
<1> DEFINE rest == req[c].flags \ {flag}
<1>1. CASE rest = {}
    BY <1>1, ReturnType DEF OpenNext
<1>2. CASE rest # {}
    <2>1. req' = [req EXCEPT ![c].flags = rest] /\ UNCHANGED <<pc, replies>>
        BY <1>2 DEF OpenNext
    <2>2. req[c] \in Request
        BY DEF TypeOK
    <2>3. [req[c] EXCEPT !.flags = rest] \in Request
        BY <2>2 DEF Request
    <2> QED
        BY <2>1, <2>3 DEF TypeOK
<1> QED
    BY <1>1, <1>2

LEMMA OpenCreateType ==
    ASSUME TypeOK, NEW c \in Client, OpenCreate(c)
    PROVE  TypeOK'
<1> DEFINE p == Head(storage.fifo_queue)
           popped == [storage EXCEPT !.fifo_queue = Tail(@)]
<1>1. access' \in Client \cup {NoClient} /\ IsStorage(storage) /\ req[c].path \in Path
    BY MutexType DEF OpenCreate, TypeOK, Request
<1>2. CASE Return(c, 1) /\ UNCHANGED <<storage, local, up>>
    BY <1>1, <1>2, ReturnType DEF TypeOK
<1>3. CASE /\ storage.fifo_queue # <<>>
           /\ \E o \in storage_remove_file(popped, p) :
                 /\ storage' = storage_add_file(o.st, req[c].path, storage_create_file)
                 /\ up' = o.up
           /\ local' = IF Queued(popped, p)
                       THEN Freeing({p} \cap Stored(storage)) ELSE local
           /\ OpenNext(c, "O_CREATE")
    <2>1. p \in Path /\ Tail(storage.fifo_queue) \in Seq(Path)
        BY <1>1, <1>3, HeadTailProperties DEF IsStorage
    <2>2. IsStorage(popped)
        BY <1>1, <2>1, ExceptOne, RecordType DEF IsStorage
    <2> HIDE DEF popped, p
    <2>3. PICK o \in storage_remove_file(popped, p) :
             /\ storage' = storage_add_file(o.st, req[c].path, storage_create_file)
             /\ up' = o.up
        BY <1>3
    <2>4. IsStorage(o.st) /\ o.up \in BOOLEAN
        BY <2>1, <2>2, RemoveFile
    <2>5. IsStorage(storage') /\ up' \in BOOLEAN
        BY <1>1, <2>3, <2>4, AddFile, NewFileType
    <2>6. local' \in [Client -> Local]
        BY <1>3, FreeingType DEF TypeOK
    <2> QED
        BY <1>1, <1>3, <2>5, <2>6, OpenNextType DEF TypeOK
<1>4. CASE /\ storage' = storage_add_file(storage, req[c].path, storage_create_file)
           /\ OpenNext(c, "O_CREATE")
           /\ UNCHANGED <<local, up>>
    BY <1>1, <1>4, AddFile, NewFileType, OpenNextType DEF TypeOK
<1> HIDE DEF p, popped
<1> QED
    BY <1>2, <1>3, <1>4 DEF OpenCreate, p, popped

LEMMA OpenStepsType ==
    ASSUME TypeOK, NEW c \in Client,
           OpenLock(c) \/ OpenNoFlag(c) \/ close_file_handler(c)
    PROVE  TypeOK'
<1>1. CASE OpenLock(c)
    <2>1. access' \in Client \cup {NoClient}
        BY <1>1, MutexType DEF OpenLock
    <2>2. CASE ~Found(c) \/ HoldsLock(c)
        BY <1>1, <2>1, <2>2, ReturnType DEF OpenLock, TypeOK
    <2>3. CASE Found(c) /\ ~HoldsLock(c)
        BY <1>1, <2>1, <2>3, LockUpdateType, OpenNextType DEF OpenLock, TypeOK
    <2> QED
        BY <2>2, <2>3
<1>2. CASE OpenNoFlag(c)
    BY <1>2, MutexType, ReturnType DEF OpenNoFlag, TypeOK
<1>3. CASE close_file_handler(c)
    <2>1. IsStorage(storage')
        BY <1>3, LockUpdateType DEF close_file_handler, HoldsLock, Owns, TypeOK
    <2> QED
        BY <1>3, <2>1, MutexType, ReturnType DEF close_file_handler, TypeOK
<1> QED
    BY <1>1, <1>2, <1>3

LEMMA WriteStepsType ==
    ASSUME TypeOK, NEW c \in Client,
           \/ WriteRefused(c) \/ WriteTooBig(c) \/ WriteAdmitted(c)
           \/ storage_FIFO_replace(c) \/ WriteCommit(c)
    PROVE  TypeOK'
<1>1. CASE WriteRefused(c)
    BY <1>1, MutexType, ReturnType DEF WriteRefused, TypeOK
<1>2. CASE WriteTooBig(c)
    <2>1. "too_big" \in Labels
        BY DEF Labels, Removing
    <2> QED
        BY <1>2, <2>1, MutexType, GotoType DEF WriteTooBig, TypeOK
<1>3. CASE WriteAdmitted(c)
    <2>1. "replace" \in Labels
        BY DEF Labels
    <2>2. File_(c) \in File
        BY <1>3, StoredFile DEF WriteAdmitted, Owns, Found, File_, TypeOK
    <2>3. local[c] \in Local
        BY DEF TypeOK
    <2>4. [local[c] EXCEPT !.file = File_(c)] \in Local
        BY <2>2, <2>3 DEF Local
    <2>5. local' \in [Client -> Local]
        BY <1>3, <2>4 DEF WriteAdmitted, TypeOK
    <2> QED
        BY <1>3, <2>1, <2>5, MutexType, GotoType DEF WriteAdmitted, TypeOK
<1>4. CASE storage_FIFO_replace(c)
    <2>1. CASE CanExpel(storage)
        BY <1>4, <2>1, ExpelFile, FreeingType DEF storage_FIFO_replace, TypeOK
    <2>2. CASE ~CanExpel(storage)
        BY <1>4, <2>2 DEF storage_FIFO_replace, TypeOK
    <2> QED
        BY <2>1, <2>2
<1>5. CASE WriteCommit(c)
    <2> DEFINE f == [local[c].file EXCEPT !.flags = @ \ {"O_CREATE"}, !.size = req[c].n]
               u == storage_update_file(storage, req[c].path, f)
               q == Append(u.fifo_queue, req[c].path)
               s == (u.current_size + req[c].n) % SizeMod
    <2>1. local[c].file \in File /\ req[c].n \in Nat /\ req[c].path \in Path
        BY DEF TypeOK, Local, Request
    <2>2. f \in File
        BY <2>1 DEF File
    <2>3. IsStorage(u)
        BY <2>1, <2>2, UpdateFile DEF TypeOK
    <2>4. storage' = [u EXCEPT !.fifo_queue = q, !.current_size = s]
        BY <1>5 DEF WriteCommit
    <2> HIDE DEF f, u
    <2>5. u.fifo_queue \in Seq(Path) /\ u.current_size \in Nat
        BY <2>3 DEF IsStorage
    <2>6. q \in Seq(Path)
        BY <2>1, <2>5, AppendProperties
    <2> HIDE DEF q
    <2>7. s \in 0 .. (SizeMod - 1)
        <3>1. u.current_size + req[c].n \in Nat
            BY <2>1, <2>5
        <3> QED
            BY <3>1, SizeAssumption
    <2>8. u.no_of_files \in Int /\ IsTable(u.files)
        BY <2>3 DEF IsStorage
    <2> HIDE DEF s
    <2>9. storage' = [files |-> u.files, fifo_queue |-> q,
                      no_of_files |-> u.no_of_files, current_size |-> s]
        BY <2>3, <2>4, SetQueueSize
    <2>10. IsStorage(storage')
        BY <2>6, <2>7, <2>8, <2>9, RecordType
    <2>11. up' \in BOOLEAN
        BY <1>5 DEF WriteCommit
    <2> QED
        BY <1>5, <2>10, <2>11, MutexType, ReturnType, ForgetType DEF WriteCommit, TypeOK
<1> QED
    BY <1>1, <1>2, <1>3, <1>4, <1>5

\* A removal of an oversize file goes on with its next access, or ends.
LEMMA TooBigThread ==
    ASSUME NEW c \in Client, TooBig(c)
    PROVE  /\ pc[c] \in Removing
           /\ Return(c, 1) \/ \E label \in Removing : Goto(c, label)
BY DEF TooBig, TooBigFind, TooBigLoadCount, TooBigStoreCount, TooBigLoadSize,
       TooBigStoreSize, TooBigUnlink, TooBigUnhash, Removing, At

\* The unlocked updates of the counters.
LEMMA TooBigCountType ==
    ASSUME TypeOK, NEW c \in Client,
           \/ TooBigFind(c) \/ TooBigLoadCount(c) \/ TooBigStoreCount(c)
           \/ TooBigLoadSize(c) \/ TooBigStoreSize(c)
    PROVE  TypeOK'
<1>0. /\ {"load_count", "store_count", "load_size", "store_size", "unlink"} \subseteq Labels
      /\ req[c].path \in Path /\ local[c] \in Local /\ IsStorage(storage)
    BY DEF Labels, Removing, TypeOK, Request
<1>1. CASE TooBigFind(c)
    <2>1. CASE Found(c)
        <3>1. File_(c) \in File
            BY <1>0, <2>1, StoredFile DEF Found, File_
        <3>2. [local[c] EXCEPT !.file = File_(c)] \in Local
            BY <1>0, <3>1 DEF Local
        <3>3. local' \in [Client -> Local]
            BY <1>1, <2>1, <3>2 DEF TooBigFind, TypeOK
        <3> QED
            BY <1>0, <1>1, <2>1, <3>3, GotoType DEF TooBigFind, TypeOK
    <2>2. CASE ~Found(c)
        BY <1>1, <2>2, ReturnType DEF TooBigFind, TypeOK
    <2> QED
        BY <2>1, <2>2
<1>2. CASE TooBigLoadCount(c)
    <2> DEFINE n == storage.no_of_files - 1
    <2>1. n \in Int
        <3>1. storage.no_of_files \in Int
            BY <1>0 DEF IsStorage
        <3> QED
            BY <3>1
    <2>2. local' = [local EXCEPT ![c].no_of_files = n]
        BY <1>2 DEF TooBigLoadCount
    <2> HIDE DEF n
    <2>3. [local[c] EXCEPT !.no_of_files = n] \in Local
        BY <1>0, <2>1 DEF Local
    <2>4. local' \in [Client -> Local]
        BY <2>2, <2>3 DEF TypeOK
    <2> QED
        BY <1>0, <1>2, <2>4, GotoType DEF TooBigLoadCount, TypeOK
<1>3. CASE TooBigStoreCount(c)
    <2> DEFINE n == local[c].no_of_files
    <2>1. /\ n \in Int /\ IsTable(storage.files) /\ storage.fifo_queue \in Seq(Path)
          /\ storage.current_size \in 0 .. (SizeMod - 1)
        BY <1>0 DEF Local, IsStorage
    <2>2. storage' = [storage EXCEPT !.no_of_files = n]
        BY <1>3 DEF TooBigStoreCount
    <2> HIDE DEF n
    <2>3. IsStorage(storage')
        <3>1. storage' = [files |-> storage.files, fifo_queue |-> storage.fifo_queue,
                          no_of_files |-> n, current_size |-> storage.current_size]
            BY <1>0, <2>2, ExceptOne
        <3> QED
            BY <2>1, <3>1, RecordType
    <2>4. [local[c] EXCEPT !.no_of_files = 0] \in Local
        BY <1>0 DEF Local
    <2>5. local' \in [Client -> Local]
        BY <1>3, <2>4 DEF TooBigStoreCount, TypeOK
    <2> QED
        BY <1>0, <1>3, <2>3, <2>5, GotoType DEF TooBigStoreCount, TypeOK
<1>4. CASE TooBigLoadSize(c)
    <2>1. SizeRead(c) \subseteq Nat
        <3>1. local[c].file.size \in Nat
            BY <1>0 DEF Local, File
        <3>2. \A q \in {req[c].path} \cap Stored(storage) : storage.files[q].size \in Nat
            BY <1>0, StoredFile DEF File
        <3> QED
            BY <3>1, <3>2, SizeAssumption DEF SizeRead
    <2>2. PICK size \in SizeRead(c) :
             local' = [local EXCEPT ![c] = [NoLocal EXCEPT
                         !.current_size = (storage.current_size - size) % SizeMod]]
        BY <1>4 DEF TooBigLoadSize
    <2> DEFINE n == (storage.current_size - size) % SizeMod
    <2>3. n \in 0 .. (SizeMod - 1)
        <3>1. storage.current_size \in Nat /\ size \in Nat
            BY <1>0, <2>1, SizeAssumption DEF IsStorage
        <3> QED
            BY <3>1, SizeAssumption
    <2>4. local' = [local EXCEPT ![c] = [NoLocal EXCEPT !.current_size = n]]
        BY <2>2
    <2> HIDE DEF n
    <2>5. [NoLocal EXCEPT !.current_size = n] \in Local
        BY <2>3, NoLocalType DEF Local
    <2>6. local' \in [Client -> Local]
        BY <2>4, <2>5 DEF TypeOK
    <2>7. up' \in BOOLEAN
        BY <1>4 DEF TooBigLoadSize
    <2> QED
        BY <1>0, <1>4, <2>6, <2>7, GotoType DEF TooBigLoadSize, TypeOK
<1>5. CASE TooBigStoreSize(c)
    <2> DEFINE n == local[c].current_size
    <2>1. /\ n \in 0 .. (SizeMod - 1) /\ IsTable(storage.files)
          /\ storage.fifo_queue \in Seq(Path) /\ storage.no_of_files \in Int
        BY <1>0 DEF Local, IsStorage
    <2>2. storage' = [storage EXCEPT !.current_size = n]
        BY <1>5 DEF TooBigStoreSize
    <2> HIDE DEF n
    <2>3. IsStorage(storage')
        <3>1. storage' = [files |-> storage.files, fifo_queue |-> storage.fifo_queue,
                          no_of_files |-> storage.no_of_files, current_size |-> n]
            BY <1>0, <2>2, ExceptOne
        <3> QED
            BY <2>1, <3>1, RecordType
    <2> QED
        BY <1>0, <1>5, <2>3, GotoType, ForgetType DEF TooBigStoreSize, TypeOK
<1> QED
    BY <1>1, <1>2, <1>3, <1>4, <1>5

LEMMA TooBigStepsType ==
    ASSUME TypeOK, NEW c \in Client, TooBig(c)
    PROVE  TypeOK'
<1>0. /\ "unhash" \in Labels
      /\ req[c].path \in Path /\ local[c] \in Local /\ IsStorage(storage)
    BY DEF Labels, Removing, TypeOK, Request
<1>1. CASE TooBigUnlink(c)
    <2>1. CASE Queued(storage, req[c].path)
        <3> DEFINE F == Freeing({req[c].path})
        <3>1. PICK o \in UnlinkOutcomes(storage, req[c].path) :
                 /\ storage' = o.st
                 /\ local' = [F EXCEPT ![c].freed = o.freed]
            BY <1>1, <2>1 DEF TooBigUnlink
        <3>2. IsStorage(storage') /\ o.freed \in BOOLEAN
            BY <1>0, <3>1, UnlinkFile
        <3>3. F \in [Client -> Local]
            BY FreeingType
        <3> HIDE DEF F
        <3>4. [F[c] EXCEPT !.freed = o.freed] \in Local
            BY <3>2, <3>3 DEF Local
        <3>5. local' \in [Client -> Local]
            BY <3>1, <3>3, <3>4
        <3> QED
            BY <1>0, <1>1, <2>1, <3>2, <3>5, GotoType DEF TooBigUnlink, TypeOK
    <2>2. CASE ~Queued(storage, req[c].path)
        BY <1>1, <2>2, ReturnType, ForgetType DEF TooBigUnlink, TypeOK
    <2> QED
        BY <2>1, <2>2
<1>2. CASE TooBigUnhash(c)
    <2>1. PICK o \in UnhashOutcomes(storage, req[c].path, local[c].freed) :
             storage' = o.st /\ up' = o.up
        BY <1>2 DEF TooBigUnhash
    <2>2. IsStorage(storage') /\ up' \in BOOLEAN
        BY <1>0, <2>1, UnhashFile
    <2>3. local' \in [Client -> Local]
        BY <1>2, FreeingType, NoLocalType DEF TooBigUnhash
    <2> QED
        BY <1>2, <2>2, <2>3, ReturnType DEF TooBigUnhash, TypeOK
<1> QED
    BY <1>1, <1>2, TooBigCountType DEF TooBig

LEMMA AppendStepsType ==
    ASSUME TypeOK, NEW c \in Client,
           append_to_file_handler(c) \/ read_file_handler(c)
    PROVE  TypeOK'
<1>1. CASE append_to_file_handler(c)
    <2>1. access' \in Client \cup {NoClient}
        BY <1>1, MutexType DEF append_to_file_handler
    <2>2. pc' \in [Client -> Labels] /\ replies' \in [Client -> Nat]
        BY <1>1 DEF append_to_file_handler, TypeOK, Labels, Op
    <2>3. IsStorage(storage')
        <3>1. CASE UNCHANGED storage
            BY <3>1 DEF TypeOK
        <3>2. CASE Found(c) /\ storage' =
                     [storage_update_file(storage, req[c].path,
                         [File_(c) EXCEPT !.size = @ + req[c].n])
                      EXCEPT !.current_size = (@ + req[c].n) % SizeMod]
            <4> DEFINE f == [File_(c) EXCEPT !.size = @ + req[c].n]
                       u == storage_update_file(storage, req[c].path, f)
                       s == (u.current_size + req[c].n) % SizeMod
            <4>1. File_(c) \in File /\ req[c].n \in Nat /\ req[c].path \in Path
                BY <3>2, StoredFile DEF TypeOK, Request, Found, File_
            <4>2. f \in File
                BY <4>1 DEF File
            <4>3. IsStorage(u)
                BY <4>1, <4>2, UpdateFile DEF TypeOK
            <4>4. storage' = [u EXCEPT !.current_size = s]
                BY <3>2
            <4> HIDE DEF f, u
            <4>5. u.current_size \in Nat
                BY <4>3 DEF IsStorage
            <4>6. s \in 0 .. (SizeMod - 1)
                BY <4>1, <4>5, SizeAssumption
            <4> HIDE DEF s
            <4>7. storage' = [files |-> u.files, fifo_queue |-> u.fifo_queue,
                              no_of_files |-> u.no_of_files, current_size |-> s]
                BY <4>3, <4>4, ExceptOne
            <4>8. /\ IsTable(u.files) /\ u.fifo_queue \in Seq(Path)
                  /\ u.no_of_files \in Int
                BY <4>3 DEF IsStorage
            <4> QED
                BY <4>6, <4>7, <4>8, RecordType
        <3> QED
            BY <1>1, <3>1, <3>2 DEF append_to_file_handler, Owns
    <2> QED
        BY <1>1, <2>1, <2>2, <2>3 DEF append_to_file_handler, TypeOK
<1>2. CASE read_file_handler(c)
    BY <1>2, MutexType, ReturnType DEF read_file_handler, TypeOK
<1> QED
    BY <1>1, <1>2

LEMMA ReadNStepsType ==
    ASSUME TypeOK, NEW c \in Client,
           \/ ReadNCollect(c) \/ ReadNFails(c) \/ ReadNFree(c) \/ ReadNFreed(c)
           \/ ReadNSend(c)
    PROVE  TypeOK'
<1>1. CASE ReadNCollect(c)
    <2> DEFINE queue == storage.fifo_queue
               k     == IF Wanted(c) < Len(queue) THEN Wanted(c) ELSE Len(queue)
               list  == SubSeq(queue, 1, k)
    <2>1. queue \in Seq(Path) /\ Len(queue) \in Nat
        BY LenProperties DEF TypeOK, IsStorage
    <2>2. k \in Nat /\ k <= Len(queue)
        BY <2>1, SizeAssumption DEF Wanted, TypeOK, Request
    <2>3. list \in Seq(Path)
        BY <2>1, <2>2, SubSeqProperties, \A i \in 1 .. k : i \in 1 .. Len(queue)
    <2>4. local' = [local EXCEPT ![c].list = list]
        BY <1>1 DEF ReadNCollect
    <2> HIDE DEF list
    <2>5. local[c] \in Local
        BY DEF TypeOK
    <2>6. [local[c] EXCEPT !.list = list] \in Local
        BY <2>3, <2>5 DEF Local
    <2>7. local' \in [Client -> Local]
        BY <2>4, <2>6 DEF TypeOK
    <2>8. "send_files" \in Labels
        BY DEF Labels
    <2> QED
        BY <1>1, <2>7, <2>8, MutexType, GotoType DEF ReadNCollect, TypeOK
<1>2. CASE ReadNFails(c)
    <2>1. PICK k \in 1 .. Len(storage.fifo_queue) :
             local' = [local EXCEPT ![c].list = SubSeq(storage.fifo_queue, 1, k - 1)]
        BY <1>2 DEF ReadNFails
    <2> DEFINE list == SubSeq(storage.fifo_queue, 1, k - 1)
    <2>2. storage.fifo_queue \in Seq(Path) /\ Len(storage.fifo_queue) \in Nat
        BY LenProperties DEF TypeOK, IsStorage
    <2>3. \A i \in 1 .. (k - 1) : i \in 1 .. Len(storage.fifo_queue)
        BY <2>2
    <2>4. list \in Seq(Path)
        BY <2>2, <2>3, SubSeqProperties
    <2>5. local[c] \in Local
        BY DEF TypeOK
    <2> HIDE DEF list
    <2>6. [local[c] EXCEPT !.list = list] \in Local
        BY <2>4, <2>5 DEF Local
    <2>7. local' \in [Client -> Local]
        BY <2>1, <2>6 DEF TypeOK, list
    <2>8. "free_files" \in Labels
        BY DEF Labels
    <2> QED
        BY <1>2, <2>7, <2>8, MutexType, GotoType DEF ReadNFails, TypeOK
<1>3. CASE ReadNFree(c)
    <2> DEFINE p == Head(local[c].list)
               F == Freeing({p})
    <2>1. storage' \in {storage, [storage EXCEPT !.files = KeyLost(@, p)]}
        BY <1>3 DEF ReadNFree
    <2>2. IsStorage(storage')
        <3> DEFINE t == KeyLost(storage.files, p)
        <3>1. IsStorage(storage) /\ IsTable(t)
            BY RemoveType DEF TypeOK, IsStorage
        <3>2. CASE storage' = [storage EXCEPT !.files = t]
            <4> HIDE DEF t
            <4>1. storage' = [files |-> t, fifo_queue |-> storage.fifo_queue,
                              no_of_files |-> storage.no_of_files,
                              current_size |-> storage.current_size]
                BY <3>1, <3>2, ExceptOne
            <4>2. /\ storage.fifo_queue \in Seq(Path) /\ storage.no_of_files \in Int
                  /\ storage.current_size \in 0 .. (SizeMod - 1)
                BY <3>1 DEF IsStorage
            <4> QED
                BY <3>1, <4>1, <4>2, RecordType
        <3> QED
            BY <2>1, <3>1, <3>2
    <2>3. F \in [Client -> Local]
        BY FreeingType
    <2>4. local[c].list \in Seq(Path) /\ local[c].list # <<>> /\ up' \in BOOLEAN
        BY <1>3 DEF ReadNFree, TypeOK, Local
    <2>5. local' = [F EXCEPT ![c].list = Tail(@)] /\ F[c].list = local[c].list
        BY <1>3, <2>4 DEF ReadNFree, Freeing, TypeOK, Local
    <2> HIDE DEF F
    <2>6. [F[c] EXCEPT !.list = Tail(@)] \in Local
        BY <2>3, <2>4, <2>5, HeadTailProperties DEF Local
    <2>7. local' \in [Client -> Local]
        BY <2>3, <2>5, <2>6
    <2> QED
        BY <1>3, <2>2, <2>4, <2>7 DEF ReadNFree, TypeOK
<1>4. CASE ReadNFreed(c)
    BY <1>4, ReturnType, ForgetType DEF ReadNFreed, TypeOK
<1>5. CASE ReadNSend(c)
    <2>1. up' \in BOOLEAN
        BY <1>5 DEF ReadNSend
    <2> QED
        BY <1>5, <2>1, ReturnType, ForgetType DEF ReadNSend, TypeOK
<1> QED
    BY <1>1, <1>2, <1>3, <1>4, <1>5

LEMMA LockStepsType ==
    ASSUME TypeOK, NEW c \in Client,
           remove_file_handler(c) \/ lock_file_handler(c) \/ unlock_file_handler(c)
    PROVE  TypeOK'
<1>0. req[c].path \in Path /\ IsStorage(storage)
    BY DEF TypeOK, Request
<1>1. CASE remove_file_handler(c)
    <2>1. CASE ~HoldsLock(c)
        BY <1>1, <2>1, MutexType, ReturnType DEF remove_file_handler, TypeOK
    <2>2. CASE HoldsLock(c)
        <3>1. PICK o \in storage_remove_file(storage, req[c].path) :
                 storage' = o.st /\ up' = o.up
            BY <1>1, <2>2 DEF remove_file_handler
        <3>2. IsStorage(storage') /\ up' \in BOOLEAN
            BY <1>0, <3>1, RemoveFile
        <3>3. local' \in [Client -> Local]
            BY <1>1, <2>2, FreeingType DEF remove_file_handler, TypeOK
        <3> QED
            BY <1>1, <3>2, <3>3, MutexType, ReturnType DEF remove_file_handler, TypeOK
    <2> QED
        BY <2>1, <2>2
<1>2. CASE lock_file_handler(c)
    <2>1. IsStorage(storage')
        <3>1. CASE UNCHANGED storage
            BY <1>0, <3>1
        <3>2. CASE Found(c) /\ SetLock(c)
            BY <3>2, LockUpdateType
        <3>3. CASE Found(c) /\ storage' = storage_update_file(storage, req[c].path,
                      [File_(c) EXCEPT !.waiting_on_lock = Append(@, c)])
            <4>1. File_(c) \in File
                BY <1>0, <3>3, StoredFile DEF Found, File_
            <4>2. Append(File_(c).waiting_on_lock, c) \in Seq(Client)
                BY <4>1, AppendProperties DEF File
            <4>3. [File_(c) EXCEPT !.waiting_on_lock = Append(@, c)] \in File
                BY <4>1, <4>2 DEF File
            <4> QED
                BY <1>0, <3>3, <4>3, UpdateFile
        <3> QED
            BY <1>2, <3>1, <3>2, <3>3 DEF lock_file_handler
    <2>2. /\ pc' \in [Client -> Labels] /\ req' \in [Client -> Request]
          /\ replies' \in [Client -> Nat]
        BY <1>2, ReturnType DEF lock_file_handler
    <2> QED
        BY <1>2, <2>1, <2>2, MutexType DEF lock_file_handler, TypeOK
<1>3. CASE unlock_file_handler(c)
    <2>1. IsStorage(storage')
        BY <1>0, <1>3, LockUpdateType DEF unlock_file_handler, HoldsLock, Owns
    <2> QED
        BY <1>3, <2>1, MutexType, ReturnType DEF unlock_file_handler, TypeOK
<1> QED
    BY <1>1, <1>2, <1>3

LEMMA ScannedStored ==
    ASSUME IsStorage(storage)
    PROVE  Scanned \subseteq Stored(storage)
<1> SUFFICES ASSUME NEW p \in Scanned
             PROVE  p \in Stored(storage)
    OBVIOUS
<1>1. PICK j \in DOMAIN storage.fifo_queue :
         /\ p = storage.fifo_queue[j]
         /\ \A k \in 1 .. j : storage.fifo_queue[k] \in Stored(storage)
    BY DEF Scanned
<1>2. j \in Nat /\ j \in 1 .. j
    BY DEF IsStorage
<1> QED
    BY <1>1, <1>2

LEMMA LockManagerType ==
    ASSUME TypeOK, lock_manager_thread
    PROVE  TypeOK'
<1>1. IsTable(storage.files) /\ IsStorage(storage)
    BY DEF TypeOK, IsStorage
<1>2. ASSUME NEW p \in Granted
      PROVE  Grant(storage.files[p]) \in File
    <2>1. p \in Stored(storage) /\ storage.files[p].waiting_on_lock # <<>>
        BY <1>1, ScannedStored DEF Granted
    <2>2. storage.files[p] \in File
        BY <1>1, <2>1, StoredFile
    <2>3. /\ Head(storage.files[p].waiting_on_lock) \in Client
          /\ Tail(storage.files[p].waiting_on_lock) \in Seq(Client)
        BY <2>1, <2>2, HeadTailProperties DEF File
    <2> QED
        BY <2>2, <2>3 DEF Grant, File
<1> DEFINE t == [p \in DOMAIN storage.files |->
                    IF p \in Granted THEN Grant(storage.files[p]) ELSE storage.files[p]]
<1>3. IsTable(t)
    BY <1>1, <1>2 DEF IsTable
<1>4. storage' = [storage EXCEPT !.files = t]
    BY DEF lock_manager_thread
<1> HIDE DEF t
<1>5. IsStorage(storage')
    BY <1>1, <1>3, <1>4, ExceptOne, RecordType DEF IsStorage
<1>6. ASSUME NEW c \in Client
      PROVE  Answers(c) \in Nat
    <2>1. IsFiniteSet(DOMAIN storage.fifo_queue)
        BY <1>1, LenProperties, FS_Interval DEF IsStorage
    <2>2. IsFiniteSet(Granted)
        <3>1. Granted \subseteq {storage.fifo_queue[i] : i \in DOMAIN storage.fifo_queue}
            BY DEF Granted, Scanned
        <3>2. IsFiniteSet({storage.fifo_queue[i] : i \in DOMAIN storage.fifo_queue})
            <4> DEFINE D == DOMAIN storage.fifo_queue
                       T == {storage.fifo_queue[i] : i \in D}
            <4>1. [i \in D |-> storage.fifo_queue[i]] \in Surjection(D, T)
                BY DEF Surjection
            <4> HIDE DEF T
            <4>2. IsFiniteSet(T)
                BY <2>1, <4>1, FS_Surjection
            <4> QED
                BY <4>2 DEF T
        <3> QED
            BY <3>1, <3>2, FS_Subset
    <2>3. IsFiniteSet({p \in Granted : Head(storage.files[p].waiting_on_lock) = c})
        BY <2>2, FS_Subset
    <2> QED
        BY <2>3, FS_CardinalityType DEF Answers
<1>7. replies' \in [Client -> Nat]
    <2>1. replies' = [c \in Client |-> replies[c] + Answers(c)]
        BY DEF lock_manager_thread
    <2> HIDE DEF t
    <2> QED
        BY <1>6, <2>1 DEF TypeOK
<1> QED
    BY <1>5, <1>7, MutexType DEF lock_manager_thread, TypeOK, InMutex

-----------------------------------------------------------------------------
\* The variables of every behaviour keep their types: in particular no handler
\* leaves a descriptor or a path in the storage that is not a client or a file
\* name, and current_size stays a size_t.
THEOREM TypeCorrect == Spec => []TypeOK
<1>1. Init => TypeOK
    BY NewStorageType, NoRequestType, NoLocalType DEF Init, TypeOK, Labels
<1>2. TypeOK /\ [Next]_vars => TypeOK'
    <2> SUFFICES ASSUME TypeOK, [Next]_vars
                 PROVE  TypeOK'
        OBVIOUS
    <2>1. CASE UNCHANGED vars
        BY <2>1 DEF TypeOK, vars
    <2>2. ASSUME NEW c \in Client, NEW r \in Requests, worker_thread(c, r)
          PROVE  TypeOK'
        BY <2>2, RequestStepsType
    <2>3. ASSUME NEW c \in Client, CloseConnection(c)
          PROVE  TypeOK'
        BY <2>3, RequestStepsType
    <2>4. ASSUME NEW c \in Client, Handle(c)
          PROVE  TypeOK'
        BY <2>4, OpenCreateType, OpenStepsType, WriteStepsType, TooBigStepsType,
           AppendStepsType, ReadNStepsType, LockStepsType DEF Handle
    <2>5. CASE lock_manager_thread
        BY <2>5, LockManagerType
    <2> QED
        BY <2>1, <2>2, <2>3, <2>4, <2>5 DEF Next
<1> QED
    BY <1>1, <1>2, PTL DEF Spec
=============================================================================
