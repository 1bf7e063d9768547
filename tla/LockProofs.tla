----------------------------- MODULE LockProofs -----------------------------
(***************************************************************************)
(* Theorems about the locks of files and their contents, for every set of  *)
(* clients, paths, buckets and requests and every capacity.                *)
(*                                                                         *)
(* The steps of all handlers are first reduced to what they do to the      *)
(* table of files (TableStep) and to the thread that takes them            *)
(* (ThreadStep); the invariants then follow from these two alone.          *)
(***************************************************************************)
EXTENDS FileServerProofs

FileAgrees(f) == IsLocked(f) <=> f.locked_by # NoClient
TableAgrees(files) == \A p \in DOMAIN files : FileAgrees(files[p])

\* Every file, or every file but p, either leaves the table or stays as it is.
Kept(files, new) == \A q \in DOMAIN new : q \in DOMAIN files /\ new[q] = files[q]
KeptBut(files, new, p) ==
    \A q \in DOMAIN new : q # p => q \in DOMAIN files /\ new[q] = files[q]

\* Nothing but the file p changes, or comes into the table.
Updated(files, new, p) ==
    KeptBut(files, new, p) /\ DOMAIN new = DOMAIN files \cup {p}

\* A handler's step that keeps the size of the file f of c, and whether it was
\* ever written, and in which c takes the lock, gives up its own, or becomes the
\* last one to wait for another's, without an answer.
LockedAs(c, f, g) ==
    /\ g.size = f.size /\ (IsFresh(g) <=> IsFresh(f))
    /\ \/ /\ "O_LOCK" \in g.flags /\ g.locked_by = c
          /\ g.waiting_on_lock = f.waiting_on_lock
       \/ /\ "O_LOCK" \notin g.flags /\ g.locked_by = NoClient /\ f.locked_by = c
          /\ g.waiting_on_lock = f.waiting_on_lock
       \/ /\ "O_LOCK" \in f.flags /\ f.locked_by # c
          /\ pc'[c] = "idle" /\ replies'[c] = replies[c]
          /\ g.flags = f.flags /\ g.locked_by = f.locked_by
          /\ g.waiting_on_lock = Append(f.waiting_on_lock, c)

\* Nothing is added or changed; or, in a critical section, the file c's request
\* names is created (while others may leave the table), locked or unlocked, or
\* appended to by its owner; or a writer puts its file back.
TableStep(c) ==
    LET p == req[c].path
        g == storage'.files[p]
    IN  \/ Kept(storage.files, storage'.files)
        \/ /\ KeptBut(storage.files, storage'.files, p)
           /\ access = NoClient
           /\ ~Found(c) /\ p \in DOMAIN storage'.files /\ g = storage_create_file
        \/ /\ Updated(storage.files, storage'.files, p)
           /\ access = NoClient
           /\ \/ Found(c) /\ LockedAs(c, File_(c), g)
              \/ /\ Owns(c) /\ pc[c] = "APPEND_TO_FILE"
                 /\ g.flags = File_(c).flags /\ g.locked_by = c
                 /\ g.waiting_on_lock = File_(c).waiting_on_lock
        \/ /\ Updated(storage.files, storage'.files, p)
           /\ pc[c] = "replace"
           /\ g.locked_by = local[c].file.locked_by
           /\ g.flags = local[c].file.flags \ {"O_CREATE"}
           /\ g.waiting_on_lock = local[c].file.waiting_on_lock

\* The workers of other clients, and the file_t they hold, stay as they are; c
\* takes the mutex or, after a write, releases it; and when c holds a file_t
\* afterwards it has just obtained it as the owner, or held it before.
ThreadStep(c) ==
    /\ \A d \in Client \ {c} :
          pc'[d] = pc[d] /\ req'[d] = req[d] /\ local'[d].file = local[d].file
    /\ \/ access' = access
       \/ access = NoClient /\ access' = c
       \/ pc[c] = "replace" /\ pc'[c] # "replace" /\ access' = NoClient
    /\ pc'[c] = "replace" =>
          \/ /\ pc[c] = "replace" /\ req'[c] = req[c]
             /\ local'[c].file = local[c].file /\ access' = access
             /\ Kept(storage.files, storage'.files)
          \/ /\ Owns(c) /\ local'[c].file = File_(c) /\ req'[c] = req[c]
             /\ storage' = storage /\ access' = c

-----------------------------------------------------------------------------
\* What the operations on the hash map keep.

LEMMA KeptItself ==
    ASSUME NEW files
    PROVE  Kept(files, files)
BY DEF Kept

LEMMA KeptByRemoval ==
    ASSUME NEW files, NEW p
    PROVE  /\ Kept(files, hash_map_remove(files, p))
           /\ Kept(files, KeyLost(files, p))
           /\ Kept(files, hash_map_remove(KeyLost(files, p), p))
BY DEF Kept, hash_map_remove, KeyLost

LEMMA KeptByInsertion ==
    ASSUME NEW files, NEW new, NEW p, NEW f, Kept(files, new)
    PROVE  /\ KeptBut(files, hash_map_insert(new, p, f), p)
           /\ hash_map_insert(new, p, f)[p] = f
           /\ p \in DOMAIN hash_map_insert(new, p, f)
BY DEF Kept, KeptBut, hash_map_insert

LEMMA UpdatedByInsertion ==
    ASSUME NEW files, NEW p, NEW f
    PROVE  /\ Updated(files, hash_map_insert(files, p, f), p)
           /\ hash_map_insert(files, p, f)[p] = f
BY DEF Updated, KeptBut, hash_map_insert

LEMMA FreeingKeepsFiles ==
    ASSUME TypeOK, NEW P, NEW d \in Client
    PROVE  Freeing(P)[d].file = local[d].file
<1>1. local[d] \in Local
    BY DEF TypeOK
<1>2. [local[d] EXCEPT !.freed = TRUE].file = local[d].file
    BY <1>1 DEF Local
<1> QED
    BY <1>2 DEF Freeing

-----------------------------------------------------------------------------
\* The threads, for the helpers of the actions.

\* A step of c that leaves the handler or moves to any label but "replace".
LEMMA ThreadAway ==
    ASSUME TypeOK, NEW c \in Client,
           \/ \E k \in Nat : Return(c, k)
           \/ \E label \in Labels \ {"replace"} : Goto(c, label)
           \/ pc[c] # "replace" /\ \E flag : OpenNext(c, flag),
           \/ access' = access
           \/ access = NoClient /\ access' = c
           \/ pc[c] = "replace" /\ access' = NoClient,
           \A d \in Client \ {c} : local'[d].file = local[d].file
    PROVE  ThreadStep(c)
<1>1. /\ pc'[c] # "replace"
      /\ \A d \in Client \ {c} : pc'[d] = pc[d] /\ req'[d] = req[d]
    BY DEF TypeOK, Return, Goto, OpenNext
<1> QED
    BY <1>1 DEF ThreadStep

LEMMA OthersLocals ==
    ASSUME TypeOK, NEW c \in Client,
           UNCHANGED local \/ Forget(c) \/ \E P : local' = Freeing(P)
    PROVE  \A d \in Client \ {c} : local'[d].file = local[d].file
BY FreeingKeepsFiles DEF TypeOK, Forget

LEMMA MutexStep ==
    ASSUME NEW c \in Client, InMutex \/ Lock(c) \/ UNCHANGED access
    PROVE  \/ access' = access
           \/ access = NoClient /\ access' = c
BY DEF InMutex, Lock

\* SetLock and ClearLock.
LEMMA LockStep ==
    ASSUME TypeOK, NEW c \in Client, Found(c), access = NoClient,
           SetLock(c) \/ (Owns(c) /\ ClearLock(c))
    PROVE  TableStep(c)
<1> DEFINE p == req[c].path
           f == [File_(c) EXCEPT !.flags = @ \cup {"O_LOCK"}, !.locked_by = c]
           g == [File_(c) EXCEPT !.flags = @ \ {"O_LOCK"}, !.locked_by = NoClient]
<1>1. File_(c) \in File /\ p \in Path /\ IsStorage(storage)
    BY StoredFile DEF TypeOK, Found, File_
<1>2. f \in File /\ LockedAs(c, File_(c), f)
    BY <1>1 DEF File, LockedAs, IsFresh
<1>3. g \in File /\ (Owns(c) => LockedAs(c, File_(c), g))
    BY <1>1 DEF File, LockedAs, IsFresh, Owns
<1>4. \/ storage' = storage_update_file(storage, p, f)
      \/ Owns(c) /\ storage' = storage_update_file(storage, p, g)
    BY DEF SetLock, ClearLock
<1> HIDE DEF f, g
<1>5. PICK h \in File : /\ LockedAs(c, File_(c), h)
                       /\ storage' = storage_update_file(storage, p, h)
    BY <1>2, <1>3, <1>4
<1>6. storage'.files = hash_map_insert(storage.files, p, h)
    BY <1>1, <1>5, UpdateFile
<1>7. Updated(storage.files, storage'.files, p) /\ storage'.files[p] = h
    BY <1>6, UpdatedByInsertion
<1> QED
    BY <1>5, <1>7 DEF TableStep

-----------------------------------------------------------------------------
\* Every action is a TableStep and a ThreadStep.

LEMMA OpenCreateStep ==
    ASSUME TypeOK, NEW c \in Client, OpenCreate(c)
    PROVE  TableStep(c) /\ ThreadStep(c)
<1> DEFINE p == Head(storage.fifo_queue)
           popped == [storage EXCEPT !.fifo_queue = Tail(@)]
<1>0. /\ access = NoClient /\ access' = access /\ pc[c] # "replace"
      /\ IsStorage(storage) /\ req[c].path \in Path
    BY DEF OpenCreate, At, InMutex, TypeOK, Request
<1>1. CASE Return(c, 1) /\ UNCHANGED <<storage, local, up>>
    <2>1. TableStep(c)
        BY <1>1, KeptItself DEF TableStep
    <2> QED
        BY <1>0, <1>1, <2>1, ThreadAway
<1>2. CASE /\ ~Found(c) /\ storage.fifo_queue # <<>>
           /\ \E o \in storage_remove_file(popped, p) :
                 /\ storage' = storage_add_file(o.st, req[c].path, storage_create_file)
                 /\ up' = o.up
           /\ local' = IF Queued(popped, p)
                       THEN Freeing({p} \cap Stored(storage)) ELSE local
           /\ OpenNext(c, "O_CREATE")
    <2>1. p \in Path /\ Tail(storage.fifo_queue) \in Seq(Path)
        BY <1>0, <1>2, HeadTailProperties DEF IsStorage
    <2>2. IsStorage(popped) /\ popped.files = storage.files
        <3>1. popped = [files |-> storage.files, fifo_queue |-> Tail(storage.fifo_queue),
                        no_of_files |-> storage.no_of_files,
                        current_size |-> storage.current_size]
            BY <1>0, ExceptOne
        <3> HIDE DEF popped
        <3>2. popped.files = storage.files
            BY <3>1
        <3>3. IsStorage(popped)
            BY <1>0, <2>1, <3>1, RecordType DEF IsStorage
        <3> QED
            BY <3>2, <3>3
    <2> HIDE DEF popped, p
    <2>3. PICK o \in storage_remove_file(popped, p) :
             storage' = storage_add_file(o.st, req[c].path, storage_create_file)
        BY <1>2
    <2>4. IsStorage(o.st) /\ Kept(storage.files, o.st.files)
        BY <2>1, <2>2, RemoveFile, KeptItself, KeptByRemoval
    <2>5. storage'.files = hash_map_insert(o.st.files, req[c].path, storage_create_file)
        BY <1>0, <2>3, <2>4, AddFile, NewFileType
    <2>6. TableStep(c)
        BY <1>0, <1>2, <2>4, <2>5, KeptByInsertion DEF TableStep
    <2>7. \A d \in Client \ {c} : local'[d].file = local[d].file
        BY <1>2, OthersLocals
    <2> QED
        BY <1>0, <1>2, <2>6, <2>7, ThreadAway
<1>3. CASE /\ ~Found(c)
           /\ storage' = storage_add_file(storage, req[c].path, storage_create_file)
           /\ OpenNext(c, "O_CREATE")
           /\ UNCHANGED <<local, up>>
    <2>1. storage'.files =
            hash_map_insert(storage.files, req[c].path, storage_create_file)
        BY <1>0, <1>3, AddFile, NewFileType
    <2>2. TableStep(c)
        BY <1>0, <1>3, <2>1, KeptItself, KeptByInsertion DEF TableStep
    <2> QED
        BY <1>0, <1>3, <2>2, ThreadAway
<1> HIDE DEF p, popped
<1> QED
    BY <1>1, <1>2, <1>3 DEF OpenCreate, p, popped

LEMMA OpenSteps ==
    ASSUME TypeOK, NEW c \in Client,
           OpenLock(c) \/ OpenNoFlag(c) \/ close_file_handler(c)
    PROVE  TableStep(c) /\ ThreadStep(c)
<1>1. CASE OpenLock(c)
    <2>1. CASE ~Found(c) \/ HoldsLock(c)
        <3>1. Return(c, 1) /\ UNCHANGED <<storage, local, access>>
            BY <1>1, <2>1 DEF OpenLock, InMutex
        <3> QED
            BY <3>1, KeptItself, ThreadAway DEF TableStep
    <2>2. CASE Found(c) /\ ~HoldsLock(c)
        <3>1. /\ SetLock(c) /\ OpenNext(c, "O_LOCK") /\ pc[c] # "replace"
              /\ access = NoClient /\ UNCHANGED <<local, access>>
            BY <1>1, <2>2 DEF OpenLock, InMutex, At
        <3> QED
            BY <2>2, <3>1, LockStep, ThreadAway
    <2> QED
        BY <2>1, <2>2
<1>2. CASE OpenNoFlag(c)
    <2>1. Return(c, 1) /\ UNCHANGED <<storage, local, access>>
        BY <1>2 DEF OpenNoFlag, InMutex
    <2> QED
        BY <2>1, KeptItself, ThreadAway DEF TableStep
<1>3. CASE close_file_handler(c)
    <2>1. /\ Return(c, 1) /\ UNCHANGED <<local, access>> /\ access = NoClient
          /\ UNCHANGED storage \/ (Owns(c) /\ ClearLock(c))
        BY <1>3 DEF close_file_handler, InMutex, HoldsLock, Owns
    <2>2. TableStep(c)
        BY <2>1, KeptItself, LockStep DEF TableStep, Owns
    <2> QED
        BY <2>1, <2>2, ThreadAway
<1> QED
    BY <1>1, <1>2, <1>3

LEMMA WriteSteps ==
    ASSUME TypeOK, NEW c \in Client,
           \/ WriteRefused(c) \/ WriteTooBig(c) \/ WriteAdmitted(c)
           \/ storage_FIFO_replace(c) \/ WriteCommit(c)
    PROVE  TableStep(c) /\ ThreadStep(c)
<1>1. CASE WriteRefused(c)
    <2>1. Return(c, 1) /\ UNCHANGED <<storage, local, access>>
        BY <1>1 DEF WriteRefused, InMutex
    <2> QED
        BY <2>1, KeptItself, ThreadAway DEF TableStep
<1>2. CASE WriteTooBig(c)
    <2>1. Goto(c, "too_big") /\ UNCHANGED <<storage, local, access>>
        BY <1>2 DEF WriteTooBig, InMutex
    <2>2. "too_big" \in Labels \ {"replace"}
        BY DEF Labels, Removing
    <2> QED
        BY <2>1, <2>2, KeptItself, ThreadAway DEF TableStep
<1>3. CASE WriteAdmitted(c)
    <2>1. /\ access = NoClient /\ access' = c /\ storage' = storage /\ req' = req
          /\ Owns(c)
          /\ pc' = [pc EXCEPT ![c] = "replace"]
          /\ local' = [local EXCEPT ![c].file = File_(c)]
        BY <1>3 DEF WriteAdmitted, Lock, Goto
    <2>2. local[c] \in Local
        BY DEF TypeOK
    <2>3. local'[c].file = File_(c)
        BY <2>1, <2>2 DEF TypeOK, Local
    <2>4. \A d \in Client \ {c} : local'[d] = local[d] /\ pc'[d] = pc[d]
        BY <2>1 DEF TypeOK
    <2> QED
        BY <2>1, <2>3, <2>4, KeptItself DEF TableStep, ThreadStep
<1>4. CASE storage_FIFO_replace(c)
    <2>1. /\ pc[c] = "replace" /\ UNCHANGED <<access, pc, req>>
          /\ \/ UNCHANGED <<storage, local>>
             \/ /\ CanExpel(storage) /\ storage' = Expel(storage)
                /\ local' = Freeing({Head(storage.fifo_queue)})
        BY <1>4 DEF storage_FIFO_replace, At
    <2>2. Kept(storage.files, storage'.files)
        BY <2>1, ExpelFile, KeptItself, KeptByRemoval DEF TypeOK
    <2>3. \A d \in Client : local'[d].file = local[d].file
        BY <2>1, FreeingKeepsFiles
    <2> QED
        BY <2>1, <2>2, <2>3 DEF TableStep, ThreadStep
<1>5. CASE WriteCommit(c)
    <2> DEFINE p == req[c].path
               f == [local[c].file EXCEPT !.flags = @ \ {"O_CREATE"}, !.size = req[c].n]
               u == storage_update_file(storage, p, f)
    <2>1. local[c].file \in File /\ req[c].n \in Nat /\ p \in Path
        BY DEF TypeOK, Local, Request
    <2>2. /\ f \in File /\ f.locked_by = local[c].file.locked_by
          /\ f.waiting_on_lock = local[c].file.waiting_on_lock
          /\ f.flags = local[c].file.flags \ {"O_CREATE"}
        BY <2>1 DEF File
    <2> HIDE DEF f
    <2>3. IsStorage(u) /\ u.files = hash_map_insert(storage.files, p, f)
        BY <2>1, <2>2, UpdateFile DEF TypeOK
    <2>4. storage' = [u EXCEPT !.fifo_queue = Append(@, p),
                               !.current_size = (@ + req[c].n) % SizeMod]
        BY <1>5 DEF WriteCommit, f
    <2> HIDE DEF u
    <2>5. storage'.files = u.files
        BY <2>3, <2>4, SetQueueSize
    <2>6. Updated(storage.files, storage'.files, p) /\ storage'.files[p] = f
        BY <2>3, <2>5, UpdatedByInsertion
    <2>7. pc[c] = "replace" /\ access' = NoClient /\ Return(c, 1) /\ Forget(c)
        BY <1>5 DEF WriteCommit, At, Unlock
    <2>8. ThreadStep(c)
        BY <2>7, ThreadAway, OthersLocals
    <2> QED
        BY <2>2, <2>6, <2>7, <2>8 DEF TableStep
<1> QED
    BY <1>1, <1>2, <1>3, <1>4, <1>5

LEMMA TooBigSteps ==
    ASSUME TypeOK, NEW c \in Client, TooBig(c)
    PROVE  TableStep(c) /\ ThreadStep(c)
<1>0. /\ Removing \subseteq Labels \ {"replace"}
      /\ req[c].path \in Path /\ local[c] \in Local /\ IsStorage(storage)
    BY DEF Labels, Removing, TypeOK, Request
<1>1. CASE TooBigFind(c) \/ TooBigLoadCount(c) \/ TooBigLoadSize(c)
    <2>1. /\ (\E label \in Removing : Goto(c, label)) \/ Return(c, 1)
          /\ UNCHANGED <<storage, access>>
        BY <1>1 DEF TooBigFind, TooBigLoadCount, TooBigLoadSize, Removing
    <2>2. \A d \in Client \ {c} : local'[d] = local[d]
        BY <1>1 DEF TooBigFind, TooBigLoadCount, TooBigLoadSize, TypeOK
    <2> QED
        BY <1>0, <2>1, <2>2, KeptItself, ThreadAway DEF TableStep
<1>2. CASE TooBigStoreCount(c) \/ TooBigStoreSize(c)
    <2>1. /\ \E label \in Removing : Goto(c, label)
          /\ UNCHANGED access
        BY <1>2 DEF TooBigStoreCount, TooBigStoreSize, Removing
    <2>2. storage'.files = storage.files
        BY <1>0, <1>2, ExceptOne DEF TooBigStoreCount, TooBigStoreSize
    <2>3. \A d \in Client \ {c} : local'[d] = local[d]
        BY <1>2 DEF TooBigStoreCount, TooBigStoreSize, Forget, TypeOK
    <2> QED
        BY <1>0, <2>1, <2>2, <2>3, KeptItself, ThreadAway DEF TableStep
<1>3. CASE TooBigUnlink(c)
    <2>1. /\ (\E label \in Removing : Goto(c, label)) \/ Return(c, 1)
          /\ UNCHANGED access
        BY <1>3 DEF TooBigUnlink, Removing
    <2>2. Kept(storage.files, storage'.files)
        BY <1>0, <1>3, UnlinkFile, KeptItself, KeptByRemoval DEF TooBigUnlink
    <2>3. \A d \in Client \ {c} : local'[d].file = local[d].file
        <3>1. CASE Queued(storage, req[c].path)
            <4> DEFINE F == Freeing({req[c].path})
            <4>1. PICK o \in UnlinkOutcomes(storage, req[c].path) :
                     local' = [F EXCEPT ![c].freed = o.freed]
                BY <1>3, <3>1 DEF TooBigUnlink
            <4>2. \A d \in Client : F[d].file = local[d].file
                BY FreeingKeepsFiles
            <4>3. F \in [Client -> Local]
                BY FreeingType
            <4> HIDE DEF F
            <4> QED
                BY <4>1, <4>2, <4>3
        <3>2. CASE ~Queued(storage, req[c].path)
            BY <1>3, <3>2, OthersLocals DEF TooBigUnlink
        <3> QED
            BY <3>1, <3>2
    <2> QED
        BY <1>0, <2>1, <2>2, <2>3, ThreadAway DEF TableStep
<1>4. CASE TooBigUnhash(c)
    <2>1. Return(c, 1) /\ UNCHANGED access
        BY <1>4 DEF TooBigUnhash
    <2>2. Kept(storage.files, storage'.files)
        BY <1>0, <1>4, UnhashFile, KeptByRemoval DEF TooBigUnhash
    <2>3. \A d \in Client \ {c} : local'[d].file = local[d].file
        <3> DEFINE F == Freeing({req[c].path} \cap Stored(storage))
        <3>1. local' = [F EXCEPT ![c] = NoLocal]
            BY <1>4 DEF TooBigUnhash
        <3>2. \A d \in Client : F[d].file = local[d].file
            BY FreeingKeepsFiles
        <3>3. F \in [Client -> Local]
            BY FreeingType
        <3> HIDE DEF F
        <3> QED
            BY <3>1, <3>2, <3>3
    <2> QED
        BY <2>1, <2>2, <2>3, ThreadAway DEF TableStep
<1> QED
    BY <1>1, <1>2, <1>3, <1>4 DEF TooBig

LEMMA AppendSteps ==
    ASSUME TypeOK, NEW c \in Client,
           append_to_file_handler(c) \/ read_file_handler(c)
    PROVE  TableStep(c) /\ ThreadStep(c)
<1>1. CASE append_to_file_handler(c)
    <2>1. /\ pc[c] = "APPEND_TO_FILE" /\ pc' = [pc EXCEPT ![c] = "READ_FILE"]
          /\ UNCHANGED <<req, local, access>>
        BY <1>1 DEF append_to_file_handler, At, InMutex
    <2>2. ThreadStep(c)
        BY <2>1 DEF ThreadStep, TypeOK
    <2>3. CASE UNCHANGED storage
        BY <2>2, <2>3, KeptItself DEF TableStep
    <2>4. CASE /\ Owns(c) /\ access = NoClient
               /\ storage' =
                     [storage_update_file(storage, req[c].path,
                         [File_(c) EXCEPT !.size = @ + req[c].n])
                      EXCEPT !.current_size = (@ + req[c].n) % SizeMod]
        <3> DEFINE p == req[c].path
                   f == [File_(c) EXCEPT !.size = @ + req[c].n]
                   u == storage_update_file(storage, p, f)
        <3>1. File_(c) \in File /\ req[c].n \in Nat /\ p \in Path
            BY <2>4, StoredFile DEF TypeOK, Request, Owns, Found, File_
        <3>2. /\ f \in File /\ f.flags = File_(c).flags
              /\ f.locked_by = File_(c).locked_by
              /\ f.waiting_on_lock = File_(c).waiting_on_lock
            BY <3>1 DEF File
        <3> HIDE DEF f
        <3>3. IsStorage(u) /\ u.files = hash_map_insert(storage.files, p, f)
            BY <3>1, <3>2, UpdateFile DEF TypeOK
        <3>4. storage' = [u EXCEPT !.current_size = (@ + req[c].n) % SizeMod]
            BY <2>4 DEF f
        <3> HIDE DEF u
        <3>5. storage'.files = u.files
            BY <3>3, <3>4, ExceptOne
        <3>6. Updated(storage.files, storage'.files, p) /\ storage'.files[p] = f
            BY <3>3, <3>5, UpdatedByInsertion
        <3> QED
            BY <2>1, <2>2, <2>4, <3>2, <3>6 DEF TableStep, Owns
    <2> QED
        BY <1>1, <2>3, <2>4 DEF append_to_file_handler, InMutex
<1>2. CASE read_file_handler(c)
    <2>1. Return(c, 1) /\ UNCHANGED <<storage, local>> /\ (InMutex \/ Lock(c))
        BY <1>2 DEF read_file_handler
    <2> QED
        BY <2>1, KeptItself, MutexStep, ThreadAway DEF TableStep
<1> QED
    BY <1>1, <1>2

LEMMA ReadNSteps ==
    ASSUME TypeOK, NEW c \in Client,
           \/ ReadNCollect(c) \/ ReadNFails(c) \/ ReadNFree(c) \/ ReadNFreed(c)
           \/ ReadNSend(c)
    PROVE  TableStep(c) /\ ThreadStep(c)
<1>1. CASE ReadNCollect(c)
    <2>1. Goto(c, "send_files") /\ UNCHANGED <<storage, access>>
        BY <1>1 DEF ReadNCollect, InMutex
    <2>2. "send_files" \in Labels \ {"replace"}
        BY DEF Labels
    <2>3. \A d \in Client \ {c} : local'[d] = local[d]
        BY <1>1 DEF ReadNCollect, TypeOK
    <2> QED
        BY <2>1, <2>2, <2>3, KeptItself, ThreadAway DEF TableStep
<1>2. CASE ReadNFails(c)
    <2>1. Goto(c, "free_files") /\ UNCHANGED <<storage, access>>
        BY <1>2 DEF ReadNFails, InMutex
    <2>2. "free_files" \in Labels \ {"replace"}
        BY DEF Labels
    <2>3. \A d \in Client \ {c} : local'[d] = local[d]
        BY <1>2 DEF ReadNFails, TypeOK
    <2> QED
        BY <2>1, <2>2, <2>3, KeptItself, ThreadAway DEF TableStep
<1>3. CASE ReadNFree(c)
    <2> DEFINE p == Head(local[c].list)
               F == Freeing({p})
               t == KeyLost(storage.files, p)
    <2>1. /\ storage' = storage \/ storage' = [storage EXCEPT !.files = t]
          /\ UNCHANGED <<access, pc, req>> /\ pc[c] = "free_files"
        BY <1>3 DEF ReadNFree, At
    <2>2. Kept(storage.files, storage'.files)
        <3>1. Kept(storage.files, t) /\ Kept(storage.files, storage.files)
            BY KeptItself, KeptByRemoval
        <3>2. ASSUME storage' = [storage EXCEPT !.files = t]
              PROVE  storage'.files = t
            <4> HIDE DEF t
            <4> QED
                BY <3>2, ExceptOne DEF TypeOK
        <3> QED
            BY <2>1, <3>1, <3>2
    <2>3. \A d \in Client \ {c} : local'[d].file = local[d].file
        <3>1. local' = [F EXCEPT ![c].list = Tail(@)]
            BY <1>3 DEF ReadNFree
        <3>2. \A d \in Client : F[d].file = local[d].file
            BY FreeingKeepsFiles
        <3>3. F \in [Client -> Local]
            BY FreeingType
        <3> HIDE DEF F
        <3> QED
            BY <3>1, <3>2, <3>3
    <2>4. ThreadStep(c)
        BY <2>1, <2>3 DEF ThreadStep
    <2> QED
        BY <2>2, <2>4 DEF TableStep
<1>4. CASE ReadNFreed(c)
    <2>1. Return(c, 1) /\ Forget(c) /\ UNCHANGED <<storage, access>>
        BY <1>4 DEF ReadNFreed
    <2> QED
        BY <2>1, KeptItself, OthersLocals, ThreadAway DEF TableStep
<1>5. CASE ReadNSend(c)
    <2>1. Return(c, 2) /\ Forget(c) /\ UNCHANGED <<storage, access>>
        BY <1>5 DEF ReadNSend
    <2> QED
        BY <2>1, KeptItself, OthersLocals, ThreadAway DEF TableStep
<1> QED
    BY <1>1, <1>2, <1>3, <1>4, <1>5

LEMMA RemoveAndLockSteps ==
    ASSUME TypeOK, NEW c \in Client,
           remove_file_handler(c) \/ lock_file_handler(c) \/ unlock_file_handler(c)
    PROVE  TableStep(c) /\ ThreadStep(c)
<1>0. req[c].path \in Path /\ IsStorage(storage)
    BY DEF TypeOK, Request
<1>1. CASE remove_file_handler(c)
    <2>1. Return(c, 1) /\ UNCHANGED access
        BY <1>1 DEF remove_file_handler, InMutex
    <2>2. UNCHANGED local \/ \E P : local' = Freeing(P)
        BY <1>1 DEF remove_file_handler
    <2>3. Kept(storage.files, storage'.files)
        <3>1. CASE UNCHANGED storage
            BY <3>1, KeptItself
        <3>2. CASE \E o \in storage_remove_file(storage, req[c].path) : storage' = o.st
            BY <1>0, <3>2, RemoveFile, KeptItself, KeptByRemoval
        <3> QED
            BY <1>1, <3>1, <3>2 DEF remove_file_handler
    <2> QED
        BY <2>1, <2>2, <2>3, OthersLocals, ThreadAway DEF TableStep
<1>2. CASE lock_file_handler(c)
    <2>1. /\ Return(c, 1) \/ Return(c, 0)
          /\ UNCHANGED <<access, local>> /\ access = NoClient
        BY <1>2 DEF lock_file_handler, InMutex
    <2>2. TableStep(c)
        <3>1. CASE UNCHANGED storage
            BY <3>1, KeptItself DEF TableStep
        <3>2. CASE Found(c) /\ SetLock(c)
            BY <2>1, <3>2, LockStep
        <3>3. CASE /\ Found(c) /\ IsLocked(File_(c)) /\ ~Owns(c) /\ Return(c, 0)
                   /\ storage' = storage_update_file(storage, req[c].path,
                        [File_(c) EXCEPT !.waiting_on_lock = Append(@, c)])
            <4> DEFINE p == req[c].path
                       f == [File_(c) EXCEPT !.waiting_on_lock = Append(@, c)]
            <4>1. File_(c) \in File
                BY <1>0, <3>3, StoredFile DEF Found, File_
            <4>2. Append(File_(c).waiting_on_lock, c) \in Seq(Client)
                BY <4>1, AppendProperties DEF File
            <4>3. f \in File /\ LockedAs(c, File_(c), f)
                <5>1. /\ pc'[c] = "idle" /\ replies'[c] = replies[c]
                      /\ File_(c).locked_by # c
                    BY <3>3 DEF Return, Owns, TypeOK
                <5> QED
                    BY <3>3, <4>1, <4>2, <5>1 DEF File, LockedAs, IsFresh, IsLocked
            <4> HIDE DEF f
            <4>4. storage'.files = hash_map_insert(storage.files, p, f)
                BY <1>0, <3>3, <4>3, UpdateFile DEF f
            <4>5. Updated(storage.files, storage'.files, p) /\ storage'.files[p] = f
                BY <4>4, UpdatedByInsertion
            <4> QED
                BY <2>1, <3>3, <4>3, <4>5 DEF TableStep
        <3> QED
            BY <1>2, <3>1, <3>2, <3>3 DEF lock_file_handler
    <2> QED
        BY <2>1, <2>2, ThreadAway
<1>3. CASE unlock_file_handler(c)
    <2>1. /\ Return(c, 1) /\ UNCHANGED <<local, access>> /\ access = NoClient
          /\ UNCHANGED storage \/ (Owns(c) /\ ClearLock(c))
        BY <1>3 DEF unlock_file_handler, InMutex, HoldsLock, Owns
    <2>2. TableStep(c)
        BY <2>1, KeptItself, LockStep DEF TableStep, Owns
    <2> QED
        BY <2>1, <2>2, ThreadAway
<1> QED
    BY <1>1, <1>2, <1>3

LEMMA HandleStep ==
    ASSUME TypeOK, NEW c \in Client, Handle(c)
    PROVE  TableStep(c) /\ ThreadStep(c)
BY OpenCreateStep, OpenSteps, WriteSteps, TooBigSteps, AppendSteps, ReadNSteps,
   RemoveAndLockSteps DEF Handle

\* A pass of the lock manager keeps the queue, the set of files, their sizes and
\* whether they were written, and gives locks to clients.
LEMMA LockManagerStep ==
    ASSUME TypeOK, lock_manager_thread
    PROVE  /\ access = NoClient /\ UNCHANGED <<access, pc, req, local>>
           /\ storage'.fifo_queue = storage.fifo_queue
           /\ DOMAIN storage'.files = DOMAIN storage.files
           /\ \A p \in DOMAIN storage.files :
                 IsFresh(storage'.files[p]) <=> IsFresh(storage.files[p])
           /\ \A p \in DOMAIN storage.files :
                 \/ storage'.files[p] = storage.files[p]
                 \/ /\ storage'.files[p].size = storage.files[p].size
                    /\ storage.files[p].locked_by = NoClient \/ ~IsLocked(storage.files[p])
                    /\ IsLocked(storage'.files[p])
                    /\ storage'.files[p].locked_by \in Client
<1> DEFINE t == [p \in DOMAIN storage.files |->
                    IF p \in Granted THEN Grant(storage.files[p]) ELSE storage.files[p]]
<1>1. IsStorage(storage)
    BY DEF TypeOK
<1>2. ASSUME NEW p \in Granted
      PROVE  /\ Grant(storage.files[p]).size = storage.files[p].size
             /\ IsFresh(Grant(storage.files[p])) <=> IsFresh(storage.files[p])
             /\ ~IsLocked(storage.files[p])
             /\ IsLocked(Grant(storage.files[p]))
             /\ Grant(storage.files[p]).locked_by \in Client
    <2>1. p \in Stored(storage) /\ storage.files[p].waiting_on_lock # <<>>
        BY <1>1, ScannedStored DEF Granted
    <2>2. storage.files[p] \in File
        BY <1>1, <2>1, StoredFile
    <2>3. Head(storage.files[p].waiting_on_lock) \in Client
        BY <2>1, <2>2, HeadTailProperties DEF File
    <2> QED
        BY <2>2, <2>3 DEF Grant, File, IsLocked, IsFresh, Granted
<1>3. storage' = [storage EXCEPT !.files = t]
    BY DEF lock_manager_thread
<1>4. /\ DOMAIN t = DOMAIN storage.files
      /\ \A p \in DOMAIN storage.files :
            t[p] = IF p \in Granted THEN Grant(storage.files[p]) ELSE storage.files[p]
    OBVIOUS
<1> HIDE DEF t
<1>5. storage'.files = t /\ storage'.fifo_queue = storage.fifo_queue
    BY <1>1, <1>3, ExceptOne
<1>6. access = NoClient /\ UNCHANGED <<access, pc, req, local>>
    BY DEF lock_manager_thread, InMutex
<1> QED
    BY <1>2, <1>4, <1>5, <1>6

-----------------------------------------------------------------------------
\* The flag O_LOCK and the field locked_by agree in every file of the table and
\* in the file_t a writer holds: no handler, whatever the interleaving, sets one
\* without the other.

LEMMA LocksStart == Init => LockFieldsAgree
BY DEF Init, storage_create, LockFieldsAgree, Stored

LEMMA LocksHandle ==
    ASSUME TypeOK, LockFieldsAgree, NEW c \in Client, Handle(c)
    PROVE  LockFieldsAgree'
<1> DEFINE p == req[c].path
           g == storage'.files[p]
<1>0. TableStep(c) /\ ThreadStep(c) /\ c # NoClient
    BY HandleStep, ClientAssumption
<1>1. \A q \in DOMAIN storage.files : FileAgrees(storage.files[q])
    BY DEF LockFieldsAgree, Stored, FileAgrees
<1>2. ASSUME p \in DOMAIN storage'.files, KeptBut(storage.files, storage'.files, p),
             ~Kept(storage.files, storage'.files)
      PROVE  FileAgrees(g)
    <2>1. CASE ~Found(c) /\ g = storage_create_file
        BY <2>1 DEF storage_create_file, FileAgrees, IsLocked
    <2>2. CASE Found(c) /\ LockedAs(c, File_(c), g)
        <3>1. FileAgrees(File_(c))
            BY <1>1, <2>2 DEF Found, Stored, File_
        <3> QED
            BY <1>0, <2>2, <3>1 DEF LockedAs, FileAgrees, IsLocked
    <2>3. CASE Owns(c) /\ g.flags = File_(c).flags /\ g.locked_by = c
        <3>1. FileAgrees(File_(c))
            BY <1>1, <2>3 DEF Owns, Found, Stored, File_
        <3> QED
            BY <1>0, <2>3, <3>1 DEF Owns, FileAgrees, IsLocked
    <2>4. CASE /\ pc[c] = "replace" /\ g.locked_by = local[c].file.locked_by
               /\ g.flags = local[c].file.flags \ {"O_CREATE"}
        BY <1>0, <2>4 DEF LockFieldsAgree, FileAgrees, IsLocked
    <2> QED
        BY <1>0, <1>2, <2>1, <2>2, <2>3, <2>4 DEF TableStep
<1>3. \A q \in DOMAIN storage'.files : FileAgrees(storage'.files[q])
    <2>1. CASE Kept(storage.files, storage'.files)
        BY <1>1, <2>1 DEF Kept
    <2>2. CASE ~Kept(storage.files, storage'.files)
        BY <1>0, <1>1, <1>2, <2>2 DEF TableStep, KeptBut, Updated
    <2> QED
        BY <2>1, <2>2
<1>4. ASSUME NEW d \in Client, pc'[d] = "replace"
      PROVE  IsLocked(local'[d].file) /\ local'[d].file.locked_by = d
    <2>1. CASE d # c \/ (pc[c] = "replace" /\ local'[c].file = local[c].file)
        BY <1>0, <1>4, <2>1 DEF ThreadStep, LockFieldsAgree
    <2>2. CASE d = c /\ Owns(c) /\ local'[c].file = File_(c)
        <3>1. FileAgrees(File_(c)) /\ File_(c).locked_by = c
            BY <1>1, <2>2 DEF Owns, Found, Stored, File_
        <3> QED
            BY <1>0, <2>2, <3>1 DEF FileAgrees
    <2> QED
        BY <1>0, <1>4, <2>1, <2>2 DEF ThreadStep
<1> QED
    BY <1>3, <1>4 DEF LockFieldsAgree, Stored, FileAgrees

LEMMA LocksNext ==
    ASSUME TypeOK, LockFieldsAgree, [Next]_vars
    PROVE  LockFieldsAgree'
<1>1. CASE UNCHANGED vars
    BY <1>1 DEF vars, LockFieldsAgree, Stored
<1>2. ASSUME NEW c \in Client, NEW r \in Requests, worker_thread(c, r)
      PROVE  LockFieldsAgree'
    <2>1. UNCHANGED <<storage, local>> /\ pc' = [pc EXCEPT ![c] = r.op]
        BY <1>2 DEF worker_thread
    <2>2. r.op # "replace"
        BY RequestsAssumption DEF Request, Op
    <2> QED
        BY <2>1, <2>2 DEF LockFieldsAgree, Stored, TypeOK
<1>3. ASSUME NEW c \in Client, CloseConnection(c)
      PROVE  LockFieldsAgree'
    BY <1>3 DEF CloseConnection, LockFieldsAgree, Stored
<1>4. ASSUME NEW c \in Client, Handle(c)
      PROVE  LockFieldsAgree'
    BY <1>4, LocksHandle
<1>5. CASE lock_manager_thread
    <2>1. \A q \in DOMAIN storage.files : FileAgrees(storage.files[q])
        BY DEF LockFieldsAgree, Stored, FileAgrees
    <2>2. \A q \in DOMAIN storage'.files : FileAgrees(storage'.files[q])
        BY <1>5, <2>1, LockManagerStep, ClientAssumption DEF FileAgrees
    <2>3. UNCHANGED <<pc, local>>
        BY <1>5, LockManagerStep
    <2> QED
        BY <2>2, <2>3 DEF LockFieldsAgree, Stored, FileAgrees
<1> QED
    BY <1>1, <1>2, <1>3, <1>4, <1>5 DEF Next

THEOREM LocksConsistent == Spec => []LockFieldsAgree
<1>1. Init => LockFieldsAgree
    BY LocksStart
<1>2. TypeOK /\ LockFieldsAgree /\ [Next]_vars => LockFieldsAgree'
    BY LocksNext
<1> QED
    BY <1>1, <1>2, TypeCorrect, PTL DEF Spec

-----------------------------------------------------------------------------
\* A writer holds the mutex, and the file_t it holds is the one in the table, as
\* long as that is still there: it can be removed outside of the mutex, but not
\* changed or replaced.
WriterHolds ==
    \A c \in Client : pc[c] = "replace" =>
        access = c /\ (Found(c) => File_(c) = local[c].file)

LEMMA WriterHandle ==
    ASSUME TypeOK, WriterHolds, NEW c \in Client, Handle(c)
    PROVE  WriterHolds'
<1>0. TableStep(c) /\ ThreadStep(c) /\ NoClient \notin Client
    BY HandleStep, ClientAssumption
<1> SUFFICES ASSUME NEW d \in Client, pc'[d] = "replace"
             PROVE  access' = d /\ (Found(d)' => File_(d)' = local'[d].file)
    BY DEF WriterHolds
<1>1. CASE d # c
    <2>1. pc[d] = "replace" /\ req'[d] = req[d] /\ local'[d].file = local[d].file
        BY <1>0, <1>1 DEF ThreadStep
    <2>2. access = d /\ (Found(d) => File_(d) = local[d].file)
        BY <2>1 DEF WriterHolds
    <2>3. pc[c] # "replace"
        BY <1>1, <2>2 DEF WriterHolds
    <2>4. access' = d /\ Kept(storage.files, storage'.files)
        BY <1>0, <2>2, <2>3 DEF ThreadStep, TableStep
    <2> QED
        BY <2>1, <2>2, <2>4 DEF Found, File_, Stored, Kept
<1>2. CASE /\ d = c /\ pc[c] = "replace" /\ req'[c] = req[c]
           /\ local'[c].file = local[c].file /\ access' = access
           /\ Kept(storage.files, storage'.files)
    BY <1>2 DEF WriterHolds, Found, File_, Stored, Kept
<1>3. CASE /\ d = c /\ Owns(c) /\ local'[c].file = File_(c) /\ req'[c] = req[c]
           /\ storage' = storage /\ access' = c
    BY <1>3 DEF Owns, Found, File_, Stored
<1> QED
    BY <1>0, <1>1, <1>2, <1>3 DEF ThreadStep

LEMMA WriterNext ==
    ASSUME TypeOK, WriterHolds, [Next]_vars
    PROVE  WriterHolds'
<1>1. CASE UNCHANGED vars
    BY <1>1 DEF vars, WriterHolds, Found, File_, Stored
<1>2. ASSUME NEW c \in Client, NEW r \in Requests, worker_thread(c, r)
      PROVE  WriterHolds'
    <2>1. /\ UNCHANGED <<storage, local, access>> /\ pc' = [pc EXCEPT ![c] = r.op]
          /\ req' = [req EXCEPT ![c] = r]
        BY <1>2 DEF worker_thread
    <2>2. r.op # "replace"
        BY RequestsAssumption DEF Request, Op
    <2>3. \A d \in Client : pc'[d] = "replace" => pc[d] = "replace" /\ req'[d] = req[d]
        BY <2>1, <2>2 DEF TypeOK
    <2> QED
        BY <2>1, <2>3 DEF WriterHolds, Found, File_, Stored
<1>3. ASSUME NEW c \in Client, CloseConnection(c)
      PROVE  WriterHolds'
    BY <1>3 DEF CloseConnection, WriterHolds, Found, File_, Stored
<1>4. ASSUME NEW c \in Client, Handle(c)
      PROVE  WriterHolds'
    BY <1>4, WriterHandle
<1>5. CASE lock_manager_thread
    BY <1>5, LockManagerStep, ClientAssumption DEF WriterHolds
<1> QED
    BY <1>1, <1>2, <1>3, <1>4, <1>5 DEF Next

\* The size of a file changes only in a write or an append of its owner.
ContentStep ==
    \A p \in Stored(storage) \cap Stored(storage)' :
       storage.files[p].size # storage'.files[p].size =>
          \E c \in Client :
             /\ storage.files[p].locked_by = c /\ storage'.files[p].locked_by = c
             /\ req[c].path = p
             /\ pc[c] \in {"replace", "APPEND_TO_FILE"}

LEMMA ContentHandle ==
    ASSUME TypeOK, LockFieldsAgree, WriterHolds, NEW c \in Client, Handle(c)
    PROVE  ContentStep
<1> SUFFICES ASSUME NEW p \in DOMAIN storage.files, p \in DOMAIN storage'.files,
                    storage.files[p].size # storage'.files[p].size
             PROVE  /\ storage.files[p].locked_by = c /\ storage'.files[p].locked_by = c
                    /\ req[c].path = p
                    /\ pc[c] \in {"replace", "APPEND_TO_FILE"}
    BY DEF ContentStep, Stored
<1>1. TableStep(c)
    BY HandleStep
<1>2. req[c].path = p /\ Found(c)
    BY <1>1 DEF TableStep, Kept, KeptBut, Updated, Found, Stored
<1>3. CASE LockedAs(c, File_(c), storage'.files[p])
    BY <1>2, <1>3 DEF LockedAs, File_
<1>4. CASE /\ Owns(c) /\ pc[c] = "APPEND_TO_FILE"
           /\ storage'.files[p].locked_by = c
    BY <1>2, <1>4 DEF Owns, File_
<1>5. CASE /\ pc[c] = "replace"
           /\ storage'.files[p].locked_by = local[c].file.locked_by
    <2>1. File_(c) = local[c].file /\ local[c].file.locked_by = c
        BY <1>2, <1>5 DEF WriterHolds, LockFieldsAgree
    <2> QED
        BY <1>2, <1>5, <2>1 DEF File_
<1> QED
    BY <1>1, <1>2, <1>3, <1>4, <1>5 DEF TableStep, Kept

LEMMA ContentNext ==
    ASSUME TypeOK, LockFieldsAgree, WriterHolds, [Next]_vars
    PROVE  ContentStep
<1>1. CASE UNCHANGED storage
    BY <1>1 DEF ContentStep, Stored
<1>2. ASSUME NEW c \in Client, Handle(c)
      PROVE  ContentStep
    BY <1>2, ContentHandle
<1>3. CASE lock_manager_thread
    BY <1>3, LockManagerStep DEF ContentStep, Stored
<1> QED
    BY <1>1, <1>2, <1>3 DEF Next, vars, worker_thread, CloseConnection

\* What is in a file changes only by the hand of the client that holds its lock,
\* although writers, the removal of oversize files and the lock manager overlap.
THEOREM ContentsOwned == Spec => OnlyOwnerModifies
<1>1. Init => WriterHolds
    BY DEF Init, WriterHolds
<1>2. TypeOK /\ WriterHolds /\ [Next]_vars => WriterHolds'
    BY WriterNext
<1>3. TypeOK /\ LockFieldsAgree /\ WriterHolds /\ [Next]_vars => [ContentStep]_vars
    BY ContentNext
<1>4. Spec => [][ContentStep]_vars
    BY <1>1, <1>2, <1>3, TypeCorrect, LocksConsistent, PTL DEF Spec
<1> QED
    BY <1>4 DEF OnlyOwnerModifies, ContentStep
=============================================================================
