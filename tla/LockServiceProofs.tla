-------------------------- MODULE LockServiceProofs -------------------------
(***************************************************************************)
(* The request handlers and the lock manager implement LockService, for    *)
(* every set of clients, paths, buckets and requests and every capacity:   *)
(* under hash collisions, evictions, and removals outside of the mutex.    *)
(*                                                                         *)
(* The abstract owner and waiting list of a path are those of FileOf(p).   *)
(* A step of a handler either leaves FileOf(p) as it is or loses it, for   *)
(* every path but the one of its request, and what it does to that one is  *)
(* in TableStep.  From the same facts follow who waits, and that nobody    *)
(* who waits is forgotten as long as no file leaves the table.             *)
(***************************************************************************)
EXTENDS LockProofs

-----------------------------------------------------------------------------
\* FileOf, before and after a step.

\* A stored file is the one in the table; a writer is the only one of its path,
\* and holds the file; any other path is that of a file without an owner.
FilesOf ==
    /\ \A p \in DOMAIN storage.files : FileOf(p) = storage.files[p]
    /\ \A c \in Client : pc[c] = "replace" => FileOf(req[c].path) = local[c].file
    /\ \A p \in Path : \/ p \in DOMAIN storage.files
                       \/ \E c \in Client : pc[c] = "replace" /\ req[c].path = p
                       \/ FileOf(p) = storage_create_file

LEMMA WrittenFileOf ==
    ASSUME WriterHolds, NEW c \in Client, pc[c] = "replace"
    PROVE  FileOf(req[c].path) = local[c].file
<1> DEFINE p == req[c].path
           w == CHOOSE d \in Client : Writing(d, p)
<1>1. access = c /\ (Found(c) => File_(c) = local[c].file)
    BY DEF WriterHolds
<1>2. \A d \in Client : Writing(d, p) => d = c
    BY <1>1 DEF WriterHolds, Writing
<1>3. Writing(c, p)
    BY DEF Writing
<1>4. w \in Client /\ Writing(w, p)
    BY <1>3
<1>5. w = c
    BY <1>2, <1>4
<1> QED
    BY <1>1, <1>3, <1>5 DEF FileOf, Found, File_

LEMMA FilesKnown == WriterHolds => FilesOf
<1>1. ASSUME WriterHolds, NEW c \in Client, pc[c] = "replace"
      PROVE  FileOf(req[c].path) = local[c].file
    BY <1>1, WrittenFileOf
<1>2. \A p \in DOMAIN storage.files : FileOf(p) = storage.files[p]
    BY DEF FileOf, Stored
<1>3. \A p \in Path : \/ p \in DOMAIN storage.files
                      \/ \E c \in Client : pc[c] = "replace" /\ req[c].path = p
                      \/ FileOf(p) = storage_create_file
    BY DEF FileOf, Stored, Writing
<1> QED
    BY <1>1, <1>2, <1>3 DEF FilesOf

LEMMA FilesKnownNext == WriterHolds' => FilesOf'
BY FilesKnown, PTL

\* A path the step neither creates nor changes: its file stays or is lost.
LEMMA OtherFileOf ==
    ASSUME FilesOf, FilesOf', NEW c \in Client, ThreadStep(c), NEW q \in Path,
           q \in DOMAIN storage'.files =>
              q \in DOMAIN storage.files /\ storage'.files[q] = storage.files[q]
    PROVE  FileOf(q)' = FileOf(q) \/ FileOf(q)' = storage_create_file
<1>1. CASE q \in DOMAIN storage'.files
    BY <1>1 DEF FilesOf
<1>2. ASSUME q \notin DOMAIN storage'.files,
             NEW d \in Client, pc'[d] = "replace", req'[d].path = q
      PROVE  FileOf(q)' = FileOf(q)
    <2>1. FileOf(q)' = local'[d].file
        BY <1>2 DEF FilesOf
    <2>2. pc[d] = "replace" /\ req'[d] = req[d] /\ local'[d].file = local[d].file
        <3>1. CASE d # c
            BY <1>2, <3>1 DEF ThreadStep
        <3>2. CASE d = c
            BY <1>2, <3>2 DEF ThreadStep, Owns, Found, Stored
        <3> QED
            BY <3>1, <3>2
    <2>3. FileOf(q) = local[d].file
        BY <1>2, <2>2 DEF FilesOf
    <2> QED
        BY <2>1, <2>2, <2>3
<1> QED
    BY <1>1, <1>2 DEF FilesOf

\* Outside of every critical section, what is not in the table has no owner.
Unlocked ==
    \A p \in Path : p \notin DOMAIN storage.files => FileOf(p) = storage_create_file

LEMMA NoWriterFileOf == WriterHolds /\ access = NoClient => Unlocked
<1> SUFFICES ASSUME WriterHolds, access = NoClient
             PROVE  Unlocked
    OBVIOUS
<1>1. \A c \in Client : pc[c] # "replace"
    BY ClientAssumption DEF WriterHolds
<1>2. FilesOf
    BY FilesKnown
<1> QED
    BY <1>1, <1>2 DEF FilesOf, Unlocked

LEMMA NoWriterFileOfNext == WriterHolds' /\ (access = NoClient)' => Unlocked'
BY NoWriterFileOf, PTL

-----------------------------------------------------------------------------
\* The steps of LockService.

\* A step of a handler is a step on a request in progress.
LEMMA HandleOn ==
    ASSUME NEW c \in Client, Handle(c), ThreadStep(c)
    PROVE  Locks!On(c) /\ (pc'[c] = "idle" => c \notin Busy')
<1>1. pc[c] # "idle"
    BY TooBigThread
       DEF Handle, At, Removing, OpenCreate, OpenLock, OpenNoFlag, close_file_handler,
           WriteRefused, WriteTooBig, WriteAdmitted, storage_FIFO_replace, WriteCommit,
           append_to_file_handler, read_file_handler,
           ReadNCollect, ReadNFails, ReadNFree, ReadNFreed, ReadNSend,
           remove_file_handler, lock_file_handler, unlock_file_handler
<1>2. \A d \in Client \ {c} : pc'[d] = pc[d]
    BY DEF ThreadStep
<1>3. Busy' \in {Busy, Busy \ {c}}
    BY <1>1, <1>2 DEF Busy
<1> QED
    BY <1>1, <1>3 DEF Locks!On, Busy

\* What the worker of c does to the locks; who begins to wait is not answered.
ServedBy(c) ==
    \/ Locks!Proceed(c)
    \/ \E p \in Path : \/ Locks!Take(c, p) \/ Locks!Release(c, p)
                       \/ Locks!Wait(c, p) /\ replies'[c] = replies[c]
    \/ \E P \in SUBSET Path : Locks!Drop(c, P)

\* Files are lost, at most.
LEMMA DropStep ==
    ASSUME NEW c \in Client, Locks!On(c),
           \A q \in Path : FileOf(q)' = FileOf(q) \/ FileOf(q)' = storage_create_file
    PROVE  ServedBy(c)
<1> DEFINE P == {q \in Path : FileOf(q)' # FileOf(q)}
<1>1. /\ storage_create_file.locked_by = NoClient
      /\ storage_create_file.waiting_on_lock = <<>>
    BY DEF storage_create_file
<1>2. Owner' = [q \in Path |-> IF q \in P THEN NoClient ELSE Owner[q]]
    BY <1>1 DEF Owner
<1>3. WaitingList' = [q \in Path |-> IF q \in P THEN <<>> ELSE WaitingList[q]]
    BY <1>1 DEF WaitingList
<1>4. P \in SUBSET Path
    OBVIOUS
<1> HIDE DEF P
<1>5. Locks!Drop(c, P)
    BY <1>2, <1>3 DEF Locks!Drop
<1> QED
    BY <1>4, <1>5 DEF ServedBy

\* One file is given another owner, or one more client that waits.
LEMMA OneFileStep ==
    ASSUME NEW c \in Client, Locks!On(c), NEW p \in Path, c # NoClient,
           \A q \in Path : q # p => FileOf(q)' = FileOf(q),
           \/ FileOf(p)'.waiting_on_lock = FileOf(p).waiting_on_lock
              /\ \/ FileOf(p)'.locked_by = FileOf(p).locked_by
                 \/ FileOf(p)'.locked_by = c
                 \/ FileOf(p).locked_by = c /\ FileOf(p)'.locked_by = NoClient
           \/ /\ FileOf(p)'.locked_by = FileOf(p).locked_by
              /\ FileOf(p).locked_by \notin {c, NoClient} /\ c \notin Busy'
              /\ replies'[c] = replies[c]
              /\ FileOf(p)'.waiting_on_lock = Append(FileOf(p).waiting_on_lock, c)
    PROVE  ServedBy(c)
<1>1. Owner' = [Owner EXCEPT ![p] = FileOf(p)'.locked_by]
    BY DEF Owner
<1>2. WaitingList' = [WaitingList EXCEPT ![p] = FileOf(p)'.waiting_on_lock]
    BY DEF WaitingList
<1>3. /\ Owner = [Owner EXCEPT ![p] = FileOf(p).locked_by]
      /\ Owner[p] = FileOf(p).locked_by
    BY DEF Owner
<1>4. /\ WaitingList = [WaitingList EXCEPT ![p] = FileOf(p).waiting_on_lock]
      /\ WaitingList[p] = FileOf(p).waiting_on_lock
    BY DEF WaitingList
<1>5. CASE /\ FileOf(p)'.waiting_on_lock = FileOf(p).waiting_on_lock
           /\ FileOf(p)'.locked_by = FileOf(p).locked_by
    <2>1. Locks!Proceed(c)
        BY <1>1, <1>2, <1>3, <1>4, <1>5 DEF Locks!Proceed
    <2> QED
        BY <2>1 DEF ServedBy
<1>6. CASE /\ FileOf(p)'.waiting_on_lock = FileOf(p).waiting_on_lock
           /\ FileOf(p)'.locked_by = c /\ FileOf(p).locked_by # c
    <2>1. Locks!Take(c, p)
        BY <1>1, <1>2, <1>3, <1>4, <1>6 DEF Locks!Take
    <2> QED
        BY <2>1 DEF ServedBy
<1>7. CASE /\ FileOf(p)'.waiting_on_lock = FileOf(p).waiting_on_lock
           /\ FileOf(p).locked_by = c /\ FileOf(p)'.locked_by = NoClient
    <2>1. Locks!Release(c, p)
        BY <1>1, <1>2, <1>3, <1>4, <1>7 DEF Locks!Release
    <2> QED
        BY <2>1 DEF ServedBy
<1>8. CASE /\ FileOf(p)'.locked_by = FileOf(p).locked_by
           /\ FileOf(p).locked_by \notin {c, NoClient} /\ c \notin Busy'
           /\ replies'[c] = replies[c]
           /\ FileOf(p)'.waiting_on_lock = Append(FileOf(p).waiting_on_lock, c)
    <2>1. WaitingList' = [WaitingList EXCEPT ![p] = Append(@, c)]
        BY <1>2, <1>4, <1>8
    <2>2. Owner' = Owner /\ Owner[p] \notin {c, NoClient}
        BY <1>1, <1>3, <1>8
    <2>3. Locks!Wait(c, p)
        BY <1>8, <2>1, <2>2 DEF Locks!Wait
    <2> QED
        BY <1>8, <2>3 DEF ServedBy
<1> QED
    BY <1>5, <1>6, <1>7, <1>8

-----------------------------------------------------------------------------
\* Every step of the server is one of them.

\* In the table, a step that updates p leaves every other file as it is.
LEMMA UpdatedFileOf ==
    ASSUME WriterHolds, FilesOf, FilesOf', NEW c \in Client, ThreadStep(c),
           NEW p, p = req[c].path, Updated(storage.files, storage'.files, p),
           access = NoClient \/ pc[c] = "replace"
    PROVE  /\ FileOf(p)' = storage'.files[p]
           /\ \A q \in Path : q # p => FileOf(q)' = FileOf(q)
<1>1. FileOf(p)' = storage'.files[p]
    BY DEF FilesOf, Updated
<1>2. ASSUME NEW q \in Path, q # p
      PROVE  FileOf(q)' = FileOf(q)
    <2>1. CASE q \in DOMAIN storage.files
        BY <1>2, <2>1 DEF FilesOf, Updated, KeptBut
    <2>2. CASE q \notin DOMAIN storage.files
        <3>1. \A d \in Client : pc[d] = "replace" => req[d].path # q
            BY <1>2, ClientAssumption DEF WriterHolds
        <3>2. FileOf(q) = storage_create_file
            BY <2>2, <3>1 DEF FilesOf
        <3>3. q \notin DOMAIN storage'.files
            BY <1>2, <2>2 DEF Updated
        <3> QED
            BY <3>2, <3>3, OtherFileOf
    <2> QED
        BY <2>1, <2>2
<1> QED
    BY <1>1, <1>2

LEMMA ServiceHandle ==
    ASSUME TypeOK, LockFieldsAgree, WriterHolds, WriterHolds', NEW c \in Client, Handle(c)
    PROVE  ServedBy(c)
<1>0. TableStep(c) /\ ThreadStep(c) /\ c # NoClient
    BY HandleStep, ClientAssumption
<1>p. PICK p \in Path : p = req[c].path
    BY DEF TypeOK, Request
<1> DEFINE g == storage'.files[p]
<1>1. FilesOf /\ FilesOf'
    BY FilesKnown, FilesKnownNext
<1>2. Locks!On(c) /\ (pc'[c] = "idle" => c \notin Busy')
    BY <1>0, HandleOn
<1>3. CASE Kept(storage.files, storage'.files)
    <2>1. \A q \in Path : FileOf(q)' = FileOf(q) \/ FileOf(q)' = storage_create_file
        BY <1>0, <1>1, <1>3, OtherFileOf DEF Kept
    <2> QED
        BY <1>2, <2>1, DropStep
<1>4. CASE /\ KeptBut(storage.files, storage'.files, p)
           /\ access = NoClient /\ ~Found(c)
           /\ p \in DOMAIN storage'.files /\ g = storage_create_file
    <2>1. FileOf(p)' = storage_create_file
        BY <1>1, <1>4 DEF FilesOf
    <2>2. \A q \in Path : q # p =>
             FileOf(q)' = FileOf(q) \/ FileOf(q)' = storage_create_file
        BY <1>0, <1>1, <1>4, OtherFileOf DEF KeptBut
    <2> QED
        BY <1>2, <2>1, <2>2, DropStep
<1>5. CASE /\ Updated(storage.files, storage'.files, p)
           /\ access = NoClient /\ Found(c) /\ LockedAs(c, File_(c), g)
    <2>1. FileOf(p)' = g /\ \A q \in Path : q # p => FileOf(q)' = FileOf(q)
        BY <1>0, <1>1, <1>p, <1>5, UpdatedFileOf
    <2>2. FileOf(p) = File_(c) /\ (IsLocked(File_(c)) <=> File_(c).locked_by # NoClient)
        BY <1>1, <1>p, <1>5 DEF FilesOf, Found, Stored, File_, LockFieldsAgree
    <2> HIDE DEF g
    <2> QED
        BY <1>0, <1>2, <1>5, <2>1, <2>2, OneFileStep DEF LockedAs, IsLocked
<1>6. CASE /\ Updated(storage.files, storage'.files, p)
           /\ access = NoClient /\ Owns(c) /\ g.locked_by = c
           /\ g.waiting_on_lock = File_(c).waiting_on_lock
    <2>1. FileOf(p)' = g /\ \A q \in Path : q # p => FileOf(q)' = FileOf(q)
        BY <1>0, <1>1, <1>p, <1>6, UpdatedFileOf
    <2>2. FileOf(p) = File_(c)
        BY <1>1, <1>p, <1>6 DEF FilesOf, Owns, Found, Stored, File_
    <2> HIDE DEF g
    <2> QED
        BY <1>0, <1>2, <1>6, <2>1, <2>2, OneFileStep
<1>7. CASE /\ Updated(storage.files, storage'.files, p)
           /\ pc[c] = "replace"
           /\ g.locked_by = local[c].file.locked_by
           /\ g.waiting_on_lock = local[c].file.waiting_on_lock
    <2>1. FileOf(p)' = g /\ \A q \in Path : q # p => FileOf(q)' = FileOf(q)
        BY <1>0, <1>1, <1>p, <1>7, UpdatedFileOf
    <2>2. FileOf(p) = local[c].file
        BY <1>1, <1>p, <1>7 DEF FilesOf
    <2> HIDE DEF g
    <2> QED
        BY <1>0, <1>2, <1>7, <2>1, <2>2, OneFileStep
<1> QED
    BY <1>0, <1>p, <1>3, <1>4, <1>5, <1>6, <1>7 DEF TableStep

\* A pass of the lock manager grants the free locks that are waited for, of the
\* files in the queue.
LEMMA ServiceGrant ==
    ASSUME TypeOK, LockFieldsAgree, WriterHolds, WriterHolds', lock_manager_thread
    PROVE  Granted \in SUBSET Path /\ Locks!Grant(Granted)
<1>1. FilesOf /\ FilesOf'
    BY FilesKnown, FilesKnownNext
<1>2. /\ access = NoClient /\ UNCHANGED <<access, pc>>
      /\ DOMAIN storage'.files = DOMAIN storage.files /\ IsStorage(storage)
    BY LockManagerStep DEF TypeOK
<1>3. \A q \in DOMAIN storage.files :
         storage'.files[q] = IF q \in Granted THEN Grant(storage.files[q])
                             ELSE storage.files[q]
    <2> DEFINE t == [q \in DOMAIN storage.files |->
                       IF q \in Granted THEN Grant(storage.files[q]) ELSE storage.files[q]]
    <2>1. storage' = [storage EXCEPT !.files = t]
        BY DEF lock_manager_thread
    <2>2. \A q \in DOMAIN storage.files :
             t[q] = IF q \in Granted THEN Grant(storage.files[q]) ELSE storage.files[q]
        OBVIOUS
    <2> HIDE DEF t
    <2>3. storage'.files = t
        BY <1>2, <2>1, ExceptOne
    <2> QED
        BY <2>2, <2>3
<1>4. ASSUME NEW q \in Granted
      PROVE  /\ q \in Path
             /\ FileOf(q).locked_by = NoClient /\ FileOf(q).waiting_on_lock # <<>>
             /\ FileOf(q)'.locked_by = Head(FileOf(q).waiting_on_lock)
             /\ FileOf(q)'.waiting_on_lock = Tail(FileOf(q).waiting_on_lock)
    <2>1. /\ q \in DOMAIN storage.files /\ ~IsLocked(storage.files[q])
          /\ storage.files[q].waiting_on_lock # <<>>
        BY <1>2, ScannedStored DEF Granted, Stored
    <2>2. storage.files[q] \in File /\ q \in Path
        BY <1>2, <2>1, StoredFile DEF IsStorage, IsTable, Stored
    <2>3. FileOf(q) = storage.files[q] /\ FileOf(q)' = Grant(storage.files[q])
        BY <1>1, <1>2, <1>3, <2>1 DEF FilesOf
    <2>4. storage.files[q].locked_by = NoClient
        BY <2>1 DEF LockFieldsAgree, Stored
    <2>5. /\ Grant(storage.files[q]).locked_by = Head(storage.files[q].waiting_on_lock)
          /\ Grant(storage.files[q]).waiting_on_lock
                = Tail(storage.files[q].waiting_on_lock)
        BY <2>2 DEF Grant, File
    <2> QED
        BY <2>1, <2>2, <2>3, <2>4, <2>5
<1>5. ASSUME NEW q \in Path, q \notin Granted
      PROVE  FileOf(q)' = FileOf(q)
    <2>1. CASE q \in DOMAIN storage.files
        BY <1>1, <1>2, <1>3, <1>5, <2>1 DEF FilesOf
    <2>2. CASE q \notin DOMAIN storage.files
        BY <1>2, <1>5, <2>2, NoWriterFileOf, NoWriterFileOfNext DEF Unlocked
    <2> QED
        BY <2>1, <2>2
<1>6. /\ Owner' = [q \in Path |-> IF q \in Granted THEN Head(WaitingList[q])
                                  ELSE Owner[q]]
      /\ WaitingList' = [q \in Path |-> IF q \in Granted THEN Tail(WaitingList[q])
                                        ELSE WaitingList[q]]
      /\ \A q \in Granted : Owner[q] = NoClient /\ WaitingList[q] # <<>>
    BY <1>4, <1>5 DEF Owner, WaitingList
<1>7. Granted \in SUBSET Path /\ Busy' = Busy
    BY <1>2, <1>4 DEF Busy
<1>8. Locks!Grant(Granted)
    BY <1>6, <1>7 DEF Locks!Grant
<1> QED
    BY <1>7, <1>8

\* A client without a request sends one; the files stay as they are.
LEMMA ServiceRequest ==
    ASSUME TypeOK, WriterHolds, WriterHolds',
           NEW c \in Client, NEW r \in Requests, worker_thread(c, r)
    PROVE  Locks!Request(c)
<1>1. /\ UNCHANGED <<storage, local>> /\ pc[c] = "idle"
      /\ pc' = [pc EXCEPT ![c] = r.op] /\ req' = [req EXCEPT ![c] = r]
      /\ r.op # "idle" /\ r.op # "replace"
    BY RequestsAssumption DEF worker_thread, At, Request, Op
<1>2. \A d \in Client : /\ d # c => pc'[d] = pc[d] /\ req'[d] = req[d]
                        /\ pc'[c] = r.op
    BY <1>1 DEF TypeOK
<1>3. FilesOf /\ FilesOf'
    BY FilesKnown, FilesKnownNext
<1>4. ASSUME NEW q \in Path
      PROVE  FileOf(q)' = FileOf(q)
    <2>1. CASE q \in DOMAIN storage.files
        BY <1>1, <1>3, <2>1 DEF FilesOf
    <2>2. ASSUME NEW d \in Client, pc[d] = "replace", req[d].path = q
          PROVE  FileOf(q)' = FileOf(q)
        <3>1. pc'[d] = "replace" /\ req'[d].path = q
            BY <1>1, <1>2, <2>2
        <3>2. FileOf(q) = local[d].file /\ FileOf(q)' = local'[d].file
            BY <1>3, <2>2, <3>1 DEF FilesOf
        <3> QED
            BY <1>1, <3>2
    <2>3. CASE /\ q \notin DOMAIN storage.files
               /\ \A d \in Client : ~(pc[d] = "replace" /\ req[d].path = q)
        <3>1. \A d \in Client : ~(pc'[d] = "replace" /\ req'[d].path = q)
            BY <1>1, <1>2, <2>3
        <3> QED
            BY <1>1, <1>3, <2>3, <3>1 DEF FilesOf
    <2> QED
        BY <2>1, <2>2, <2>3
<1>5. Owner' = Owner /\ WaitingList' = WaitingList
    BY <1>4 DEF Owner, WaitingList
<1>6. c \notin Busy /\ Busy' = Busy \cup {c}
    BY <1>1, <1>2 DEF Busy
<1> QED
    BY <1>5, <1>6 DEF Locks!Request

LEMMA ServiceNext ==
    ASSUME TypeOK, LockFieldsAgree, WriterHolds, WriterHolds', [Next]_vars
    PROVE  [Locks!Next]_Locks!vars
<1>1. CASE UNCHANGED <<storage, pc, req, local>>
    BY <1>1 DEF Locks!vars, Owner, WaitingList, Busy, FileOf, Writing, Stored
<1>2. ASSUME NEW c \in Client, NEW r \in Requests, worker_thread(c, r)
      PROVE  Locks!Next
    BY <1>2, ServiceRequest DEF Locks!Next
<1>3. ASSUME NEW c \in Client, Handle(c)
      PROVE  Locks!Next
    BY <1>3, ServiceHandle DEF ServedBy, Locks!Next
<1>4. CASE lock_manager_thread
    BY <1>4, ServiceGrant DEF Locks!Next
<1> QED
    BY <1>1, <1>2, <1>3, <1>4 DEF Next, vars, CloseConnection

LEMMA ServiceStart == Init => Locks!Init
<1> SUFFICES ASSUME Init
             PROVE  Locks!Init
    OBVIOUS
<1>1. \A p \in Path : FileOf(p) = storage_create_file
    BY DEF Init, storage_create, FileOf, Writing, Stored
<1>2. /\ storage_create_file.locked_by = NoClient
      /\ storage_create_file.waiting_on_lock = <<>>
    BY DEF storage_create_file
<1>3. Owner = [p \in Path |-> NoClient] /\ WaitingList = [p \in Path |-> <<>>]
    BY <1>1, <1>2 DEF Owner, WaitingList
<1>4. Busy = {}
    BY DEF Init, Busy
<1> QED
    BY <1>3, <1>4 DEF Locks!Init

\* The server provides the lock service of its interface: whatever is expelled,
\* dropped with its bucket or removed outside of the mutex meanwhile, the locks
\* of the files change only in the ways LockService lists.
THEOREM LocksImplemented == Spec => ImplementsLockService
<1>1. Init => Locks!Init /\ WriterHolds
    BY ServiceStart DEF Init, WriterHolds
<1>2. TypeOK /\ WriterHolds /\ [Next]_vars => WriterHolds'
    BY WriterNext
<1>3. TypeOK /\ LockFieldsAgree /\ WriterHolds /\ WriterHolds' /\ [Next]_vars
         => [Locks!Next]_Locks!vars
    BY ServiceNext
<1> QED
    BY <1>1, <1>2, <1>3, TypeCorrect, LocksConsistent, PTL
    DEF Spec, ImplementsLockService, Locks!Spec

-----------------------------------------------------------------------------
\* Who waits.  A client that no worker serves and that has no answer to consume
\* can send nothing.
Silent == {c \in Client : pc[c] = "idle" /\ replies[c] = 0}

\* Who waits is silent, does not own what it waits for, and waits once.
Queues(W, O, S) ==
    \A p \in Path : \A i \in DOMAIN W[p] :
       /\ W[p][i] \in S /\ O[p] # W[p][i]
       /\ \A q \in Path : \A j \in DOMAIN W[q] : W[q][j] = W[p][i] => p = q /\ i = j

\* The handlers that answer twice.
Twice == {"APPEND_TO_FILE", "READ_N_FILES", "send_files", "free_files"}

OneAnswer ==
    \A c \in Client : /\ pc[c] \notin Twice
                      /\ replies[c] \in {0, 1}
                      /\ pc[c] # "idle" => replies[c] = 0

Waiters == OneAnswer /\ Queues(WaitingList, Owner, Silent)

\* A step of a handler answers once, at its end, or not at all.
LEMMA HandleAnswers ==
    ASSUME TypeOK, NEW c \in Client, Handle(c), pc[c] \notin Twice
    PROVE  /\ \A d \in Client \ {c} : pc'[d] = pc[d] /\ replies'[d] = replies[d]
           /\ \/ pc'[c] = "idle" /\ replies'[c] \in {replies[c], replies[c] + 1}
              \/ pc'[c] \notin Twice \cup {"idle"} /\ replies'[c] = replies[c]
           /\ pc[c] # "idle"
<1>1. CASE \/ Return(c, 1) /\ pc[c] # "idle"
           \/ Return(c, 0) /\ pc[c] # "idle"
           \/ \E label \in Labels \ (Twice \cup {"idle"}) : Goto(c, label) /\ pc[c] # "idle"
           \/ UNCHANGED <<pc, replies>> /\ pc[c] # "idle"
    BY <1>1 DEF Return, Goto, TypeOK
<1>2. /\ \A label \in Removing \cup {"replace"} :
            label \in Labels \ (Twice \cup {"idle"}) /\ label # "idle"
      /\ "too_big" \in Removing
      /\ \A flag : OpenNext(c, flag) => Return(c, 1) \/ UNCHANGED <<pc, replies>>
    BY DEF Labels, Removing, Twice, OpenNext
<1>3. CASE OpenCreate(c) \/ OpenLock(c) \/ OpenNoFlag(c) \/ close_file_handler(c)
    BY <1>1, <1>2, <1>3 DEF OpenCreate, OpenLock, OpenNoFlag, close_file_handler, At
<1>4. CASE \/ WriteRefused(c) \/ WriteTooBig(c) \/ WriteAdmitted(c)
           \/ storage_FIFO_replace(c) \/ WriteCommit(c)
    BY <1>1, <1>2, <1>4 DEF WriteRefused, WriteTooBig, WriteAdmitted,
                            storage_FIFO_replace, WriteCommit, At
<1>5. CASE TooBig(c)
    BY <1>1, <1>2, <1>5, TooBigThread
<1>6. CASE read_file_handler(c)
    BY <1>1, <1>6 DEF read_file_handler, At
<1>7. CASE remove_file_handler(c) \/ lock_file_handler(c) \/ unlock_file_handler(c)
    BY <1>1, <1>7 DEF remove_file_handler, lock_file_handler, unlock_file_handler, At
<1>8. ~ (\/ append_to_file_handler(c) \/ ReadNCollect(c) \/ ReadNFails(c)
         \/ ReadNFree(c) \/ ReadNFreed(c) \/ ReadNSend(c))
    BY DEF append_to_file_handler, ReadNCollect, ReadNFails, ReadNFree, ReadNFreed,
           ReadNSend, At, Twice
<1> QED
    BY <1>3, <1>4, <1>5, <1>6, <1>7, <1>8 DEF Handle

LEMMA FileTyped ==
    ASSUME TypeOK, FilesOf, NEW p \in Path
    PROVE  FileOf(p) \in File
<1>1. CASE p \in DOMAIN storage.files
    BY <1>1, StoredFile DEF TypeOK, FilesOf, Stored
<1>2. ASSUME NEW c \in Client, pc[c] = "replace", req[c].path = p
      PROVE  FileOf(p) \in File
    BY <1>2 DEF TypeOK, FilesOf, Local
<1>3. storage_create_file \in File
    BY ClientAssumption DEF storage_create_file, File
<1> QED
    BY <1>1, <1>2, <1>3 DEF FilesOf

LEMMA WaitingListTyped ==
    ASSUME TypeOK, WriterHolds
    PROVE  /\ \A p \in Path : WaitingList[p] \in Seq(Client)
           /\ DOMAIN WaitingList = Path
<1>1. ASSUME NEW p \in Path
      PROVE  WaitingList[p] \in Seq(Client)
    <2>1. FileOf(p) \in File
        BY FileTyped, FilesKnown
    <2> QED
        BY <2>1 DEF WaitingList, File
<1> QED
    BY <1>1 DEF WaitingList

LEMMA QueuesHandle ==
    ASSUME TypeOK, Waiters, LockFieldsAgree, WriterHolds, WriterHolds',
           NEW c \in Client, Handle(c)
    PROVE  Waiters'
<1>1. /\ \A d \in Client \ {c} : pc'[d] = pc[d] /\ replies'[d] = replies[d]
      /\ \/ pc'[c] = "idle" /\ replies'[c] \in {replies[c], replies[c] + 1}
         \/ pc'[c] \notin Twice \cup {"idle"} /\ replies'[c] = replies[c]
      /\ pc[c] # "idle" /\ replies[c] = 0
    BY HandleAnswers DEF Waiters, OneAnswer
<1>2. OneAnswer'
    BY <1>1 DEF Waiters, OneAnswer, Twice
<1>3. c \notin Silent /\ Silent \subseteq Silent' /\ NoClient \notin Silent
    BY <1>1, ClientAssumption DEF Silent
<1>4. /\ DOMAIN Owner = Path /\ DOMAIN WaitingList = Path
      /\ Queues(WaitingList, Owner, Silent)
      /\ \A p \in Path : WaitingList[p] \in Seq(Client)
    BY WaitingListTyped DEF Owner, WaitingList, Waiters
<1>5. ServedBy(c)
    BY ServiceHandle
<1>6. ASSUME Locks!Proceed(c)
      PROVE  Queues(WaitingList, Owner, Silent)'
    BY <1>3, <1>4, <1>6 DEF Locks!Proceed, Queues
<1>7. ASSUME NEW p \in Path, Locks!Take(c, p) \/ Locks!Release(c, p)
      PROVE  Queues(WaitingList, Owner, Silent)'
    <2>1. /\ WaitingList' = WaitingList
          /\ \A q \in Path : Owner'[q] \in {Owner[q], c, NoClient}
        BY <1>4, <1>7 DEF Locks!Take, Locks!Release
    <2> QED
        BY <1>3, <1>4, <2>1 DEF Queues
<1>8. ASSUME NEW p \in Path, Locks!Wait(c, p), replies'[c] = replies[c]
      PROVE  Queues(WaitingList, Owner, Silent)'
    <2>1. /\ WaitingList' = [WaitingList EXCEPT ![p] = Append(@, c)]
          /\ Owner' = Owner /\ Owner[p] # c /\ c \notin Busy'
        BY <1>8 DEF Locks!Wait
    <2>2. c \in Silent'
        BY <1>1, <1>8, <2>1 DEF Silent, Busy
    <2>3. /\ DOMAIN WaitingList'[p] = DOMAIN WaitingList[p] \cup {Len(WaitingList[p]) + 1}
          /\ Len(WaitingList[p]) + 1 \notin DOMAIN WaitingList[p]
          /\ \A i \in DOMAIN WaitingList[p] : WaitingList'[p][i] = WaitingList[p][i]
          /\ WaitingList'[p][Len(WaitingList[p]) + 1] = c
        <3>1. WaitingList'[p] = Append(WaitingList[p], c)
            BY <1>4, <2>1
        <3>2. WaitingList[p] \in Seq(Client)
            BY <1>4
        <3> QED
            BY <3>1, <3>2, AppendedElements
    <2>4. \A q \in Path : q # p => WaitingList'[q] = WaitingList[q]
        BY <1>4, <2>1
    <2> QED
        BY <1>3, <1>4, <2>1, <2>2, <2>3, <2>4 DEF Queues
<1>9. ASSUME NEW P \in SUBSET Path, Locks!Drop(c, P)
      PROVE  Queues(WaitingList, Owner, Silent)'
    <2>1. \A q \in Path : /\ WaitingList'[q] = <<>> \/ WaitingList'[q] = WaitingList[q]
                          /\ Owner'[q] \in {Owner[q], NoClient}
        BY <1>9 DEF Locks!Drop
    <2>2. DOMAIN <<>> = {}
        OBVIOUS
    <2> QED
        BY <1>3, <1>4, <2>1, <2>2 DEF Queues
<1> QED
    BY <1>2, <1>5, <1>6, <1>7, <1>8, <1>9 DEF ServedBy, Waiters

\* A request is sent by a client that does not wait.
LEMMA QueuesRequest ==
    ASSUME AnsweredOnce, TypeOK, Waiters, WriterHolds, WriterHolds',
           NEW c \in Client, NEW r \in Requests, worker_thread(c, r)
    PROVE  Waiters'
<1>1. /\ pc[c] = "idle" /\ replies[c] > 0
      /\ pc' = [pc EXCEPT ![c] = r.op] /\ replies' = [replies EXCEPT ![c] = @ - 1]
      /\ r.op \notin Twice \cup {"idle"}
    BY RequestsAssumption DEF worker_thread, At, AnsweredOnce, Twice, Request, Op
<1>2. replies[c] = 1
    BY <1>1 DEF Waiters, OneAnswer
<1>3. /\ pc'[c] = r.op /\ replies'[c] = 0
      /\ \A d \in Client \ {c} : pc'[d] = pc[d] /\ replies'[d] = replies[d]
    BY <1>1, <1>2 DEF TypeOK
<1>4. OneAnswer'
    BY <1>1, <1>3 DEF Waiters, OneAnswer
<1>5. Silent' = Silent
    BY <1>1, <1>2, <1>3 DEF Silent
<1>6. WaitingList' = WaitingList /\ Owner' = Owner
    BY ServiceRequest DEF Locks!Request
<1> QED
    BY <1>4, <1>5, <1>6 DEF Waiters, Queues

\* The lock manager answers the clients whose turn has come, each of them once,
\* since it waits in one list only.
LEMMA QueuesGrant ==
    ASSUME TypeOK, Waiters, LockFieldsAgree, WriterHolds, WriterHolds',
           lock_manager_thread
    PROVE  Waiters'
<1>1. Granted \in SUBSET Path /\ Locks!Grant(Granted)
    BY ServiceGrant
<1>2. /\ \A p \in Path : WaitingList[p] \in Seq(Client)
      /\ Queues(WaitingList, Owner, Silent)
      /\ DOMAIN WaitingList = Path
    BY WaitingListTyped DEF Waiters
<1> DEFINE first(p) == WaitingList[p][1]
<1>3. \A p \in Granted : /\ p \in Path
                         /\ WaitingList[p] # <<>> /\ 1 \in DOMAIN WaitingList[p]
                         /\ first(p) \in Silent
                         /\ Owner'[p] = first(p)
                         /\ WaitingList'[p] = Tail(WaitingList[p])
                         /\ Head(storage.files[p].waiting_on_lock) = first(p)
    <2> SUFFICES ASSUME NEW p \in Granted
                 PROVE  /\ p \in Path
                        /\ WaitingList[p] # <<>> /\ 1 \in DOMAIN WaitingList[p]
                        /\ first(p) \in Silent
                        /\ Owner'[p] = first(p)
                        /\ WaitingList'[p] = Tail(WaitingList[p])
                        /\ Head(storage.files[p].waiting_on_lock) = first(p)
        OBVIOUS
    <2>1. /\ p \in Path /\ WaitingList[p] # <<>> /\ WaitingList[p] \in Seq(Client)
          /\ WaitingList'[p] = Tail(WaitingList[p])
          /\ Owner'[p] = Head(WaitingList[p])
        BY <1>1, <1>2 DEF Locks!Grant
    <2>2. 1 \in DOMAIN WaitingList[p] /\ Head(WaitingList[p]) = first(p)
        BY <2>1, NonEmptyHead
    <2>3. first(p) \in Silent
        BY <1>2, <2>1, <2>2 DEF Queues
    <2>4. WaitingList[p] = storage.files[p].waiting_on_lock
        <3>1. p \in DOMAIN storage.files
            BY ScannedStored DEF Granted, Stored, TypeOK
        <3>2. FileOf(p) = storage.files[p]
            BY <3>1, FilesKnown DEF FilesOf
        <3> QED
            BY <2>1, <3>2 DEF WaitingList
    <2> QED
        BY <2>1, <2>2, <2>3, <2>4
<1>4. \A p \in Path \ Granted : Owner'[p] = Owner[p] /\ WaitingList'[p] = WaitingList[p]
    BY <1>1 DEF Locks!Grant
<1>5. \A p, q \in Granted : first(p) = first(q) => p = q
    BY <1>2, <1>3 DEF Queues
<1>6. \A d \in Client :
         \/ d \in Silent /\ Answers(d) = 1 /\ \E p \in Granted : d = first(p)
         \/ Answers(d) = 0 /\ \A p \in Granted : d # first(p)
    <2> SUFFICES ASSUME NEW d \in Client
                 PROVE  \/ d \in Silent /\ Answers(d) = 1 /\ \E p \in Granted : d = first(p)
                        \/ Answers(d) = 0 /\ \A p \in Granted : d # first(p)
        OBVIOUS
    <2> DEFINE D == {p \in Granted : Head(storage.files[p].waiting_on_lock) = d}
    <2>1. Answers(d) = Cardinality(D)
        BY DEF Answers
    <2>2. D = {p \in Granted : first(p) = d}
        BY <1>3
    <2> HIDE DEF D
    <2>3. ASSUME NEW p \in Granted, d = first(p)
          PROVE  D = {p} /\ d \in Silent
        BY <1>3, <1>5, <2>2, <2>3
    <2>4. ASSUME \A p \in Granted : d # first(p)
          PROVE  D = {}
        BY <2>2, <2>4
    <2>5. Cardinality({}) = 0 /\ \A x : Cardinality({x}) = 1
        BY FS_EmptySet, FS_Singleton
    <2> QED
        BY <2>1, <2>3, <2>4, <2>5
<1>7. /\ pc' = pc
      /\ \A d \in Client : replies'[d] = replies[d] + Answers(d)
    BY DEF lock_manager_thread
<1> HIDE DEF first
<1>8. \A d \in Client : \/ /\ replies'[d] = replies[d]
                           /\ \A p \in Granted : d # first(p)
                        \/ /\ d \in Silent /\ replies'[d] = 1
                           /\ \E p \in Granted : d = first(p)
    <2> SUFFICES ASSUME NEW d \in Client
                 PROVE  \/ /\ replies'[d] = replies[d]
                           /\ \A p \in Granted : d # first(p)
                        \/ /\ d \in Silent /\ replies'[d] = 1
                           /\ \E p \in Granted : d = first(p)
        OBVIOUS
    <2>1. CASE d \in Silent /\ Answers(d) = 1 /\ \E p \in Granted : d = first(p)
        BY <1>7, <2>1 DEF Silent
    <2>2. CASE Answers(d) = 0 /\ \A p \in Granted : d # first(p)
        BY <1>7, <2>2 DEF TypeOK
    <2> QED
        BY <1>6, <2>1, <2>2
<1>9. OneAnswer'
    BY <1>7, <1>8 DEF Waiters, OneAnswer, Silent
<1>10. \A d \in Silent : (\A p \in Granted : d # first(p)) => d \in Silent'
    BY <1>7, <1>8 DEF Silent
<1>11. \A p \in Granted : \A i \in DOMAIN WaitingList'[p] :
          /\ i + 1 \in DOMAIN WaitingList[p] /\ i + 1 # 1 /\ i \in Nat
          /\ WaitingList'[p][i] = WaitingList[p][i + 1]
    BY <1>2, <1>3, TailElements
<1>12. ASSUME NEW p \in Path, NEW i \in DOMAIN WaitingList'[p]
       PROVE  \E k \in DOMAIN WaitingList[p] :
                 /\ WaitingList'[p][i] = WaitingList[p][k]
                 /\ IF p \in Granted THEN k = i + 1 /\ i \in Nat /\ k # 1 ELSE k = i
    BY <1>4, <1>11
<1>13. ASSUME NEW p \in Path, NEW k \in DOMAIN WaitingList[p], p \in Granted => k # 1
       PROVE  \A q \in Granted : WaitingList[p][k] # first(q)
    BY <1>2, <1>3, <1>13 DEF Queues, first
<1>14. Queues(WaitingList', Owner', Silent')
    <2> SUFFICES ASSUME NEW p \in Path, NEW i \in DOMAIN WaitingList'[p]
                 PROVE  /\ WaitingList'[p][i] \in Silent' /\ Owner'[p] # WaitingList'[p][i]
                        /\ \A q \in Path : \A j \in DOMAIN WaitingList'[q] :
                              WaitingList'[q][j] = WaitingList'[p][i] => p = q /\ i = j
        BY DEF Queues
    <2>1. PICK k \in DOMAIN WaitingList[p] :
             /\ WaitingList'[p][i] = WaitingList[p][k]
             /\ IF p \in Granted THEN k = i + 1 /\ i \in Nat /\ k # 1 ELSE k = i
        BY <1>12
    <2>2. \A q \in Granted : WaitingList[p][k] # first(q)
        BY <1>13, <2>1
    <2>3. WaitingList'[p][i] \in Silent'
        BY <1>2, <1>10, <2>1, <2>2 DEF Queues
    <2>4. Owner'[p] # WaitingList'[p][i]
        BY <1>2, <1>3, <1>4, <2>1, <2>2 DEF Queues
    <2>5. ASSUME NEW q \in Path, NEW j \in DOMAIN WaitingList'[q],
                 WaitingList'[q][j] = WaitingList'[p][i]
          PROVE  p = q /\ i = j
        <3>1. PICK l \in DOMAIN WaitingList[q] :
                 /\ WaitingList'[q][j] = WaitingList[q][l]
                 /\ IF q \in Granted THEN l = j + 1 /\ j \in Nat /\ l # 1 ELSE l = j
            BY <1>12
        <3>2. WaitingList[q][l] = WaitingList[p][k]
            BY <2>1, <2>5, <3>1
        <3>3. p = q /\ k = l
            BY <1>2, <3>2 DEF Queues
        <3> QED
            BY <2>1, <3>1, <3>3
    <2> QED
        BY <2>3, <2>4, <2>5
<1> QED
    BY <1>9, <1>14 DEF Waiters

LEMMA WaitersNext ==
    ASSUME AnsweredOnce, TypeOK, LockFieldsAgree, WriterHolds, WriterHolds', Waiters,
           [Next]_vars
    PROVE  Waiters'
<1>1. CASE UNCHANGED vars
    <2>1. WaitingList' = WaitingList /\ Owner' = Owner
        BY <1>1 DEF vars, WaitingList, Owner, FileOf, Writing, Stored
    <2>2. Silent' = Silent /\ (OneAnswer => OneAnswer')
        BY <1>1 DEF vars, Silent, OneAnswer
    <2> QED
        BY <2>1, <2>2 DEF Waiters, Queues
<1>2. ASSUME NEW c \in Client, CloseConnection(c)
      PROVE  FALSE
    BY <1>2 DEF CloseConnection, Waiters, OneAnswer
<1> QED
    BY <1>1, <1>2, QueuesRequest, QueuesHandle, QueuesGrant DEF Next

LEMMA WaitersStart == Init => Waiters
<1> SUFFICES ASSUME Init
             PROVE  Waiters
    OBVIOUS
<1>1. WaitingList = [p \in Path |-> <<>>]
    BY ServiceStart DEF Locks!Init
<1>2. DOMAIN <<>> = {}
    OBVIOUS
<1>3. Queues(WaitingList, Owner, Silent)
    BY <1>1, <1>2 DEF Queues
<1> QED
    BY <1>3 DEF Init, Waiters, OneAnswer, Twice

\* As long as no request is answered twice, a client in the waiting list of a file
\* is blocked in its lockFile, does not own the file, and waits nowhere else: the
\* answer the lock manager sends is the one the client waits for.
THEOREM WaitersWait ==
    ASSUME AnsweredOnce
    PROVE  Spec => []WaitersBlocked
<1>1. Init => Waiters /\ WriterHolds
    BY WaitersStart DEF Init, WriterHolds
<1>2. TypeOK /\ WriterHolds /\ [Next]_vars => WriterHolds'
    BY WriterNext
<1>3. TypeOK /\ LockFieldsAgree /\ WriterHolds /\ WriterHolds' /\ Waiters /\ [Next]_vars
         => Waiters'
    BY WaitersNext
<1>4. TypeOK /\ WriterHolds /\ Waiters => WaitersBlocked
    <2> SUFFICES ASSUME TypeOK, WriterHolds, Waiters
                 PROVE  WaitersBlocked
        OBVIOUS
    <2>1. \A p \in Stored(storage) :
             /\ p \in Path
             /\ WaitingList[p] = storage.files[p].waiting_on_lock
             /\ Owner[p] = storage.files[p].locked_by
        BY StoredFile, FilesKnown DEF TypeOK, FilesOf, Stored, WaitingList, Owner
    <2> QED
        BY <2>1 DEF Waiters, Queues, Silent, WaitersBlocked
<1> QED
    BY <1>1, <1>2, <1>3, <1>4, TypeCorrect, LocksConsistent, PTL DEF Spec

-----------------------------------------------------------------------------
\* Who is remembered.  A client that a step leaves without an answer is in a list
\* after it, and an entry of a list stays until the lock manager answers it, or
\* until the file of the list leaves the table.

InList(q, c) == \E i \in DOMAIN q : q[i] = c

\* The one return that sends nothing is that of lock_file_handler, after c has
\* been put into the waiting list.
LEMMA SilentReturn ==
    ASSUME TypeOK, NEW c \in Client, Handle(c), pc'[c] = "idle", replies'[c] = 0
    PROVE  /\ Found(c)
           /\ storage' = storage_update_file(storage, req[c].path,
                            [File_(c) EXCEPT !.waiting_on_lock = Append(@, c)])
<1>1. ~Return(c, 1) /\ ~Return(c, 2)
    BY DEF Return, TypeOK
<1>2. \A flag : ~(pc[c] # "idle" /\ OpenNext(c, flag))
    BY <1>1 DEF OpenNext
<1>3. \A label : label # "idle" => ~Goto(c, label)
    BY DEF Goto, TypeOK
<1>4. ~(pc[c] # "idle" /\ UNCHANGED pc)
    OBVIOUS
<1>5. ~(OpenCreate(c) \/ OpenLock(c) \/ OpenNoFlag(c) \/ close_file_handler(c))
    BY <1>1, <1>2 DEF OpenCreate, OpenLock, OpenNoFlag, close_file_handler, At
<1>6. ~(WriteRefused(c) \/ WriteTooBig(c) \/ WriteAdmitted(c)
        \/ storage_FIFO_replace(c) \/ WriteCommit(c))
    BY <1>1, <1>3, <1>4 DEF WriteRefused, WriteTooBig, WriteAdmitted,
                            storage_FIFO_replace, WriteCommit, At
<1>7. ~TooBig(c)
    BY <1>1, <1>3, TooBigThread DEF Removing
<1>8. ~append_to_file_handler(c)
    BY DEF append_to_file_handler, TypeOK
<1>9. ~(\/ read_file_handler(c) \/ ReadNCollect(c) \/ ReadNFails(c)
        \/ ReadNFree(c) \/ ReadNFreed(c) \/ ReadNSend(c))
    BY <1>1, <1>3, <1>4 DEF read_file_handler, ReadNCollect, ReadNFails, ReadNFree,
                            ReadNFreed, ReadNSend, At
<1>10. ~remove_file_handler(c) /\ ~unlock_file_handler(c)
    BY <1>1 DEF remove_file_handler, unlock_file_handler
<1>11. lock_file_handler(c)
    BY <1>5, <1>6, <1>7, <1>8, <1>9, <1>10 DEF Handle
<1> QED
    BY <1>1, <1>11 DEF lock_file_handler

\* The other clients are answered by their own workers.
LEMMA OthersAnswers ==
    ASSUME TypeOK, NEW c \in Client, Handle(c), NEW d \in Client, d # c
    PROVE  pc'[d] = pc[d] /\ replies'[d] = replies[d]
<1>1. pc'[d] = pc[d]
    BY HandleStep DEF ThreadStep
<1>2. CASE (\E k : Return(c, k)) \/ UNCHANGED replies
    BY <1>1, <1>2 DEF Return, TypeOK
<1>3. CASE append_to_file_handler(c)
    BY <1>1, <1>3 DEF append_to_file_handler, TypeOK
<1>4. CASE (\E label : Goto(c, label)) \/ \E flag : OpenNext(c, flag)
    BY <1>2, <1>4 DEF Goto, OpenNext
<1> QED
    BY <1>1, <1>2, <1>3, <1>4, TooBigThread DEF Handle, OpenCreate, OpenLock, OpenNoFlag,
       close_file_handler, WriteRefused, WriteTooBig, WriteAdmitted,
       storage_FIFO_replace, WriteCommit, read_file_handler, ReadNCollect,
       ReadNFails, ReadNFree, ReadNFreed, ReadNSend,
       remove_file_handler, lock_file_handler, unlock_file_handler

\* A step of a handler keeps the lists of the files that stay, or puts c last.
LEMMA ListsHandle ==
    ASSUME TypeOK, WriterHolds, NEW c \in Client, Handle(c),
           NEW p \in DOMAIN storage.files, p \in DOMAIN storage'.files
    PROVE  storage'.files[p].waiting_on_lock \in
              {storage.files[p].waiting_on_lock,
               Append(storage.files[p].waiting_on_lock, c)}
<1>1. TableStep(c)
    BY HandleStep
<1>2. CASE Kept(storage.files, storage'.files)
    BY <1>2 DEF Kept
<1>3. CASE KeptBut(storage.files, storage'.files, req[c].path) /\ ~Found(c)
    BY <1>3 DEF KeptBut, Found, Stored
<1>4. CASE /\ Updated(storage.files, storage'.files, req[c].path)
           /\ LockedAs(c, File_(c), storage'.files[req[c].path])
    BY <1>4 DEF Updated, KeptBut, LockedAs, File_
<1>5. CASE /\ Updated(storage.files, storage'.files, req[c].path)
           /\ storage'.files[req[c].path].waiting_on_lock = File_(c).waiting_on_lock
    BY <1>5 DEF Updated, KeptBut, File_
<1>6. CASE /\ Updated(storage.files, storage'.files, req[c].path)
           /\ pc[c] = "replace"
           /\ storage'.files[req[c].path].waiting_on_lock
                 = local[c].file.waiting_on_lock
    BY <1>6 DEF Updated, KeptBut, WriterHolds, Found, File_, Stored
<1> QED
    BY <1>1, <1>2, <1>3, <1>4, <1>5, <1>6 DEF TableStep

LEMMA RememberedHandle ==
    ASSUME TypeOK, WriterHolds, NoWaiterForgotten, NEW c \in Client, Handle(c),
           Stored(storage) \subseteq Stored(storage')
    PROVE  NoWaiterForgotten'
<1> SUFFICES ASSUME NEW d \in Client, pc'[d] = "idle", replies'[d] = 0
             PROVE  \E p \in Stored(storage') :
                       InList(storage'.files[p].waiting_on_lock, d)
    BY DEF NoWaiterForgotten, Waiting, InList
<1>0. \A p \in DOMAIN storage.files :
         storage.files[p].waiting_on_lock \in Seq(Client) /\ p \in DOMAIN storage'.files
    BY StoredFile DEF TypeOK, File, Stored
<1>1. CASE d # c
    <2>1. pc[d] = "idle" /\ replies[d] = 0
        BY <1>1, OthersAnswers
    <2>2. PICK p \in DOMAIN storage.files : InList(storage.files[p].waiting_on_lock, d)
        BY <2>1 DEF NoWaiterForgotten, Waiting, Stored, InList
    <2>3. storage'.files[p].waiting_on_lock \in
             {storage.files[p].waiting_on_lock,
              Append(storage.files[p].waiting_on_lock, c)}
        BY <1>0, ListsHandle
    <2>4. InList(Append(storage.files[p].waiting_on_lock, c), d)
        BY <1>0, <2>2, AppendedElements DEF InList
    <2> QED
        BY <1>0, <2>2, <2>3, <2>4 DEF Stored
<1>2. CASE d = c
    <2> DEFINE p == req[c].path
               f == [File_(c) EXCEPT !.waiting_on_lock = Append(@, c)]
    <2>1. Found(c) /\ storage' = storage_update_file(storage, p, f)
        BY <1>2, SilentReturn
    <2>2. File_(c) \in File /\ p \in Path /\ IsStorage(storage)
        BY <2>1, StoredFile DEF TypeOK, Found, File_
    <2>3. f.waiting_on_lock = Append(File_(c).waiting_on_lock, c)
        BY <2>2 DEF File
    <2>4. f \in File
        BY <2>2, AppendProperties DEF File
    <2> HIDE DEF f
    <2>5. storage'.files = hash_map_insert(storage.files, p, f)
        BY <2>1, <2>2, <2>4, UpdateFile
    <2>6. storage'.files[p] = f /\ p \in DOMAIN storage'.files
        BY <2>5 DEF hash_map_insert
    <2>7. InList(f.waiting_on_lock, c)
        BY <2>2, <2>3, AppendedElements DEF InList, File
    <2> QED
        BY <1>2, <2>6, <2>7 DEF Stored
<1> QED
    BY <1>1, <1>2

\* The lock manager answers the heads it takes, and keeps the rest of the lists.
LEMMA GrantedFinite ==
    ASSUME TypeOK
    PROVE  IsFiniteSet(Granted)
<1> DEFINE q == storage.fifo_queue
           R == {q[i] : i \in 1 .. Len(q)}
<1>1. /\ DOMAIN q = 1 .. Len(q) /\ Len(q) \in Nat
    BY LenProperties DEF TypeOK, IsStorage
<1>2. IsFiniteSet(1 .. Len(q))
    BY <1>1, FS_Interval
<1>3. [i \in 1 .. Len(q) |-> q[i]] \in Surjection(1 .. Len(q), R)
    BY DEF Surjection
<1>4. IsFiniteSet(R)
    BY <1>2, <1>3, FS_Surjection
<1>5. Granted \subseteq R
    BY <1>1 DEF Granted, Scanned
<1> QED
    BY <1>4, <1>5, FS_Subset

LEMMA RememberedGrant ==
    ASSUME TypeOK, NoWaiterForgotten, lock_manager_thread
    PROVE  NoWaiterForgotten'
<1> SUFFICES ASSUME NEW d \in Client, pc'[d] = "idle", replies'[d] = 0
             PROVE  \E p \in Stored(storage') :
                       InList(storage'.files[p].waiting_on_lock, d)
    BY DEF NoWaiterForgotten, Waiting, InList
<1> DEFINE G == {p \in Granted : Head(storage.files[p].waiting_on_lock) = d}
<1>1. /\ pc[d] = "idle" /\ replies'[d] = replies[d] + Answers(d)
      /\ replies[d] \in Nat
    BY DEF lock_manager_thread, TypeOK
<1>2. IsFiniteSet(G) /\ Answers(d) = Cardinality(G) /\ Cardinality(G) \in Nat
    <2>1. IsFiniteSet(G)
        BY GrantedFinite, FS_Subset
    <2> QED
        BY <2>1, FS_CardinalityType DEF Answers
<1>3. replies[d] = 0 /\ G = {}
    BY <1>1, <1>2, FS_EmptySet
<1>4. PICK p \in DOMAIN storage.files : InList(storage.files[p].waiting_on_lock, d)
    BY <1>1, <1>3 DEF NoWaiterForgotten, Waiting, Stored, InList
<1>5. storage.files[p].waiting_on_lock \in Seq(Client) /\ storage.files[p] \in File
    BY StoredFile DEF TypeOK, File, Stored
<1>6. /\ p \in DOMAIN storage'.files
      /\ storage'.files[p] = IF p \in Granted THEN Grant(storage.files[p])
                              ELSE storage.files[p]
    <2> DEFINE t == [q \in DOMAIN storage.files |->
                       IF q \in Granted THEN Grant(storage.files[q]) ELSE storage.files[q]]
    <2>1. storage' = [storage EXCEPT !.files = t] /\ IsStorage(storage)
        BY DEF lock_manager_thread, TypeOK
    <2>2. p \in DOMAIN t /\ t[p] = IF p \in Granted THEN Grant(storage.files[p])
                                   ELSE storage.files[p]
        OBVIOUS
    <2> HIDE DEF t
    <2>3. storage'.files = t
        BY <2>1, ExceptOne
    <2> QED
        BY <2>2, <2>3
<1>7. CASE p \in Granted
    <2> DEFINE q == storage.files[p].waiting_on_lock
    <2>1. q # <<>> /\ storage'.files[p].waiting_on_lock = Tail(q)
        BY <1>5, <1>6, <1>7 DEF Grant, File, Granted
    <2>2. q[1] # d
        BY <1>3, <1>5, <1>7, <2>1, NonEmptyHead
    <2>3. InList(q, d) /\ q \in Seq(Client)
        BY <1>4, <1>5
    <2> HIDE DEF q
    <2>4. InList(Tail(q), d)
        BY <2>1, <2>2, <2>3, TailRest DEF InList
    <2> QED
        BY <1>6, <2>1, <2>4 DEF Stored
<1>8. CASE p \notin Granted
    BY <1>4, <1>6, <1>8 DEF Stored
<1> QED
    BY <1>7, <1>8

LEMMA RememberedNext ==
    ASSUME TypeOK, WriterHolds, NoWaiterForgotten, [Next]_vars,
           [Stored(storage) \subseteq Stored(storage')]_vars
    PROVE  NoWaiterForgotten'
<1>1. CASE UNCHANGED vars
    BY <1>1 DEF vars, NoWaiterForgotten, Waiting, Stored
<1>2. CASE Stored(storage) \subseteq Stored(storage')
    <2>1. ASSUME NEW c \in Client, NEW r \in Requests, worker_thread(c, r)
          PROVE  NoWaiterForgotten'
        <3>1. r.op # "idle"
            BY RequestsAssumption DEF Request, Op
        <3> QED
            BY <2>1, <3>1 DEF worker_thread, TypeOK, NoWaiterForgotten, Waiting, Stored
    <2>2. ASSUME NEW c \in Client, CloseConnection(c)
          PROVE  NoWaiterForgotten'
        BY <2>2 DEF CloseConnection, TypeOK, NoWaiterForgotten, Waiting, Stored
    <2> QED
        BY <1>1, <1>2, <2>1, <2>2, RememberedHandle, RememberedGrant DEF Next
<1> QED
    BY <1>1, <1>2

\* As long as no file leaves the table, no client that waits for a lock is forgotten:
\* from the moment lock_file_handler returns AWAITING, which is not sent, until the
\* lock manager answers, the client is in the waiting list of a stored file,
\* whoever takes the lock over, opens, appends to or writes the file meanwhile.
THEOREM WaitersRemembered == Spec /\ FilesKept => []NoWaiterForgotten
<1>1. Init => NoWaiterForgotten /\ WriterHolds
    BY DEF Init, NoWaiterForgotten, WriterHolds
<1>2. TypeOK /\ WriterHolds /\ [Next]_vars => WriterHolds'
    BY WriterNext
<1>3. TypeOK /\ WriterHolds /\ NoWaiterForgotten /\ [Next]_vars
         /\ [Stored(storage) \subseteq Stored(storage')]_vars => NoWaiterForgotten'
    BY RememberedNext
<1> QED
    BY <1>1, <1>2, <1>3, TypeCorrect, PTL DEF Spec, FilesKept
=============================================================================
