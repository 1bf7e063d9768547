------------------------------ MODULE Storage ------------------------------
(***************************************************************************)
(* The file store of server/storage.c, with what utils/hash_map.c and      *)
(* utils/linked_list.c do to it.  Operators only: the state is the record  *)
(* storage of module FileServer, the actions are the handlers of           *)
(* server/worker.c.                                                        *)
(*                                                                         *)
(* The hash map is a function whose domain is the set of paths that        *)
(* hash_map_get finds; the eviction queue is a sequence of paths, because  *)
(* a node of fifo_queue holds a pointer to the path inside a file_t and is *)
(* only ever resolved through the hash map.  Contents are abstracted to    *)
(* their size.                                                             *)
(***************************************************************************)
EXTENDS Integers, Sequences, FiniteSets, SequencesExt

CONSTANTS
    Client,     \* descriptors of the connected clients
    NoClient,   \* the descriptor -1
    Path,       \* file names
    Hash,       \* bucket of each path: string_hash(path) % n_buckets
    MaxFiles,   \* server_config.max_files
    MaxSize,    \* server_config.max_size, in bytes
    SizeMod     \* number of values of a size_t

ASSUME ClientAssumption == NoClient \notin Client
ASSUME PathAssumption == Path # {}
ASSUME SizeAssumption == /\ MaxFiles \in Nat
                         /\ MaxSize \in Nat
                         /\ SizeMod \in Nat \ {0}
                         /\ MaxSize < SizeMod

-----------------------------------------------------------------------------
\* file_t; O_CREATE marks a file that was created and never written.

File == [flags           : SUBSET {"O_CREATE", "O_LOCK"},
         size            : Nat,
         locked_by       : Client \cup {NoClient},
         waiting_on_lock : Seq(Client)]

\* Variant: locked_by is left as calloc returned it.
UnownedFile == [flags           |-> {"O_CREATE"},
                size            |-> 0,
                locked_by       |-> 0,
                waiting_on_lock |-> <<>>]

storage_create_file == [flags           |-> {"O_CREATE"},
                        size            |-> 0,
                        locked_by       |-> NoClient,
                        waiting_on_lock |-> <<>>]

\* storage_t

IsTable(files) == DOMAIN files \subseteq Path /\ files \in [DOMAIN files -> File]

IsStorage(st) ==
    /\ st = [files        |-> st.files,
             fifo_queue   |-> st.fifo_queue,
             no_of_files  |-> st.no_of_files,
             current_size |-> st.current_size]
    /\ IsTable(st.files)
    /\ st.fifo_queue \in Seq(Path)
    /\ st.no_of_files \in Int
    /\ st.current_size \in 0 .. (SizeMod - 1)

storage_create == [files        |-> [p \in {} |-> storage_create_file],
                   fifo_queue   |-> <<>>,
                   no_of_files  |-> 0,
                   current_size |-> 0]

Stored(st) == DOMAIN st.files              \* the paths hash_map_get finds
IsFresh(f) == "O_CREATE" \in f.flags
IsLocked(f) == "O_LOCK" \in f.flags
Queued(st, p) == \E i \in DOMAIN st.fifo_queue : st.fifo_queue[i] = p

-----------------------------------------------------------------------------
\* utils/hash_map.c and utils/linked_list.c

\* An entry with the key is overwritten, otherwise one is added.
hash_map_insert(files, p, f) ==
    [q \in DOMAIN files \cup {p} |-> IF q = p THEN f ELSE files[q]]

\* Once the entry is found, buckets[hashed_key] = NULL drops its whole chain.
hash_map_remove(files, p) ==
    [q \in {q \in DOMAIN files : p \in DOMAIN files => Hash[q] # Hash[p]}
        |-> files[q]]

\* The entry whose key was freed (and overwritten by the allocator) stays in
\* its chain but no lookup matches it any more; the other entries are intact.
KeyLost(files, p) == [q \in DOMAIN files \ {p} |-> files[q]]

\* The first node that holds the path, if there is one.
list_remove_element(queue, p) == RemoveFirst(queue, p)

-----------------------------------------------------------------------------
\* server/storage.c

\* Variant: the insertion in fifo_queue that is commented out in the source.
QueuedAtCreation(st, p, f) ==
    [st EXCEPT !.files = hash_map_insert(@, p, f), !.no_of_files = @ + 1,
               !.fifo_queue = Append(@, p)]

storage_add_file(st, p, f) ==
    [st EXCEPT !.files = hash_map_insert(@, p, f), !.no_of_files = @ + 1]

storage_update_file(st, p, f) == [st EXCEPT !.files = hash_map_insert(@, p, f)]

\* Variants: one of the two counters is forgotten.
UncountFileOnly(st, p) == [st EXCEPT !.no_of_files = @ - 1]
UncountBytesOnly(st, p) ==
    [st EXCEPT !.current_size = (@ - st.files[p].size) % SizeMod]

\* The counters are updated before anything that can fail.
Uncount(st, p) ==
    [st EXCEPT !.no_of_files  = @ - 1,
               !.current_size = (@ - st.files[p].size) % SizeMod]

\* list_remove_element frees the data of the node it unlinks.  The data of the
\* node that was queued by the stored file is that file_t itself.  An older
\* node with the same path belongs to a file the hash map has lost.
NodeIsOwn(st, p) ==
    /\ p \in Stored(st)
    /\ ~IsFresh(st.files[p])
    /\ Cardinality({i \in DOMAIN st.fifo_queue : st.fifo_queue[i] = p}) = 1

\* list_remove_element, when the path is queued.  If it frees the file_t, the
\* key of the file's entry in the hash map is freed memory: either the
\* allocator overwrites it and the entry is lost, or it can still be found.
UnlinkOutcomes(st, p) ==
    LET unlinked == [st EXCEPT !.fifo_queue = list_remove_element(@, p)]
        lost     == [unlinked EXCEPT !.files = KeyLost(@, p)]
    IN  IF NodeIsOwn(st, p)
        THEN {[st |-> lost, freed |-> FALSE], [st |-> unlinked, freed |-> TRUE]}
        ELSE {[st |-> unlinked, freed |-> FALSE]}

\* hash_map_remove; when the file_t was freed with its node, free_file frees it
\* again, which aborts the process or (under valgrind, as in test1) does not.
UnhashOutcomes(st, p, freed) ==
    [st : {[st EXCEPT !.files = hash_map_remove(@, p)]},
     up : IF freed THEN BOOLEAN ELSE {TRUE}]

\* storage_remove_file: the possible results.  When the path has no node in
\* fifo_queue it returns before hash_map_remove.
storage_remove_file(st, p) ==
    IF p \notin Stored(st) THEN [st : {st}, up : {TRUE}]
    ELSE IF ~Queued(st, p) THEN [st : {Uncount(st, p)}, up : {TRUE}]
    ELSE UNION {UnhashOutcomes(o.st, p, o.freed) :
                   o \in UnlinkOutcomes(Uncount(st, p), p)}

\* Variant: only full storage makes room.
NeedsSpaceWhenFull(st, n) == st.current_size >= MaxSize

\* Variant: the last free byte is not used.
NeedsSpaceAtLimit(st, n) == (st.current_size + n) % SizeMod >= MaxSize

\* The loop condition of storage_FIFO_replace, in size_t arithmetic.
NeedsSpace(st, n) == (st.current_size + n) % SizeMod > MaxSize

\* storage_FIFO_replace dereferences the file it looks up for the head of the
\* queue: with an empty queue, or a head the hash map has lost, it is NULL.
CanExpel(st) == st.fifo_queue # <<>> /\ Head(st.fifo_queue) \in Stored(st)

\* One iteration of the loop.
Expel(st) ==
    LET p == Head(st.fifo_queue) IN
    [Uncount(st, p) EXCEPT !.fifo_queue = Tail(@),
                           !.files      = hash_map_remove(@, p)]
=============================================================================
