---------------------------- MODULE MCFileServer ---------------------------
(***************************************************************************)
(* Instances of FileServer for TLC.  Each configuration lets the clients   *)
(* send the requests of one of the sets below.                             *)
(***************************************************************************)
EXTENDS FileServer, TLC

CONSTANTS c1, c2, c3, p1, p2, p3

ClientSymmetry == Permutations(Client)

\* Requests

Open(p, flags) == [op |-> "OPEN_FILE", path |-> p, flags |-> flags, n |-> 0]
Send(op, p, n) == [op |-> op, path |-> p, flags |-> {}, n |-> n]

CreateLock == {"O_CREATE", "O_LOCK"}

\* Every operation on locks, on one file.
LockRequests ==
    {Open(p1, CreateLock), Open(p1, {"O_LOCK"}), Open(p1, {"O_CREATE"}),
     Open(p1, {"O_NOFLAG"})}
    \cup {Send(op, p1, 0) : op \in {"LOCK_FILE", "UNLOCK_FILE", "CLOSE_FILE",
                                    "REMOVE_FILE"}}
    \cup {Send("WRITE_FILE", p1, n) : n \in {0, 1}}

\* As above without removals, on two files: clients only wait.
WaitRequests ==
    {Open(p, CreateLock) : p \in {p1, p2}}
    \cup {Send(op, p, 0) : op \in {"LOCK_FILE", "UNLOCK_FILE"}, p \in {p1, p2}}
    \cup {Send("WRITE_FILE", p1, 1)}

\* Files of several sizes come and go; nothing is appended, nothing oversize.
ReplaceRequests ==
    {Open(p, CreateLock) : p \in Path}
    \cup {Send("WRITE_FILE", p, n) : p \in Path, n \in 1 .. MaxSize}
    \cup {Send("REMOVE_FILE", p, 0) : p \in Path}
    \cup {Send("READ_N_FILES", p1, 0)}

\* Appends and reads, with their second response and the mutex they leave locked,
\* and writes larger than the storage, against other operations on the file.
ContentRequests ==
    {Open(p, CreateLock) : p \in Path}
    \cup {Send("WRITE_FILE", p, 1) : p \in Path}
    \cup {Open(p1, {"O_LOCK"}), Send("APPEND_TO_FILE", p1, MaxSize),
          Send("WRITE_FILE", p1, MaxSize + 1)}
    \cup {Send(op, p1, 0) : op \in {"READ_FILE", "READ_N_FILES", "REMOVE_FILE",
                                    "LOCK_FILE", "UNLOCK_FILE"}}

\* Buckets: every path in its own, or p1 and p2 together.
OwnBucket    == p1 :> 1 @@ p2 :> 2 @@ p3 :> 3
SharedBucket == p1 :> 1 @@ p2 :> 1 @@ p3 :> 3
=============================================================================
