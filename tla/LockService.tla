----------------------------- MODULE LockService ----------------------------
(***************************************************************************)
(* What the server promises about the locks of its files, whatever the     *)
(* storage, the eviction queue and the threads do to bring it about: for   *)
(* each path an owner and the clients that wait for it, oldest first.      *)
(*                                                                         *)
(* It promises less than a mutual exclusion lock.  openFile with O_LOCK    *)
(* takes a lock over from its owner, a client that asks at the right       *)
(* moment is served before those that wait, and a file that leaves the     *)
(* storage takes its lock and its waiting list with it.                    *)
(***************************************************************************)
EXTENDS Sequences

CONSTANTS Client, NoClient, Path

VARIABLES
    owner,     \* the client that holds the lock of each path, or NoClient
    waiting,   \* the clients that wait for it
    busy       \* the clients that have a request in progress

vars == <<owner, waiting, busy>>

Init ==
    /\ owner = [p \in Path |-> NoClient]
    /\ waiting = [p \in Path |-> <<>>]
    /\ busy = {}

-----------------------------------------------------------------------------
Request(c) ==
    /\ c \notin busy
    /\ busy' = busy \cup {c}
    /\ UNCHANGED <<owner, waiting>>

\* A step made for the request of c, after which c may be done.
On(c) == c \in busy /\ busy' \in {busy, busy \ {c}}

\* Nothing happens to a lock, or the request ends.
Proceed(c) == On(c) /\ UNCHANGED <<owner, waiting>>

\* The lock was free (LOCK_FILE), or somebody else's (OPEN_FILE).
Take(c, p) ==
    /\ On(c)
    /\ owner[p] # c
    /\ owner' = [owner EXCEPT ![p] = c]
    /\ UNCHANGED waiting

\* Only the owner gives a lock up.
Release(c, p) ==
    /\ On(c)
    /\ owner[p] = c
    /\ owner' = [owner EXCEPT ![p] = NoClient]
    /\ UNCHANGED waiting

\* The request ends without an answer; the client is the last one to wait.
Wait(c, p) ==
    /\ On(c) /\ c \notin busy'
    /\ owner[p] \notin {c, NoClient}
    /\ waiting' = [waiting EXCEPT ![p] = Append(@, c)]
    /\ UNCHANGED owner

\* The files of P leave the storage: by a request, never by themselves.
Drop(c, P) ==
    /\ On(c)
    /\ owner' = [p \in Path |-> IF p \in P THEN NoClient ELSE owner[p]]
    /\ waiting' = [p \in Path |-> IF p \in P THEN <<>> ELSE waiting[p]]

\* Free locks pass to the clients that have waited longest, requests or not.
Grant(P) ==
    /\ \A p \in P : owner[p] = NoClient /\ waiting[p] # <<>>
    /\ owner' = [p \in Path |-> IF p \in P THEN Head(waiting[p]) ELSE owner[p]]
    /\ waiting' = [p \in Path |-> IF p \in P THEN Tail(waiting[p]) ELSE waiting[p]]
    /\ UNCHANGED busy

Next ==
    \/ \E c \in Client : Request(c) \/ Proceed(c)
    \/ \E c \in Client, p \in Path : Take(c, p) \/ Release(c, p) \/ Wait(c, p)
    \/ \E c \in Client, P \in SUBSET Path : Drop(c, P)
    \/ \E P \in SUBSET Path : Grant(P)

Spec == Init /\ [][Next]_vars
=============================================================================
