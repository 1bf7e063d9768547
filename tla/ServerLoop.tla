----------------------------- MODULE ServerLoop -----------------------------
(***************************************************************************)
(* The threads of the server and what they exchange: the select loop of    *)
(* server/server.c, the thread pool of server/worker.c with its queue of   *)
(* descriptors and the pipe back to the main thread, the signal handler    *)
(* of server/signal_handler.c, and the shutdown.                           *)
(*                                                                         *)
(* What a request does to the storage is the subject of module FileServer; *)
(* here a worker that has received one answers it, or waits for ever once  *)
(* a handler has left storage->access locked.  Descriptors are numbers,    *)
(* because the loop visits them in order and keeps their maximum.          *)
(***************************************************************************)
EXTENDS Integers, Sequences, FiniteSets, FiniteSetsExt

CONSTANTS
    Worker,        \* the threads of the pool
    ClientFd,      \* descriptors accept may return
    Connected,     \* those whose connection is open at the start
    \* bounds of the model
    Connections,   \* connections that clients open later
    Mortal,        \* descriptors whose client may die
    ReadsMissing   \* TRUE: a client may read a file that does not exist

signal_pipe == 0
mw_pipe     == 1
socket_fd   == 2
Closed      == -1       \* "no descriptor" in the pipe, "terminate" in the queue

ASSUME WorkerAssumption == IsFiniteSet(Worker) /\ Worker # {}
ASSUME DescriptorAssumption ==
    /\ IsFiniteSet(ClientFd) /\ ClientFd \subseteq Nat
    /\ \A fd \in ClientFd : fd > socket_fd
    /\ Connected \subseteq ClientFd
ASSUME BoundsAssumption ==
    Connections \in Nat /\ Mortal \subseteq ClientFd /\ ReadsMissing \in BOOLEAN

Fd == {signal_pipe, mw_pipe, socket_fd} \cup ClientFd

VARIABLES
    main,                  \* where the main thread is
    set, rdset,            \* the fd_sets
    fd,                    \* the descriptor the pass over rdset has reached
    fd_max,
    terminators,           \* how many terminators have been enqueued
    request_queue,
    pipe,                  \* contents of mw_pipe
    worker, client_fd,     \* where each worker is, and its descriptor
    current_connections,
    accept_connection, shutdown_now,
    handler,               \* where the signal handler thread is
    lock_manager,          \* where the lock manager thread is
    leaked,                \* TRUE once a handler has left storage->access locked
    client,                \* what the process behind each descriptor is doing
    peer,                  \* and whether it still is there
    backlog, connections,  \* connections not accepted yet, and all opened later
    up                     \* FALSE once the process has died

mainVars   == <<main, set, rdset, fd, fd_max, terminators>>
threadVars == <<worker, client_fd, pipe, current_connections>>
flagVars   == <<accept_connection, shutdown_now, handler, lock_manager, leaked>>
clientVars == <<client, peer, backlog, connections>>
vars == <<mainVars, threadVars, flagVars, clientVars, request_queue, up>>

-----------------------------------------------------------------------------
\* The clients' side of a descriptor: no connection; connected; idle between
\* two requests; a request of some kind sent and not received yet; silent, because
\* it was refused or its request will never be answered.
Pending     == {"opening", "requesting", "closing"}
ClientState == {"none", "connected", "idle", "silent"} \cup Pending

\* A process that dies closes its end of the socket.  What it had sent can still
\* be read; then there is end of file, or ECONNRESET when it left a response
\* unread.
PeerState == {"alive", "closed", "reset"}

Open == {f \in ClientFd : client[f] # "none"}
Readable(f) == client[f] \in Pending \/ (f \in Open /\ peer[f] # "alive")

TypeOK ==
    /\ main \in {"loop", "select", "scan", "read", "join_signal", "join_lock",
                 "terminate", "join_workers", "exited"}
    /\ set \subseteq Fd /\ rdset \subseteq Fd
    /\ fd \in Fd \cup {Closed} /\ fd_max \in 0 .. Max(Fd)
    /\ terminators \in 0 .. Cardinality(Worker)
    /\ request_queue \in Seq(Fd \cup {Closed})
    /\ pipe \in Seq(Fd \cup {Closed})
    /\ worker \in [Worker -> {"top", "take", "receive", "status", "write", "blocked",
                              "finished"}]
    /\ client_fd \in [Worker -> Fd \cup {Closed}]
    /\ current_connections \in Nat
    /\ {accept_connection, shutdown_now, leaked, up} \subseteq BOOLEAN
    /\ handler \in {"sigwait", "close", "finished"}
    /\ lock_manager \in {"running", "blocked", "finished"}
    /\ client \in [ClientFd -> ClientState]
    /\ peer \in [ClientFd -> PeerState]
    /\ {backlog, connections} \subseteq 0 .. Connections

Init ==
    /\ main = "loop"
    /\ set = {signal_pipe, mw_pipe, socket_fd} \cup Connected
    /\ rdset = {} /\ fd = Closed /\ fd_max = Max({socket_fd} \cup Connected)
    /\ terminators = 0
    /\ request_queue = <<>> /\ pipe = <<>>
    /\ worker = [w \in Worker |-> "top"]
    /\ client_fd = [w \in Worker |-> Closed]
    /\ current_connections = Cardinality(Connected)
    /\ accept_connection = TRUE /\ shutdown_now = FALSE
    /\ handler = "sigwait" /\ lock_manager = "running" /\ leaked = FALSE
    /\ peer = [f \in ClientFd |-> "alive"]
    /\ client = [f \in ClientFd |-> IF f \in Connected THEN "idle" ELSE "none"]
    /\ backlog = 0 /\ connections = 0
    /\ up = TRUE

-----------------------------------------------------------------------------
\* The main thread

MainAt(label) == up /\ main = label

\* while (shutdown_now == 0)
Loop ==
    /\ MainAt("loop")
    /\ main' = IF shutdown_now THEN "join_signal" ELSE "select"
    /\ UNCHANGED <<set, rdset, fd, fd_max, terminators, request_queue, threadVars,
                   flagVars, clientVars, up>>

\* What select(fd_max + 1) reports.  The write end of signal_pipe is only ever
\* closed.
Ready == {f \in set : /\ f <= fd_max
                      /\ \/ f = signal_pipe /\ handler = "finished"
                         \/ f = mw_pipe /\ pipe # <<>>
                         \/ f = socket_fd /\ backlog > 0
                         \/ f \in ClientFd /\ Readable(f)}

\* FD_CLR, and fd_max-- when it was the largest.
Unlisten(f) ==
    /\ set' = set \ {f}
    /\ fd_max' = IF f = fd_max THEN fd_max - 1 ELSE fd_max

\* FD_SET.  Variant: fd_max is not raised.
ListenBelow(f) == set' = set \cup {f} /\ UNCHANGED fd_max
Listen(f) ==
    /\ set' = set \cup {f}
    /\ fd_max' = IF f > fd_max THEN f ELSE fd_max

\* select returns.  A closed signal pipe ends the pass: the pipe and the
\* listening socket leave the set.
Select ==
    /\ MainAt("select")
    /\ Ready # {}
    /\ IF signal_pipe \in Ready
       THEN /\ set' = set \ {signal_pipe, socket_fd}
            /\ fd_max' = IF socket_fd = fd_max THEN fd_max - 1 ELSE fd_max
            /\ main' = "loop"
            /\ UNCHANGED <<rdset, fd>>
       ELSE /\ rdset' = Ready /\ fd' = Closed
            /\ main' = "scan"
            /\ UNCHANGED <<set, fd_max>>
    /\ UNCHANGED <<terminators, request_queue, threadVars, flagVars, clientVars, up>>

Remaining == {f \in rdset : fd < f /\ f <= fd_max}

\* When mw_pipe is ready, one number is read from it for every descriptor that is.
AfterDescriptor == IF mw_pipe \in rdset THEN "read" ELSE "scan"

\* The next ready descriptor is the socket: accept returns the lowest free
\* descriptor.
Accept ==
    /\ MainAt("scan") /\ Remaining # {}
    /\ fd' = Min(Remaining)
    /\ fd' = socket_fd /\ socket_fd \in set /\ accept_connection
    /\ \E f \in ClientFd \ Open :
          /\ \A g \in ClientFd \ Open : f <= g
          /\ client' = [client EXCEPT ![f] = "connected"]
          /\ peer' = [peer EXCEPT ![f] = "alive"]
          /\ Listen(f)
    /\ backlog' = backlog - 1
    /\ current_connections' = current_connections + 1
    /\ main' = AfterDescriptor
    /\ UNCHANGED <<rdset, terminators, request_queue, worker, client_fd, pipe,
                   flagVars, connections, up>>

\* The next ready descriptor is anything but mw_pipe and a socket to accept on.
Enqueue ==
    /\ MainAt("scan") /\ Remaining # {}
    /\ fd' = Min(Remaining)
    /\ fd' # mw_pipe
    /\ ~(fd' = socket_fd /\ socket_fd \in set /\ accept_connection)
    /\ request_queue' = Append(request_queue, fd')
    /\ Unlisten(fd')
    /\ main' = AfterDescriptor
    /\ UNCHANGED <<rdset, terminators, threadVars, flagVars, clientVars, up>>

\* The next ready descriptor is mw_pipe.
Skip ==
    /\ MainAt("scan") /\ Remaining # {}
    /\ fd' = Min(Remaining)
    /\ fd' = mw_pipe
    /\ main' = AfterDescriptor
    /\ UNCHANGED <<set, rdset, fd_max, terminators, request_queue, threadVars,
                   flagVars, clientVars, up>>

\* A blocking read.
ReadPipe ==
    /\ MainAt("read")
    /\ pipe # <<>>
    /\ pipe' = Tail(pipe)
    /\ IF Head(pipe) # Closed THEN Listen(Head(pipe)) ELSE UNCHANGED <<set, fd_max>>
    /\ main' = "scan"
    /\ UNCHANGED <<rdset, fd, terminators, request_queue, worker, client_fd,
                   current_connections, flagVars, clientVars, up>>

\* The end of a pass.
\* Variant: the check does not look at the connections.
StopAtOnce == ~accept_connection
Drained == ~accept_connection /\ current_connections = 0

EndOfPass ==
    /\ MainAt("scan") /\ Remaining = {}
    /\ shutdown_now' = (shutdown_now \/ Drained)
    /\ main' = "loop"
    /\ UNCHANGED <<set, rdset, fd, fd_max, terminators, request_queue, threadVars,
                   accept_connection, handler, lock_manager, leaked, clientVars, up>>

\* shutdown_all_threads

\* Variants: one terminator for the whole pool; one too many.
OneTerminator == terminators = 1
ExtraTerminator == terminators > Cardinality(Worker)
AllTerminated == terminators = Cardinality(Worker)

Joined ==
    \/ main = "join_signal" /\ handler = "finished" /\ main' = "join_lock"
    \/ main = "join_lock" /\ lock_manager = "finished" /\ main' = "terminate"
    \/ main = "terminate" /\ AllTerminated /\ main' = "join_workers"
    \/ /\ main = "join_workers" /\ \A w \in Worker : worker[w] = "finished"
       /\ main' = "exited"

Join ==
    /\ up
    /\ Joined
    /\ UNCHANGED <<set, rdset, fd, fd_max, terminators, request_queue, threadVars,
                   flagVars, clientVars, up>>

Terminate ==
    /\ MainAt("terminate") /\ ~AllTerminated
    /\ terminators' = terminators + 1
    /\ request_queue' = Append(request_queue, Closed)
    /\ UNCHANGED <<main, set, rdset, fd, fd_max, threadVars, flagVars, clientVars, up>>

Main == \/ Loop \/ Select \/ Accept \/ Enqueue \/ Skip \/ ReadPipe \/ EndOfPass
        \/ Join \/ Terminate

-----------------------------------------------------------------------------
\* worker_thread

WorkerAt(w, label) == up /\ worker[w] = label
Step(w, label) == worker' = [worker EXCEPT ![w] = label]

\* The two tests of shutdown_now around the body of the loop.
Top(w) ==
    /\ WorkerAt(w, "top")
    /\ Step(w, IF shutdown_now THEN "finished" ELSE "take")
    /\ UNCHANGED <<mainVars, client_fd, pipe, current_connections, flagVars,
                   clientVars, request_queue, up>>

\* Waiting on request_queue_notempty ends when there is a descriptor to take:
\* it is signalled, under the mutex, at every insertion.
Take(w) ==
    /\ WorkerAt(w, "take")
    /\ request_queue # <<>>
    /\ request_queue' = Tail(request_queue)
    /\ client_fd' = [client_fd EXCEPT ![w] = Head(request_queue)]
    /\ Step(w, IF Head(request_queue) = Closed THEN "finished" ELSE "receive")
    /\ UNCHANGED <<mainVars, pipe, current_connections, flagVars, clientVars, up>>

\* The request cannot be received: on the listening socket, or from a client that
\* died with a response unread.  The descriptor is closed, and request->type
\* dereferences NULL.
ReceiveFails(w) ==
    LET f == client_fd[w] IN
    /\ WorkerAt(w, "receive")
    /\ \/ f = socket_fd
       \/ f \in ClientFd /\ client[f] \notin Pending /\ peer[f] = "reset"
    /\ up' = FALSE
    /\ UNCHANGED <<mainVars, threadVars, flagVars, clientVars, request_queue>>

\* OPEN_CONNECTION is refused once the server shuts down: the api does not close
\* the connection then.
Answered(f) ==
    CASE client[f] = "opening"    -> IF accept_connection THEN "idle" ELSE "silent"
      [] client[f] = "requesting" -> "idle"
      [] OTHER                    -> client[f]

\* The request is answered.  A file that is to be read and does not exist leaves
\* storage->access locked.  At the end of a stream there is a request of no type,
\* and no answer.
HandleRequest(w) ==
    LET f == client_fd[w] IN
    /\ WorkerAt(w, "receive") /\ f \in ClientFd
    /\ \/ client[f] = "opening" /\ UNCHANGED leaked
       \/ client[f] = "requesting" /\ ~leaked /\ leaked' \in {FALSE, ReadsMissing}
       \/ client[f] \notin Pending /\ peer[f] = "closed" /\ UNCHANGED leaked
    /\ client' = [client EXCEPT ![f] = Answered(f)]
    /\ Step(w, "write")
    /\ UNCHANGED <<mainVars, client_fd, pipe, current_connections, accept_connection,
                   shutdown_now, handler, lock_manager, peer, backlog, connections,
                   request_queue, up>>

\* lock_return waits for ever.  An append may have been answered once by then.
HandlerBlocks(w) ==
    LET f == client_fd[w] IN
    /\ WorkerAt(w, "receive") /\ f \in ClientFd
    /\ client[f] = "requesting" /\ leaked
    /\ \E s \in {"idle", "silent"} : client' = [client EXCEPT ![f] = s]
    /\ Step(w, "blocked")
    /\ UNCHANGED <<mainVars, client_fd, pipe, current_connections, flagVars, peer,
                   backlog, connections, request_queue, up>>

\* CLOSE_CONNECTION.  Variant: the descriptor is written back.
CloseAndReturn(w) == UNCHANGED client_fd
Dropped(w) == client_fd' = [client_fd EXCEPT ![w] = Closed]

CloseRequest(w) ==
    LET f == client_fd[w] IN
    /\ WorkerAt(w, "receive") /\ f \in ClientFd
    /\ client[f] = "closing"
    /\ client' = [client EXCEPT ![f] = "none"]
    /\ peer' = [peer EXCEPT ![f] = "alive"]
    /\ Dropped(w)
    /\ Step(w, "status")
    /\ UNCHANGED <<mainVars, pipe, current_connections, flagVars, backlog,
                   connections, request_queue, up>>

UpdateStatus(w) ==
    /\ WorkerAt(w, "status")
    /\ current_connections' = current_connections - 1
    /\ Step(w, "write")
    /\ UNCHANGED <<mainVars, client_fd, pipe, flagVars, clientVars, request_queue, up>>

WritePipe(w) ==
    /\ WorkerAt(w, "write")
    /\ pipe' = Append(pipe, client_fd[w])
    /\ client_fd' = [client_fd EXCEPT ![w] = Closed]
    /\ Step(w, "top")
    /\ UNCHANGED <<mainVars, current_connections, flagVars, clientVars,
                   request_queue, up>>

Work(w) == \/ Top(w) \/ Take(w) \/ ReceiveFails(w) \/ HandleRequest(w)
           \/ HandlerBlocks(w) \/ CloseRequest(w) \/ UpdateStatus(w) \/ WritePipe(w)

-----------------------------------------------------------------------------
\* The signal handler thread takes one signal, sets a flag, then closes its end
\* of the pipe.

Signal ==
    /\ up /\ handler = "sigwait"
    /\ handler' = "close"
    /\ \/ shutdown_now' = TRUE /\ UNCHANGED accept_connection     \* SIGINT, SIGQUIT
       \/ accept_connection' = FALSE /\ UNCHANGED shutdown_now    \* SIGHUP
    /\ UNCHANGED <<mainVars, threadVars, lock_manager, leaked, clientVars,
                   request_queue, up>>

ClosePipe ==
    /\ up /\ handler = "close"
    /\ handler' = "finished"
    /\ UNCHANGED <<mainVars, threadVars, accept_connection, shutdown_now, lock_manager,
                   leaked, clientVars, request_queue, up>>

\* The lock manager leaves its loop between two passes; the next pass begins with
\* lock_return.
LockManagerExits == shutdown_now /\ lock_manager' = "finished"
LockManagerBlocks == leaked /\ lock_manager' = "blocked"

LockManager ==
    /\ up /\ lock_manager = "running"
    /\ LockManagerExits \/ LockManagerBlocks
    /\ UNCHANGED <<mainVars, threadVars, accept_connection, shutdown_now, handler,
                   leaked, clientVars, request_queue, up>>

-----------------------------------------------------------------------------
\* The clients, while there is a server.

Running == up /\ main # "exited"

Connect ==
    /\ Running /\ connections < Connections
    /\ Cardinality(Open) + backlog < Cardinality(ClientFd)
    /\ connections' = connections + 1
    /\ backlog' = backlog + 1
    /\ UNCHANGED <<mainVars, threadVars, flagVars, client, peer, request_queue, up>>

\* The first request opens the connection, the last one closes it.
Sends(f, s) ==
    \/ client[f] = "connected" /\ s = "opening"
    \/ client[f] = "idle" /\ s \in {"requesting", "closing"}

Send(f, s) ==
    /\ Running /\ peer[f] = "alive" /\ Sends(f, s)
    /\ client' = [client EXCEPT ![f] = s]
    /\ UNCHANGED <<mainVars, threadVars, flagVars, peer, backlog, connections,
                   request_queue, up>>

\* A client dies, at any time.  No response has come before the first.
Die(f) ==
    /\ Running /\ f \in Open /\ peer[f] = "alive"
    /\ \E s \in PeerState \ {"alive"} :
          /\ s = "reset" => client[f] \notin {"connected", "opening"}
          /\ peer' = [peer EXCEPT ![f] = s]
    /\ UNCHANGED <<mainVars, threadVars, flagVars, client, backlog, connections,
                   request_queue, up>>

-----------------------------------------------------------------------------
Next ==
    \/ Main
    \/ \E w \in Worker : Work(w)
    \/ Signal \/ ClosePipe \/ LockManager
    \/ Connect
    \/ \E f \in ClientFd, s \in Pending : Send(f, s)
    \/ \E f \in Mortal : Die(f)

Spec == Init /\ [][Next]_vars

\* Every thread that can go on does, also one that waits for a mutex another
\* thread is going to unlock; no client has to, no signal has to come.
FairSpec ==
    /\ Spec
    /\ WF_vars(Main)
    /\ \A w \in Worker : WF_vars(Work(w))
    /\ WF_vars(ClosePipe) /\ WF_vars(LockManager)

-----------------------------------------------------------------------------
\* Properties.

\* Where a descriptor is: listened to, queued, with a worker, on its way back.
Places(f) ==
    {<<"set">> : x \in {f} \cap set}
    \cup {<<"queue", i>> : i \in {j \in DOMAIN request_queue : request_queue[j] = f}}
    \cup {<<"worker", w>> : w \in {v \in Worker : client_fd[v] = f}}
    \cup {<<"pipe", i>> : i \in {j \in DOMAIN pipe : pipe[j] = f}}

\* An open connection is in exactly one place, a closed one in none: two workers
\* never serve one client, no client is forgotten, and no closed descriptor is
\* selected on, whatever the accepts that reuse its number.
OnePlace ==
    up => \A f \in ClientFd : Cardinality(Places(f)) = IF f \in Open THEN 1 ELSE 0

\* select watches every descriptor of the set: fd_max, which is only adjusted by
\* one when the largest descriptor is cleared, never falls below one of them.
FdMaxCovers == \A f \in set : f <= fd_max

\* A graceful shutdown starts only when every connection that was accepted has
\* been closed by its client.
GracefulDrains ==
    [][main = "scan" /\ main' = "loop" /\ shutdown_now' => shutdown_now \/ Open = {}]_vars

\* A request is eventually received by a worker, unless the server is stopped or
\* dies, or a read of a missing file has left storage->access locked: from then on
\* every handler keeps its worker.
RequestsServed ==
    \A f \in ClientFd :
       client[f] \in Pending ~> \/ client[f] \notin Pending
                                \/ shutdown_now \/ ~up \/ leaked

\* Once the main thread has left its loop it ends: every thread can be joined,
\* unless storage->access was left locked, for which the lock manager and the
\* workers wait.
ShutdownCompletes ==
    main = "join_signal" ~> main = "exited" \/ ~up \/ leaked
=============================================================================
