-------------------------- MODULE ServerLoopProofs --------------------------
(***************************************************************************)
(* Theorems about ServerLoop, for every pool of workers and every set of   *)
(* descriptors: what the main loop listens to, where the descriptors are   *)
(* on their way through the set, the queue, the workers and the pipe, how  *)
(* many connections are counted, and the types.                            *)
(***************************************************************************)
EXTENDS ServerLoop, SequenceProofs

-----------------------------------------------------------------------------
\* The variables descriptors travel through hold nothing but descriptors and the
\* mark Closed.
DescriptorsTyped ==
    /\ set \subseteq Fd /\ rdset \subseteq Fd /\ fd_max \in Int
    /\ request_queue \in Seq(Fd \cup {Closed})
    /\ pipe \in Seq(Fd \cup {Closed})
    /\ client_fd \in [Worker -> Fd \cup {Closed}]

LEMMA DescriptorsAreNumbers ==
    /\ Fd \subseteq Nat /\ ClientFd \subseteq Fd /\ Closed \notin Fd
    /\ signal_pipe \in Fd /\ mw_pipe \in Fd /\ socket_fd \in Fd
BY DescriptorAssumption DEF Fd, signal_pipe, mw_pipe, socket_fd, Closed

\* The descriptor the scan continues with is one of those that remain.
LEMMA NextDescriptor ==
    ASSUME DescriptorsTyped, Remaining # {}
    PROVE  Min(Remaining) \in Remaining /\ Min(Remaining) \in Fd
<1>1. Remaining \subseteq Fd /\ Fd \subseteq Nat
    BY DescriptorsAreNumbers DEF DescriptorsTyped, Remaining
<1> QED
    BY <1>1, MinProperties

LEMMA ListenTyped ==
    ASSUME DescriptorsTyped, FdMaxCovers, NEW f \in Fd, Listen(f)
    PROVE  set' \subseteq Fd /\ fd_max' \in Int /\ FdMaxCovers'
<1>1. /\ set' = set \cup {f} /\ fd_max' = IF f > fd_max THEN f ELSE fd_max
      /\ fd_max \in Int /\ set \subseteq Int /\ f \in Int
    BY DescriptorsAreNumbers DEF DescriptorsTyped, Listen
<1>2. set' \subseteq Fd /\ fd_max' \in Int
    BY <1>1 DEF DescriptorsTyped
<1>3. \A g \in set' : g <= fd_max'
    BY <1>1 DEF FdMaxCovers
<1> QED
    BY <1>2, <1>3 DEF FdMaxCovers

LEMMA UnlistenTyped ==
    ASSUME DescriptorsTyped, FdMaxCovers, NEW f, Unlisten(f)
    PROVE  set' \subseteq Fd /\ fd_max' \in Int /\ FdMaxCovers'
<1>1. /\ set' = set \ {f} /\ fd_max' = IF f = fd_max THEN fd_max - 1 ELSE fd_max
      /\ fd_max \in Int /\ set \subseteq Int
    BY DescriptorsAreNumbers DEF DescriptorsTyped, Unlisten
<1>2. set' \subseteq Fd /\ fd_max' \in Int
    <2>1. set' \subseteq Fd
        BY <1>1 DEF DescriptorsTyped
    <2>2. fd_max' = fd_max - 1 \/ fd_max' = fd_max
        BY <1>1
    <2> QED
        BY <1>1, <2>1, <2>2
<1>3. \A g \in set' : g <= fd_max'
    BY <1>1 DEF FdMaxCovers
<1> QED
    BY <1>2, <1>3 DEF FdMaxCovers

LEMMA MainTyped ==
    ASSUME DescriptorsTyped, FdMaxCovers, Main
    PROVE  DescriptorsTyped' /\ FdMaxCovers'
<1>1. CASE Loop \/ Skip \/ EndOfPass \/ Join
    BY <1>1 DEF Loop, Skip, EndOfPass, Join, DescriptorsTyped, FdMaxCovers, threadVars
<1>2. CASE Select
    <2>1. CASE signal_pipe \in Ready
        <3>1. /\ set' = set \ {signal_pipe, socket_fd}
              /\ fd_max' = IF socket_fd = fd_max THEN fd_max - 1 ELSE fd_max
              /\ UNCHANGED <<rdset, request_queue, pipe, client_fd>>
            BY <1>2, <2>1 DEF Select, threadVars
        <3> QED
            BY <3>1, DescriptorsAreNumbers DEF DescriptorsTyped, FdMaxCovers
    <2>2. CASE signal_pipe \notin Ready
        <3>1. rdset' = Ready /\ UNCHANGED <<set, fd_max, request_queue, pipe, client_fd>>
            BY <1>2, <2>2 DEF Select, threadVars
        <3> QED
            BY <3>1 DEF DescriptorsTyped, FdMaxCovers, Ready
    <2> QED
        BY <2>1, <2>2
<1>3. CASE Accept
    <2>1. PICK f \in ClientFd : Listen(f)
        BY <1>3 DEF Accept
    <2>2. UNCHANGED <<rdset, request_queue, pipe, client_fd>>
        BY <1>3 DEF Accept
    <2> QED
        BY <2>1, <2>2, ListenTyped, DescriptorsAreNumbers DEF DescriptorsTyped
<1>4. CASE Enqueue
    <2>1. /\ Unlisten(fd') /\ request_queue' = Append(request_queue, fd')
          /\ fd' = Min(Remaining) /\ Remaining # {}
          /\ UNCHANGED <<rdset, pipe, client_fd>>
        BY <1>4 DEF Enqueue, threadVars
    <2>2. fd' \in Fd
        BY <2>1, NextDescriptor
    <2> QED
        BY <2>1, <2>2, UnlistenTyped, AppendProperties DEF DescriptorsTyped
<1>5. CASE ReadPipe
    <2>1. Head(pipe) \in Fd \cup {Closed} /\ Tail(pipe) \in Seq(Fd \cup {Closed})
        BY <1>5, HeadTailProperties DEF ReadPipe, DescriptorsTyped
    <2>2. pipe' = Tail(pipe) /\ UNCHANGED <<rdset, request_queue, client_fd>>
        BY <1>5 DEF ReadPipe
    <2>3. set' \subseteq Fd /\ fd_max' \in Int /\ FdMaxCovers'
        <3>1. CASE Head(pipe) = Closed
            BY <1>5, <3>1 DEF ReadPipe, DescriptorsTyped, FdMaxCovers
        <3>2. CASE Head(pipe) # Closed
            BY <1>5, <2>1, <3>2, ListenTyped DEF ReadPipe
        <3> QED
            BY <3>1, <3>2
    <2> QED
        BY <2>1, <2>2, <2>3 DEF DescriptorsTyped
<1>6. CASE Terminate
    <2>1. /\ request_queue' = Append(request_queue, Closed)
          /\ UNCHANGED <<set, rdset, fd_max, pipe, client_fd>>
        BY <1>6 DEF Terminate, threadVars
    <2> QED
        BY <2>1, AppendProperties DEF DescriptorsTyped, FdMaxCovers
<1> QED
    BY <1>1, <1>2, <1>3, <1>4, <1>5, <1>6 DEF Main

LEMMA WorkTyped ==
    ASSUME DescriptorsTyped, FdMaxCovers, NEW w \in Worker, Work(w)
    PROVE  DescriptorsTyped' /\ FdMaxCovers'
<1>1. UNCHANGED <<set, rdset, fd_max>>
    BY DEF Work, Top, Take, ReceiveFails, HandleRequest, HandlerBlocks, CloseRequest, UpdateStatus,
           WritePipe, mainVars
<1>2. request_queue' \in Seq(Fd \cup {Closed})
    <2>1. CASE Take(w)
        BY <2>1, HeadTailProperties DEF Take, DescriptorsTyped
    <2>2. CASE ~Take(w)
        BY <2>2 DEF Work, Top, ReceiveFails, HandleRequest, HandlerBlocks, CloseRequest, UpdateStatus,
                    WritePipe, DescriptorsTyped
    <2> QED
        BY <2>1, <2>2
<1>3. pipe' \in Seq(Fd \cup {Closed})
    <2>1. CASE WritePipe(w)
        <3>1. client_fd[w] \in Fd \cup {Closed}
            BY DEF DescriptorsTyped
        <3> QED
            BY <2>1, <3>1, AppendProperties DEF WritePipe, DescriptorsTyped
    <2>2. CASE ~WritePipe(w)
        BY <2>2 DEF Work, Top, Take, ReceiveFails, HandleRequest, HandlerBlocks, CloseRequest,
                    UpdateStatus, DescriptorsTyped, threadVars
    <2> QED
        BY <2>1, <2>2
<1>4. client_fd' \in [Worker -> Fd \cup {Closed}]
    <2>1. CASE Take(w)
        BY <2>1, HeadTailProperties DEF Take, DescriptorsTyped
    <2>2. CASE ~Take(w)
        BY <2>2 DEF Work, Top, ReceiveFails, HandleRequest, HandlerBlocks, CloseRequest, Dropped,
                    UpdateStatus, WritePipe, DescriptorsTyped, threadVars
    <2> QED
        BY <2>1, <2>2
<1> QED
    BY <1>1, <1>2, <1>3, <1>4 DEF DescriptorsTyped, FdMaxCovers

\* The other threads and the clients touch none of these variables.
LEMMA OthersTyped ==
    ASSUME DescriptorsTyped, FdMaxCovers,
           \/ Signal \/ ClosePipe \/ LockManager \/ Connect
           \/ \E f \in ClientFd, s \in Pending : Send(f, s)
           \/ \E f \in Mortal : Die(f)
    PROVE  DescriptorsTyped' /\ FdMaxCovers'
<1>1. UNCHANGED <<set, rdset, fd_max, request_queue, pipe, client_fd>>
    BY DEF Signal, ClosePipe, LockManager, Connect, Send, Die, mainVars, threadVars
<1> QED
    BY <1>1 DEF DescriptorsTyped, FdMaxCovers

-----------------------------------------------------------------------------
LEMMA WatchedStart == Init => DescriptorsTyped /\ FdMaxCovers
<1> SUFFICES ASSUME Init
             PROVE  DescriptorsTyped /\ FdMaxCovers
    OBVIOUS
<1> DEFINE S == {socket_fd} \cup Connected
<1>1. /\ set = {signal_pipe, mw_pipe} \cup S /\ fd_max = Max(S)
      /\ rdset = {} /\ request_queue = <<>> /\ pipe = <<>>
      /\ client_fd = [w \in Worker |-> Closed]
    BY DEF Init
<1>2. S \subseteq Fd /\ S \subseteq Nat /\ IsFiniteSet(S) /\ socket_fd \in S
    <2>1. IsFiniteSet(Connected)
        BY DescriptorAssumption, FS_Subset
    <2>2. IsFiniteSet(S)
        BY <2>1, FS_Union, FS_Singleton
    <2> QED
        BY <2>2, DescriptorAssumption, DescriptorsAreNumbers
<1> HIDE DEF S
<1>3. fd_max \in S /\ \A f \in S : f <= fd_max
    BY <1>1, <1>2, MaxProperties
<1>4. \A f \in set : f <= fd_max
    <2>1. signal_pipe = 0 /\ mw_pipe = 1 /\ socket_fd = 2 /\ 2 <= fd_max
        BY <1>2, <1>3 DEF signal_pipe, mw_pipe, socket_fd
    <2>2. fd_max \in Int
        BY <1>2, <1>3
    <2> QED
        BY <1>1, <1>3, <2>1, <2>2
<1> QED
    BY <1>1, <1>2, <1>3, <1>4, DescriptorsAreNumbers, EmptySeq
       DEF DescriptorsTyped, FdMaxCovers

LEMMA WatchedNext ==
    DescriptorsTyped /\ FdMaxCovers /\ [Next]_vars => (DescriptorsTyped /\ FdMaxCovers)'
<1> SUFFICES ASSUME DescriptorsTyped, FdMaxCovers, [Next]_vars
             PROVE  (DescriptorsTyped /\ FdMaxCovers)'
    OBVIOUS
<1>1. CASE UNCHANGED vars
    BY <1>1 DEF vars, mainVars, threadVars, DescriptorsTyped, FdMaxCovers
<1>2. CASE Main
    BY <1>2, MainTyped
<1>3. ASSUME NEW w \in Worker, Work(w)
      PROVE  (DescriptorsTyped /\ FdMaxCovers)'
    BY <1>3, WorkTyped
<1> QED
    BY <1>1, <1>2, <1>3, OthersTyped DEF Next

\* select watches every descriptor of its set, whatever the order in which
\* connections are accepted, handed to workers and returned: taking one off the
\* maximum when the largest descriptor is cleared is enough.
THEOREM SetWatched == Spec => []FdMaxCovers
BY WatchedStart, WatchedNext, PTL DEF Spec

-----------------------------------------------------------------------------
-----------------------------------------------------------------------------
\* How often a descriptor is among those the workers hold.
HeldOnce(h, e) == \E w \in Worker : h[w] = e /\ \A v \in Worker : h[v] = e => v = w
HeldNever(h, e) == \A w \in Worker : h[w] # e

LEMMA HeldTake ==
    ASSUME NEW S, NEW h \in [Worker -> S], NEW w \in Worker, h[w] = Closed, NEW e,
           NEW f, f # Closed
    PROVE  LET g == [h EXCEPT ![w] = e] IN
           /\ e # f => /\ HeldOnce(h, f) => HeldOnce(g, f)
                       /\ HeldNever(h, f) => HeldNever(g, f)
           /\ e = f /\ HeldNever(h, f) => HeldOnce(g, f)
<1> DEFINE g == [h EXCEPT ![w] = e]
<1>1. g[w] = e /\ \A v \in Worker : v # w => g[v] = h[v]
    OBVIOUS
<1> HIDE DEF g
<1>2. e # f /\ HeldOnce(h, f) => HeldOnce(g, f)
    BY <1>1 DEF HeldOnce
<1>3. e # f /\ HeldNever(h, f) => HeldNever(g, f)
    BY <1>1 DEF HeldNever
<1>4. e = f /\ HeldNever(h, f) => HeldOnce(g, f)
    BY <1>1 DEF HeldOnce, HeldNever
<1> QED
    BY <1>2, <1>3, <1>4 DEF g

LEMMA HeldDrop ==
    ASSUME NEW S, NEW h \in [Worker -> S], NEW w \in Worker, NEW f, f # Closed
    PROVE  LET g == [h EXCEPT ![w] = Closed] IN
           /\ h[w] # f => /\ HeldOnce(h, f) => HeldOnce(g, f)
                          /\ HeldNever(h, f) => HeldNever(g, f)
           /\ h[w] = f => ~HeldNever(h, f) /\ (HeldOnce(h, f) => HeldNever(g, f))
<1> DEFINE g == [h EXCEPT ![w] = Closed]
<1>1. g[w] = Closed /\ \A v \in Worker : v # w => g[v] = h[v]
    OBVIOUS
<1> HIDE DEF g
<1>2. h[w] # f /\ HeldOnce(h, f) => HeldOnce(g, f)
    BY <1>1 DEF HeldOnce
<1>3. h[w] # f /\ HeldNever(h, f) => HeldNever(g, f)
    BY <1>1 DEF HeldNever
<1>4. h[w] = f => ~HeldNever(h, f) /\ (HeldOnce(h, f) => HeldNever(g, f))
    BY <1>1 DEF HeldOnce, HeldNever
<1> QED
    BY <1>2, <1>3, <1>4 DEF g

-----------------------------------------------------------------------------
\* The inductive invariant.  In a set S, a queue q, held by one of the workers or
\* in a pipe p: in exactly one of them, once, or in none.
Somewhere(S, q, h, p, f) ==
    \/ f \in S /\ Never(q, f) /\ HeldNever(h, f) /\ Never(p, f)
    \/ f \notin S /\ Once(q, f) /\ HeldNever(h, f) /\ Never(p, f)
    \/ f \notin S /\ Never(q, f) /\ HeldOnce(h, f) /\ Never(p, f)
    \/ f \notin S /\ Never(q, f) /\ HeldNever(h, f) /\ Once(p, f)

Nowhere(S, q, h, p, f) ==
    f \notin S /\ Never(q, f) /\ HeldNever(h, f) /\ Never(p, f)

Located(open, S, q, h, p, f) ==
    /\ open => Somewhere(S, q, h, p, f)
    /\ ~open => Nowhere(S, q, h, p, f)

AllLocated ==
    \A f \in ClientFd :
       Located(client[f] # "none", set, request_queue, client_fd, pipe, f)

WorkerLabels == {"top", "take", "receive", "status", "write", "blocked", "finished"}

\* The scan has not passed over a descriptor without taking it out of the set; a
\* worker about to take a descriptor has none.
InHand ==
    /\ main \in {"scan", "read"} => \A f \in rdset : fd < f => f \in set
    /\ fd \in Int
    /\ \A w \in Worker : worker[w] \in {"top", "take", "finished"} => client_fd[w] = Closed
    /\ worker \in [Worker -> WorkerLabels]
    /\ client \in [ClientFd -> ClientState]

Inv == DescriptorsTyped /\ AllLocated /\ InHand

LEMMA ClientDescriptor ==
    ASSUME NEW f \in ClientFd
    PROVE  /\ f \in Nat /\ f \in Fd /\ f # Closed
           /\ f # signal_pipe /\ f # mw_pipe /\ f # socket_fd
BY DescriptorAssumption DEF Fd, Closed, signal_pipe, mw_pipe, socket_fd

\* Nothing moves.
LEMMA LocatedStill ==
    ASSUME Inv, UNCHANGED <<set, request_queue, client_fd, pipe>>,
           \A f \in ClientFd : client'[f] = "none" <=> client[f] = "none"
    PROVE  AllLocated'
BY DEF Inv, AllLocated, Located

-----------------------------------------------------------------------------
\* The steps of the main thread.

LEMMA AcceptLocated ==
    ASSUME Inv, Accept
    PROVE  AllLocated'
<1>1. PICK e \in ClientFd \ Open :
         /\ client' = [client EXCEPT ![e] = "connected"]
         /\ Listen(e)
    BY DEF Accept
<1>2. set' = set \cup {e} /\ UNCHANGED <<request_queue, client_fd, pipe>>
    BY <1>1 DEF Accept, Listen
<1>3. ASSUME NEW f \in ClientFd
      PROVE  Located(client'[f] # "none", set', request_queue', client_fd', pipe', f)
    <2>1. CASE f = e
        <3>1. client[f] = "none" /\ client'[f] = "connected"
            BY <1>1, <2>1 DEF Inv, InHand, Open
        <3>2. Nowhere(set, request_queue, client_fd, pipe, f)
            BY <3>1 DEF Inv, AllLocated, Located
        <3> QED
            BY <1>2, <2>1, <3>1, <3>2 DEF Located, Nowhere, Somewhere
    <2>2. CASE f # e
        <3>1. client'[f] = client[f] /\ (f \in set' <=> f \in set)
            BY <1>1, <1>2, <2>2 DEF Inv, InHand
        <3> QED
            BY <1>2, <3>1 DEF Inv, AllLocated, Located, Nowhere, Somewhere
    <2> QED
        BY <2>1, <2>2
<1> QED
    BY <1>3 DEF AllLocated

LEMMA EnqueueLocated ==
    ASSUME Inv, Enqueue
    PROVE  AllLocated'
<1> DEFINE e == Min(Remaining)
<1>1. /\ fd' = e /\ set' = set \ {e} /\ request_queue' = Append(request_queue, e)
      /\ UNCHANGED <<client_fd, pipe, client>>
      /\ Remaining # {} /\ main = "scan"
    BY DEF Enqueue, Unlisten, threadVars, clientVars, MainAt
<1>2. e \in Remaining /\ e \in Fd
    BY <1>1, NextDescriptor DEF Inv
<1> HIDE DEF e
<1>3. e \in set
    BY <1>1, <1>2 DEF Inv, InHand, Remaining
<1>4. request_queue \in Seq(Fd \cup {Closed})
    BY DEF Inv, DescriptorsTyped
<1>5. ASSUME NEW f \in ClientFd
      PROVE  Located(client'[f] # "none", set', request_queue', client_fd', pipe', f)
    <2>0. Located(client[f] # "none", set, request_queue, client_fd, pipe, f)
        BY DEF Inv, AllLocated
    <2>1. CASE f = e
        <3>1. client[f] # "none" /\ Never(request_queue, f) /\ HeldNever(client_fd, f)
              /\ Never(pipe, f)
            BY <1>3, <2>0, <2>1 DEF Located, Nowhere, Somewhere
        <3>2. Once(request_queue', f)
            BY <1>1, <1>2, <1>4, <2>1, <3>1, OccursAppend
        <3>3. f \notin set'
            BY <1>1, <2>1
        <3> QED
            BY <1>1, <3>1, <3>2, <3>3 DEF Located, Somewhere
    <2>2. CASE f # e
        <3>1. /\ Once(request_queue, f) => Once(request_queue', f)
              /\ Never(request_queue, f) => Never(request_queue', f)
            BY <1>1, <1>2, <1>4, <2>2, OccursAppend
        <3>2. f \in set' <=> f \in set
            BY <1>1, <2>2
        <3> QED
            BY <1>1, <2>0, <3>1, <3>2 DEF Located, Nowhere, Somewhere
    <2> QED
        BY <2>1, <2>2
<1> QED
    BY <1>5 DEF AllLocated

LEMMA ReadPipeLocated ==
    ASSUME Inv, ReadPipe
    PROVE  AllLocated'
<1> DEFINE e == Head(pipe)
<1>1. /\ pipe # <<>> /\ pipe' = Tail(pipe)
      /\ UNCHANGED <<request_queue, client_fd, client>>
      /\ set' = IF e # Closed THEN set \cup {e} ELSE set
    BY DEF ReadPipe, Listen, clientVars
<1>2. pipe \in Seq(Fd \cup {Closed})
    BY DEF Inv, DescriptorsTyped
<1>3. ASSUME NEW f \in ClientFd
      PROVE  Located(client'[f] # "none", set', request_queue', client_fd', pipe', f)
    <2>0. Located(client[f] # "none", set, request_queue, client_fd, pipe, f)
        BY DEF Inv, AllLocated
    <2>1. CASE f = e
        <3>1. /\ ~Never(pipe, f)
              /\ Once(pipe, f) => Never(Tail(pipe), f)
            BY <1>1, <1>2, <2>1, OccursTail
        <3>2. client[f] # "none" /\ Never(request_queue, f) /\ HeldNever(client_fd, f)
              /\ Once(pipe, f)
            BY <2>0, <3>1 DEF Located, Nowhere, Somewhere
        <3>3. f \in set' /\ Never(pipe', f)
            BY <1>1, <2>1, <3>1, <3>2, ClientDescriptor
        <3> QED
            BY <1>1, <3>2, <3>3 DEF Located, Somewhere
    <2>2. CASE f # e
        <3>1. /\ Once(pipe, f) => Once(pipe', f)
              /\ Never(pipe, f) => Never(pipe', f)
            BY <1>1, <1>2, <2>2, OccursTail
        <3>2. f \in set' <=> f \in set
            BY <1>1, <2>2
        <3> QED
            BY <1>1, <2>0, <3>1, <3>2 DEF Located, Nowhere, Somewhere
    <2> QED
        BY <2>1, <2>2
<1> QED
    BY <1>3 DEF AllLocated

LEMMA MainLocated ==
    ASSUME Inv, Main
    PROVE  AllLocated'
<1>1. CASE Loop \/ Skip \/ EndOfPass \/ Join
    BY <1>1, LocatedStill DEF Loop, Skip, EndOfPass, Join, threadVars, clientVars
<1>2. CASE Select
    <2>1. /\ UNCHANGED <<request_queue, client_fd, pipe, client>>
          /\ set' \in {set, set \ {signal_pipe, socket_fd}}
        BY <1>2 DEF Select, threadVars, clientVars
    <2>2. \A f \in ClientFd : f \in set' <=> f \in set
        BY <2>1, ClientDescriptor
    <2> QED
        BY <2>1, <2>2 DEF Inv, AllLocated, Located, Nowhere, Somewhere
<1>3. CASE Terminate
    <2>1. /\ request_queue' = Append(request_queue, Closed)
          /\ UNCHANGED <<set, client_fd, pipe, client>>
        BY <1>3 DEF Terminate, threadVars, clientVars
    <2>2. request_queue \in Seq(Fd \cup {Closed}) /\ Closed \in Fd \cup {Closed}
        BY DEF Inv, DescriptorsTyped
    <2>3. \A f \in ClientFd : /\ Once(request_queue, f) => Once(request_queue', f)
                              /\ Never(request_queue, f) => Never(request_queue', f)
        BY <2>1, <2>2, OccursAppend, ClientDescriptor
    <2> QED
        BY <2>1, <2>3 DEF Inv, AllLocated, Located, Nowhere, Somewhere
<1> QED
    BY <1>1, <1>2, <1>3, AcceptLocated, EnqueueLocated, ReadPipeLocated DEF Main

-----------------------------------------------------------------------------
\* The steps of a worker.

LEMMA TakeLocated ==
    ASSUME Inv, NEW w \in Worker, Take(w)
    PROVE  AllLocated'
<1> DEFINE e == Head(request_queue)
<1>1. /\ request_queue # <<>> /\ request_queue' = Tail(request_queue)
      /\ client_fd' = [client_fd EXCEPT ![w] = e]
      /\ UNCHANGED <<set, pipe, client>>
      /\ worker[w] = "take"
    BY DEF Take, WorkerAt, mainVars, clientVars
<1>2. /\ request_queue \in Seq(Fd \cup {Closed})
      /\ client_fd \in [Worker -> Fd \cup {Closed}]
      /\ client_fd[w] = Closed
    BY <1>1 DEF Inv, InHand, DescriptorsTyped
<1>3. ASSUME NEW f \in ClientFd
      PROVE  Located(client'[f] # "none", set', request_queue', client_fd', pipe', f)
    <2>0. /\ Located(client[f] # "none", set, request_queue, client_fd, pipe, f)
          /\ f # Closed
        BY ClientDescriptor DEF Inv, AllLocated
    <2>1. CASE f = e
        <3>1. /\ ~Never(request_queue, f)
              /\ Once(request_queue, f) => Never(request_queue', f)
            BY <1>1, <1>2, <2>1, OccursTail
        <3>2. /\ client[f] # "none" /\ f \notin set /\ HeldNever(client_fd, f)
              /\ Never(pipe, f) /\ Never(request_queue', f)
            BY <2>0, <3>1 DEF Located, Nowhere, Somewhere
        <3>3. HeldOnce(client_fd', f)
            BY <1>1, <1>2, <2>0, <2>1, <3>2, HeldTake
        <3> QED
            BY <1>1, <3>2, <3>3 DEF Located, Somewhere
    <2>2. CASE f # e
        <3>1. /\ Once(request_queue, f) => Once(request_queue', f)
              /\ Never(request_queue, f) => Never(request_queue', f)
            BY <1>1, <1>2, <2>2, OccursTail
        <3>2. /\ HeldOnce(client_fd, f) => HeldOnce(client_fd', f)
              /\ HeldNever(client_fd, f) => HeldNever(client_fd', f)
            BY <1>1, <1>2, <2>0, <2>2, HeldTake
        <3> QED
            BY <1>1, <2>0, <3>1, <3>2 DEF Located, Nowhere, Somewhere
    <2> QED
        BY <2>1, <2>2
<1> QED
    BY <1>3 DEF AllLocated

LEMMA CloseLocated ==
    ASSUME Inv, NEW w \in Worker, CloseRequest(w)
    PROVE  AllLocated'
<1> DEFINE e == client_fd[w]
<1>1. /\ e \in ClientFd /\ client' = [client EXCEPT ![e] = "none"]
      /\ client_fd' = [client_fd EXCEPT ![w] = Closed]
      /\ UNCHANGED <<set, pipe, request_queue>>
    BY DEF CloseRequest, Dropped, mainVars
<1>2. client_fd \in [Worker -> Fd \cup {Closed}] /\ client \in [ClientFd -> ClientState]
    BY <1>1 DEF Inv, InHand, DescriptorsTyped
<1>3. ASSUME NEW f \in ClientFd
      PROVE  Located(client'[f] # "none", set', request_queue', client_fd', pipe', f)
    <2>0. /\ Located(client[f] # "none", set, request_queue, client_fd, pipe, f)
          /\ f # Closed
        BY ClientDescriptor DEF Inv, AllLocated
    <2>1. CASE f = e
        <3>1. /\ ~HeldNever(client_fd, f)
              /\ HeldOnce(client_fd, f) => HeldNever(client_fd', f)
            BY <1>1, <1>2, <2>0, <2>1, HeldDrop
        <3>2. client'[f] = "none"
            BY <1>1, <1>2, <2>1
        <3> QED
            BY <1>1, <2>0, <3>1, <3>2 DEF Located, Nowhere, Somewhere
    <2>2. CASE f # e
        <3>1. /\ HeldOnce(client_fd, f) => HeldOnce(client_fd', f)
              /\ HeldNever(client_fd, f) => HeldNever(client_fd', f)
            BY <1>1, <1>2, <2>0, <2>2, HeldDrop
        <3>2. client'[f] = client[f]
            BY <1>1, <1>2, <2>2
        <3> QED
            BY <1>1, <2>0, <3>1, <3>2 DEF Located, Nowhere, Somewhere
    <2> QED
        BY <2>1, <2>2
<1> QED
    BY <1>3 DEF AllLocated

LEMMA WritePipeLocated ==
    ASSUME Inv, NEW w \in Worker, WritePipe(w)
    PROVE  AllLocated'
<1> DEFINE e == client_fd[w]
<1>1. /\ pipe' = Append(pipe, e)
      /\ client_fd' = [client_fd EXCEPT ![w] = Closed]
      /\ UNCHANGED <<set, request_queue, client>>
    BY DEF WritePipe, mainVars, clientVars
<1>2. /\ client_fd \in [Worker -> Fd \cup {Closed}] /\ pipe \in Seq(Fd \cup {Closed})
      /\ e \in Fd \cup {Closed}
    BY DEF Inv, DescriptorsTyped
<1>3. ASSUME NEW f \in ClientFd
      PROVE  Located(client'[f] # "none", set', request_queue', client_fd', pipe', f)
    <2>0. /\ Located(client[f] # "none", set, request_queue, client_fd, pipe, f)
          /\ f # Closed
        BY ClientDescriptor DEF Inv, AllLocated
    <2>1. CASE f = e
        <3>1. /\ ~HeldNever(client_fd, f)
              /\ HeldOnce(client_fd, f) => HeldNever(client_fd', f)
            BY <1>1, <1>2, <2>0, <2>1, HeldDrop
        <3>2. /\ client[f] # "none" /\ f \notin set /\ Never(request_queue, f)
              /\ HeldNever(client_fd', f) /\ Never(pipe, f)
            BY <2>0, <3>1 DEF Located, Nowhere, Somewhere
        <3>3. Once(pipe', f)
            BY <1>1, <1>2, <2>1, <3>2, OccursAppend
        <3> QED
            BY <1>1, <3>2, <3>3 DEF Located, Somewhere
    <2>2. CASE f # e
        <3>1. /\ HeldOnce(client_fd, f) => HeldOnce(client_fd', f)
              /\ HeldNever(client_fd, f) => HeldNever(client_fd', f)
            BY <1>1, <1>2, <2>0, <2>2, HeldDrop
        <3>2. /\ Once(pipe, f) => Once(pipe', f)
              /\ Never(pipe, f) => Never(pipe', f)
            BY <1>1, <1>2, <2>2, OccursAppend
        <3> QED
            BY <1>1, <2>0, <3>1, <3>2 DEF Located, Nowhere, Somewhere
    <2> QED
        BY <2>1, <2>2
<1> QED
    BY <1>3 DEF AllLocated

\* A request that is handled, or blocks its handler, opens and closes nothing.
LEMMA HandledOpen ==
    ASSUME InHand, NEW w \in Worker, HandleRequest(w) \/ HandlerBlocks(w)
    PROVE  /\ client' \in [ClientFd -> ClientState]
           /\ \A f \in ClientFd : client'[f] = "none" <=> client[f] = "none"
<1> DEFINE e == client_fd[w]
<1>1. e \in ClientFd /\ client \in [ClientFd -> ClientState]
    BY DEF HandleRequest, HandlerBlocks, InHand
<1>2. CASE HandleRequest(w)
    <2>1. client' = [client EXCEPT ![e] = Answered(e)]
        BY <1>2 DEF HandleRequest
    <2>2. Answered(e) \in ClientState /\ (Answered(e) = "none" <=> client[e] = "none")
        BY <1>1 DEF Answered, ClientState, Pending
    <2> QED
        BY <1>1, <2>1, <2>2
<1>3. CASE HandlerBlocks(w)
    <2>1. PICK s \in {"idle", "silent"} : client' = [client EXCEPT ![e] = s]
        BY <1>3 DEF HandlerBlocks
    <2>2. client[e] = "requesting" /\ s \in ClientState /\ s # "none"
        BY <1>3 DEF HandlerBlocks, ClientState
    <2> QED
        BY <1>1, <2>1, <2>2
<1> QED
    BY <1>2, <1>3

LEMMA WorkLocated ==
    ASSUME Inv, NEW w \in Worker, Work(w)
    PROVE  AllLocated'
<1>1. CASE Top(w) \/ ReceiveFails(w) \/ UpdateStatus(w)
    BY <1>1, LocatedStill DEF Top, ReceiveFails, UpdateStatus, mainVars, threadVars,
                              clientVars
<1>2. CASE HandleRequest(w) \/ HandlerBlocks(w)
    <2>1. UNCHANGED <<set, request_queue, client_fd, pipe>>
        BY <1>2 DEF HandleRequest, HandlerBlocks, mainVars
    <2> QED
        BY <1>2, <2>1, LocatedStill, HandledOpen DEF Inv
<1> QED
    BY <1>1, <1>2, TakeLocated, CloseLocated, WritePipeLocated DEF Work

\* The other threads and the clients move no descriptor.
LEMMA OthersLocated ==
    ASSUME Inv, \/ Signal \/ ClosePipe \/ LockManager \/ Connect
                \/ \E f \in ClientFd, s \in Pending : Send(f, s)
                \/ \E f \in Mortal : Die(f)
    PROVE  AllLocated'
<1>1. UNCHANGED <<set, request_queue, client_fd, pipe>>
    BY DEF Signal, ClosePipe, LockManager, Connect, Send, Die, mainVars, threadVars
<1>2. CASE Signal \/ ClosePipe \/ LockManager \/ Connect
    BY <1>1, <1>2, LocatedStill DEF Signal, ClosePipe, LockManager, Connect, clientVars
<1>3. CASE \E f \in ClientFd, s \in Pending : Send(f, s)
    <2>1. PICK e \in ClientFd, s \in Pending : Send(e, s)
        BY <1>3
    <2>2. client' = [client EXCEPT ![e] = s] /\ client[e] # "none" /\ s # "none"
        BY <2>1 DEF Send, Sends, Pending
    <2>3. \A f \in ClientFd : client'[f] = "none" <=> client[f] = "none"
        BY <2>2 DEF Inv, InHand
    <2> QED
        BY <1>1, <2>3, LocatedStill
<1>4. CASE \E f \in Mortal : Die(f)
    BY <1>1, <1>4, LocatedStill DEF Die
<1> QED
    BY <1>2, <1>3, <1>4

-----------------------------------------------------------------------------
\* What the scan has before it, and what the workers hold.

LEMMA MainInHand ==
    ASSUME Inv, Main
    PROVE  InHand'
<1>0. UNCHANGED <<worker, client_fd>>
    BY DEF Main, Loop, Select, Accept, Enqueue, Skip, ReadPipe, EndOfPass, Join,
           Terminate, threadVars
<1>1. client' \in [ClientFd -> ClientState]
    <2>1. CASE Accept
        <3>1. "connected" \in ClientState
            BY DEF ClientState
        <3> QED
            BY <2>1, <3>1 DEF Accept, Inv, InHand
    <2>2. CASE ~Accept
        BY <2>2 DEF Main, Loop, Select, Enqueue, Skip, ReadPipe, EndOfPass, Join,
                    Terminate, clientVars, Inv, InHand
    <2> QED
        BY <2>1, <2>2
<1>2. \A f \in rdset : f \in Int
    BY DescriptorsAreNumbers DEF Inv, DescriptorsTyped
<1>3. /\ fd' \in Int
      /\ main' \in {"scan", "read"} => \A f \in rdset' : fd' < f => f \in set'
    <2>1. CASE Loop \/ EndOfPass \/ Join \/ Terminate
        BY <2>1 DEF Loop, EndOfPass, Join, Joined, Terminate, MainAt, Inv, InHand
    <2>2. CASE Select
        BY <2>2 DEF Select, Ready, Inv, InHand, Closed
    <2>3. CASE Accept \/ Enqueue \/ Skip
        <3>1. /\ fd' = Min(Remaining) /\ Remaining # {} /\ main = "scan"
              /\ rdset' = rdset
            BY <2>3 DEF Accept, Enqueue, Skip, MainAt
        <3>2. fd' \in Remaining
            BY <3>1, NextDescriptor DEF Inv
        <3>3. fd' \in Int /\ fd < fd' /\ fd \in Int
            BY <1>2, <3>2 DEF Remaining, Inv, InHand
        <3>4. \A f \in rdset : f # fd' /\ f \in set => f \in set'
            BY <2>3 DEF Accept, Enqueue, Skip, Listen, Unlisten
        <3>5. \A f \in rdset : fd' < f => fd < f /\ f # fd'
            BY <1>2, <3>3
        <3> QED
            BY <3>1, <3>3, <3>4, <3>5 DEF Inv, InHand
    <2>4. CASE ReadPipe
        BY <2>4 DEF ReadPipe, Listen, MainAt, Inv, InHand
    <2> QED
        BY <2>1, <2>2, <2>3, <2>4 DEF Main
<1> QED
    BY <1>0, <1>1, <1>3 DEF Inv, InHand

LEMMA WorkInHand ==
    ASSUME Inv, NEW w \in Worker, Work(w)
    PROVE  InHand'
<1>1. UNCHANGED <<main, rdset, fd, set>>
    BY DEF Work, Top, Take, ReceiveFails, HandleRequest, HandlerBlocks, CloseRequest, UpdateStatus,
           WritePipe, mainVars
<1>2. client' \in [ClientFd -> ClientState]
    <2>1. CASE HandleRequest(w) \/ HandlerBlocks(w)
        BY <2>1, HandledOpen DEF Inv
    <2>2. CASE CloseRequest(w)
        <3>1. "none" \in ClientState
            BY DEF ClientState
        <3> QED
            BY <2>2, <3>1 DEF CloseRequest, Inv, InHand
    <2>3. CASE ~HandleRequest(w) /\ ~HandlerBlocks(w) /\ ~CloseRequest(w)
        BY <2>3 DEF Work, Top, Take, ReceiveFails, UpdateStatus, WritePipe, clientVars,
                    Inv, InHand
    <2> QED
        BY <2>1, <2>2, <2>3
<1>3. /\ worker' \in [Worker -> WorkerLabels]
      /\ \A v \in Worker : worker'[v] \in {"top", "take", "finished"} => client_fd'[v] = Closed
    <2>0. /\ worker \in [Worker -> WorkerLabels]
          /\ client_fd \in [Worker -> Fd \cup {Closed}]
          /\ \A v \in Worker : worker[v] \in {"top", "take", "finished"} => client_fd[v] = Closed
        BY DEF Inv, InHand, DescriptorsTyped
    <2>1. CASE Top(w)
        BY <2>0, <2>1 DEF Top, Step, WorkerAt, WorkerLabels
    <2>2. CASE Take(w)
        BY <2>0, <2>2 DEF Take, Step, WorkerAt, WorkerLabels
    <2>3. CASE ReceiveFails(w)
        BY <2>0, <2>3 DEF ReceiveFails, threadVars
    <2>4. CASE HandleRequest(w) \/ HandlerBlocks(w) \/ UpdateStatus(w)
        BY <2>0, <2>4 DEF HandleRequest, HandlerBlocks, UpdateStatus, Step, WorkerLabels
    <2>5. CASE CloseRequest(w)
        BY <2>0, <2>5 DEF CloseRequest, Dropped, Step, WorkerLabels
    <2>6. CASE WritePipe(w)
        BY <2>0, <2>6 DEF WritePipe, Step, WorkerLabels
    <2> QED
        BY <2>1, <2>2, <2>3, <2>4, <2>5, <2>6 DEF Work
<1> QED
    BY <1>1, <1>2, <1>3 DEF Inv, InHand

LEMMA OthersInHand ==
    ASSUME Inv, \/ Signal \/ ClosePipe \/ LockManager \/ Connect
                \/ \E f \in ClientFd, s \in Pending : Send(f, s)
                \/ \E f \in Mortal : Die(f)
    PROVE  InHand'
<1>1. UNCHANGED <<main, rdset, fd, set, worker, client_fd>>
    BY DEF Signal, ClosePipe, LockManager, Connect, Send, Die, mainVars, threadVars
<1>2. client' \in [ClientFd -> ClientState]
    BY DEF Signal, ClosePipe, LockManager, Connect, Send, Die, Pending, ClientState, clientVars, Inv, InHand
<1> QED
    BY <1>1, <1>2 DEF Inv, InHand

-----------------------------------------------------------------------------
LEMMA PlacesStart == Init => AllLocated /\ InHand
<1> SUFFICES ASSUME Init
             PROVE  AllLocated /\ InHand
    OBVIOUS
<1>1. request_queue = <<>> /\ pipe = <<>> /\ DOMAIN <<>> = {}
    BY EmptySeq, LenProperties DEF Init
<1>2. \A f : Never(request_queue, f) /\ Never(pipe, f)
    BY <1>1 DEF Never
<1>3. \A f \in ClientFd : HeldNever(client_fd, f)
    BY ClientDescriptor DEF Init, HeldNever
<1>4. \A f \in ClientFd : client[f] # "none" <=> f \in set
    BY ClientDescriptor DEF Init
<1>5. AllLocated
    BY <1>2, <1>3, <1>4 DEF AllLocated, Located, Somewhere, Nowhere
<1>6. InHand
    BY DEF InHand, Init, Closed, ClientState, Pending, WorkerLabels
<1> QED
    BY <1>5, <1>6

LEMMA PlacesNext ==
    ASSUME Inv, [Next]_vars
    PROVE  AllLocated' /\ InHand'
<1>1. CASE UNCHANGED vars
    BY <1>1 DEF vars, mainVars, threadVars, clientVars, Inv, AllLocated, InHand, Located,
                Somewhere, Nowhere
<1>2. CASE Main
    BY <1>2, MainLocated, MainInHand
<1>3. ASSUME NEW w \in Worker, Work(w)
      PROVE  AllLocated' /\ InHand'
    BY <1>3, WorkLocated, WorkInHand
<1> QED
    BY <1>1, <1>2, <1>3, OthersLocated, OthersInHand DEF Next

\* A descriptor located once has one place.
LEMMA LocatedOnce ==
    ASSUME Inv, NEW f \in ClientFd
    PROVE  Cardinality(Places(f)) = IF f \in Open THEN 1 ELSE 0
<1> DEFINE A == {<<"set">> : x \in {f} \cap set}
           B == {<<"queue", i>> : i \in {j \in DOMAIN request_queue : request_queue[j] = f}}
           C == {<<"worker", w>> : w \in {v \in Worker : client_fd[v] = f}}
           D == {<<"pipe", i>> : i \in {j \in DOMAIN pipe : pipe[j] = f}}
<1>1. Places(f) = A \cup B \cup C \cup D
    BY DEF Places
<1>2. /\ f \in set => A = {<<"set">>}
      /\ f \notin set => A = {}
    OBVIOUS
<1>3. /\ Never(request_queue, f) => B = {}
      /\ Once(request_queue, f) => \E x : B = {x}
    <2>1. Never(request_queue, f) => B = {}
        BY DEF Never
    <2>2. ASSUME NEW i \in DOMAIN request_queue, request_queue[i] = f,
                 \A j \in DOMAIN request_queue : request_queue[j] = f => j = i
          PROVE  B = {<<"queue", i>>}
        <3>1. {j \in DOMAIN request_queue : request_queue[j] = f} = {i}
            BY <2>2
        <3> QED
            BY <3>1
    <2> QED
        BY <2>1, <2>2 DEF Once
<1>4. /\ HeldNever(client_fd, f) => C = {}
      /\ HeldOnce(client_fd, f) => \E x : C = {x}
    <2>1. HeldNever(client_fd, f) => C = {}
        BY DEF HeldNever
    <2>2. ASSUME NEW w \in Worker, client_fd[w] = f,
                 \A v \in Worker : client_fd[v] = f => v = w
          PROVE  C = {<<"worker", w>>}
        <3>1. {v \in Worker : client_fd[v] = f} = {w}
            BY <2>2
        <3> QED
            BY <3>1
    <2> QED
        BY <2>1, <2>2 DEF HeldOnce
<1>5. /\ Never(pipe, f) => D = {}
      /\ Once(pipe, f) => \E x : D = {x}
    <2>1. Never(pipe, f) => D = {}
        BY DEF Never
    <2>2. ASSUME NEW i \in DOMAIN pipe, pipe[i] = f,
                 \A j \in DOMAIN pipe : pipe[j] = f => j = i
          PROVE  D = {<<"pipe", i>>}
        <3>1. {j \in DOMAIN pipe : pipe[j] = f} = {i}
            BY <2>2
        <3> QED
            BY <3>1
    <2> QED
        BY <2>1, <2>2 DEF Once
<1>6. Located(client[f] # "none", set, request_queue, client_fd, pipe, f)
    BY DEF Inv, AllLocated
<1> HIDE DEF A, B, C, D
<1>7. CASE f \in Open
    <2>1. Somewhere(set, request_queue, client_fd, pipe, f)
        BY <1>6, <1>7 DEF Located, Open
    <2>2. \E x : Places(f) = {x}
        BY <1>1, <1>2, <1>3, <1>4, <1>5, <2>1 DEF Somewhere
    <2> QED
        BY <1>7, <2>2, FS_Singleton
<1>8. CASE f \notin Open
    <2>1. Nowhere(set, request_queue, client_fd, pipe, f)
        BY <1>6, <1>8 DEF Located, Open
    <2>2. Places(f) = {}
        BY <1>1, <1>2, <1>3, <1>4, <1>5, <2>1 DEF Nowhere
    <2> QED
        BY <1>8, <2>2, FS_EmptySet
<1> QED
    BY <1>7, <1>8

\* An open connection is in the set, in the queue, with a worker or in the pipe,
\* and in one of them only: no two workers read from one client, and the main
\* thread does not listen to a descriptor that a worker still uses or has closed.
THEOREM DescriptorInOnePlace == Spec => []OnePlace
<1>1. Init => DescriptorsTyped /\ FdMaxCovers /\ AllLocated /\ InHand
    BY WatchedStart, PlacesStart
<1>2. DescriptorsTyped /\ FdMaxCovers /\ AllLocated /\ InHand /\ [Next]_vars
         => (DescriptorsTyped /\ FdMaxCovers /\ AllLocated /\ InHand)'
    BY WatchedNext, PlacesNext DEF Inv
<1>3. DescriptorsTyped /\ AllLocated /\ InHand => OnePlace
    BY LocatedOnce DEF Inv, OnePlace
<1> QED
    BY <1>1, <1>2, <1>3, PTL DEF Spec

-----------------------------------------------------------------------------
\* The connections.  One that was closed is still counted until its worker has
\* updated the status.
Ending == {w \in Worker : worker[w] = "status"}

Counted == current_connections = Cardinality(Open) + Cardinality(Ending)

LEMMA FiniteCounts ==
    /\ IsFiniteSet(Open) /\ Cardinality(Open) \in Nat
    /\ IsFiniteSet(Ending) /\ Cardinality(Ending) \in Nat
BY FS_Subset, FS_CardinalityType, DescriptorAssumption, WorkerAssumption DEF Open, Ending

LEMMA CountedStill ==
    ASSUME Counted, Open' = Open, Ending' = Ending, UNCHANGED current_connections
    PROVE  Counted'
BY DEF Counted

LEMMA AcceptCounted ==
    ASSUME Inv, Counted, Accept
    PROVE  Counted'
<1>1. PICK e \in ClientFd \ Open : client' = [client EXCEPT ![e] = "connected"]
    BY DEF Accept
<1>2. Open' = Open \cup {e}
    BY <1>1 DEF Open, Inv, InHand
<1>3. Ending' = Ending /\ current_connections' = current_connections + 1
    BY DEF Accept, Ending
<1>4. Cardinality(Open') = Cardinality(Open) + 1
    BY <1>1, <1>2, FiniteCounts, FS_AddElement
<1> QED
    BY <1>3, <1>4, FiniteCounts DEF Counted

LEMMA CloseCounted ==
    ASSUME Inv, Counted, NEW w \in Worker, CloseRequest(w)
    PROVE  Counted'
<1> DEFINE e == client_fd[w]
<1>1. /\ e \in ClientFd /\ client[e] = "closing" /\ client' = [client EXCEPT ![e] = "none"]
      /\ worker[w] = "receive" /\ worker' = [worker EXCEPT ![w] = "status"]
      /\ UNCHANGED current_connections
    BY DEF CloseRequest, WorkerAt, Step
<1> HIDE DEF e
<1>2. Open' = Open \ {e} /\ e \in Open
    BY <1>1 DEF Open, Inv, InHand
<1>3. Ending' = Ending \cup {w} /\ w \notin Ending
    BY <1>1 DEF Ending, Inv, InHand
<1>4. /\ Cardinality(Open') = Cardinality(Open) - 1
      /\ Cardinality(Ending') = Cardinality(Ending) + 1
    BY <1>2, <1>3, FiniteCounts, FS_AddElement, FS_RemoveElement
<1> QED
    BY <1>1, <1>4, FiniteCounts DEF Counted

LEMMA StatusCounted ==
    ASSUME Inv, Counted, NEW w \in Worker, UpdateStatus(w)
    PROVE  Counted'
<1>1. /\ worker[w] = "status" /\ worker' = [worker EXCEPT ![w] = "write"]
      /\ UNCHANGED client /\ current_connections' = current_connections - 1
    BY DEF UpdateStatus, WorkerAt, Step, clientVars
<1>2. Ending' = Ending \ {w} /\ w \in Ending
    BY <1>1 DEF Ending, Inv, InHand
<1>3. Open' = Open
    BY <1>1 DEF Open
<1>4. Cardinality(Ending') = Cardinality(Ending) - 1
    BY <1>2, FiniteCounts, FS_RemoveElement
<1> QED
    BY <1>1, <1>3, <1>4, FiniteCounts DEF Counted

LEMMA WorkCounted ==
    ASSUME Inv, Counted, NEW w \in Worker, Work(w)
    PROVE  Counted'
<1>0. /\ worker \in [Worker -> WorkerLabels]
      /\ client \in [ClientFd -> ClientState]
    BY DEF Inv, InHand
<1>1. CASE Top(w)
    <2>1. Ending' = Ending /\ Open' = Open
        BY <1>0, <1>1 DEF Top, Step, WorkerAt, Ending, Open, clientVars
    <2> QED
        BY <1>1, <2>1, CountedStill DEF Top
<1>2. CASE Take(w)
    <2>1. Ending' = Ending /\ Open' = Open
        BY <1>0, <1>2 DEF Take, Step, WorkerAt, Ending, Open, clientVars
    <2> QED
        BY <1>2, <2>1, CountedStill DEF Take
<1>3. CASE ReceiveFails(w)
    BY <1>3, CountedStill DEF ReceiveFails, threadVars, clientVars, Ending, Open
<1>4. CASE HandleRequest(w) \/ HandlerBlocks(w)
    <2>1. Ending' = Ending
        BY <1>0, <1>4 DEF HandleRequest, HandlerBlocks, Step, WorkerAt, Ending
    <2>2. Open' = Open
        BY <1>4, HandledOpen DEF Open, Inv
    <2> QED
        BY <1>4, <2>1, <2>2, CountedStill DEF HandleRequest, HandlerBlocks
<1>5. CASE WritePipe(w)
    <2>1. Ending' = Ending /\ Open' = Open
        BY <1>0, <1>5 DEF WritePipe, Step, WorkerAt, Ending, Open, clientVars
    <2> QED
        BY <1>5, <2>1, CountedStill DEF WritePipe
<1> QED
    BY <1>1, <1>2, <1>3, <1>4, <1>5, CloseCounted, StatusCounted DEF Work

LEMMA CountedNext ==
    ASSUME Inv, Counted, [Next]_vars
    PROVE  Counted'
<1>1. CASE UNCHANGED vars
    BY <1>1, CountedStill DEF vars, threadVars, clientVars, Ending, Open
<1>2. CASE Main
    <2>1. CASE ~Accept
        BY <1>2, <2>1, CountedStill
           DEF Main, Loop, Select, Enqueue, Skip, ReadPipe, EndOfPass, Join, Terminate,
               threadVars, clientVars, Ending, Open
    <2> QED
        BY <2>1, AcceptCounted
<1>3. CASE Signal \/ ClosePipe \/ LockManager \/ Connect
    BY <1>3, CountedStill
       DEF Signal, ClosePipe, LockManager, Connect, threadVars, clientVars, Ending,
           Open
<1>4. ASSUME NEW f \in ClientFd, NEW s \in Pending, Send(f, s)
      PROVE  Counted'
    <2>1. client' = [client EXCEPT ![f] = s] /\ client[f] # "none" /\ s # "none"
        BY <1>4 DEF Send, Sends, Pending
    <2>2. Open' = Open
        BY <2>1 DEF Open, Inv, InHand
    <2> QED
        BY <1>4, <2>2, CountedStill DEF Send, threadVars, Ending
<1>5. ASSUME NEW f \in Mortal, Die(f)
      PROVE  Counted'
    BY <1>5, CountedStill DEF Die, threadVars, Ending, Open
<1> QED
    BY <1>1, <1>2, <1>3, <1>4, <1>5, WorkCounted DEF Next

LEMMA CountedStart == Init => Counted
<1> SUFFICES ASSUME Init
             PROVE  Counted
    OBVIOUS
<1>1. Open = Connected
    BY DescriptorAssumption DEF Init, Open
<1>2. Ending = {}
    BY DEF Init, Ending
<1> QED
    BY <1>1, <1>2, FiniteCounts, FS_EmptySet DEF Init, Counted

\* The main thread starts the shutdown after SIGHUP only when nobody is connected,
\* although it reads the counter while workers close connections and update it.
THEOREM ShutdownDrained == Spec => GracefulDrains
<1>1. ASSUME Inv, Counted, [Next]_vars
      PROVE  [main = "scan" /\ main' = "loop" /\ shutdown_now'
                 => shutdown_now \/ Open = {}]_vars
    <2>1. SUFFICES ASSUME Next, main = "scan", main' = "loop", shutdown_now', ~shutdown_now
                   PROVE  Open = {}
        BY <1>1
    <2>2. EndOfPass
        <3>1. CASE Main
            BY <2>1, <3>1 DEF Main, Loop, Select, Accept, Enqueue, Skip, ReadPipe, EndOfPass,
                       Join, Joined, Terminate, MainAt, AfterDescriptor
        <3>2. ASSUME NEW w \in Worker, Work(w)
              PROVE  FALSE
            BY <2>1, <3>2 DEF Work, Top, Take, ReceiveFails, HandleRequest, HandlerBlocks, CloseRequest,
                       UpdateStatus, WritePipe, mainVars
        <3>3. CASE \/ Signal \/ ClosePipe \/ LockManager \/ Connect
                   \/ \E f \in ClientFd, s \in Pending : Send(f, s)
                   \/ \E f \in Mortal : Die(f)
            BY <2>1, <3>3 DEF Signal, ClosePipe, LockManager, Connect, Send, Die, mainVars
        <3> QED
            BY <2>1, <3>1, <3>2, <3>3 DEF Next
    <2>3. current_connections = 0
        BY <2>1, <2>2 DEF EndOfPass, Drained
    <2>4. Cardinality(Open) = 0
        BY <1>1, <2>3, FiniteCounts DEF Counted
    <2> QED
        BY <2>4, FiniteCounts, FS_EmptySet
<1>2. Init => DescriptorsTyped /\ FdMaxCovers /\ AllLocated /\ InHand /\ Counted
    BY WatchedStart, PlacesStart, CountedStart
<1>3. DescriptorsTyped /\ FdMaxCovers /\ AllLocated /\ InHand /\ Counted /\ [Next]_vars
         => (DescriptorsTyped /\ FdMaxCovers /\ AllLocated /\ InHand /\ Counted)'
    BY WatchedNext, PlacesNext, CountedNext DEF Inv
<1>4. DescriptorsTyped /\ AllLocated /\ InHand /\ Counted /\ [Next]_vars
         => [main = "scan" /\ main' = "loop" /\ shutdown_now'
                 => shutdown_now \/ Open = {}]_vars
    BY <1>1 DEF Inv
<1> QED
    BY <1>2, <1>3, <1>4, PTL DEF Spec, GracefulDrains

-----------------------------------------------------------------------------
\* The bounds of the numbers.  mw_pipe never leaves the set, which keeps fd_max
\* from falling below it; a socket the scan still has to reach has connections to
\* accept.
Bounded ==
    /\ mw_pipe \in set /\ fd_max <= Max(Fd)
    /\ fd \in Fd \cup {Closed}
    /\ backlog \in Nat /\ connections \in Nat
    /\ backlog <= connections /\ connections <= Connections
    /\ main \in {"scan", "read"} /\ socket_fd \in rdset /\ fd < socket_fd => backlog > 0
    /\ terminators \in 0 .. Cardinality(Worker)

Labelled ==
    /\ main \in {"loop", "select", "scan", "read", "join_signal", "join_lock",
                 "terminate", "join_workers", "exited"}
    /\ handler \in {"sigwait", "close", "finished"}
    /\ {accept_connection, shutdown_now, leaked, up} \subseteq BOOLEAN
    /\ lock_manager \in {"running", "blocked", "finished"}
    /\ peer \in [ClientFd -> PeerState]

LEMMA HighestDescriptor ==
    /\ Max(Fd) \in Nat
    /\ \A f \in Fd : f \in Int /\ f <= Max(Fd)
<1>1. IsFiniteSet(Fd)
    <2>1. Fd = ((ClientFd \cup {signal_pipe}) \cup {mw_pipe}) \cup {socket_fd}
        BY DEF Fd
    <2> QED
        BY <2>1, FS_AddElement, DescriptorAssumption
<1>2. Fd \subseteq Nat /\ Fd # {}
    BY DescriptorsAreNumbers
<1>3. Max(Fd) \in Fd /\ \A f \in Fd : f <= Max(Fd)
    BY <1>1, <1>2, MaxProperties
<1>4. Max(Fd) \in Nat /\ \A f \in Fd : f \in Nat
    BY <1>2, <1>3
<1> QED
    BY <1>3, <1>4

LEMMA ListenBounded ==
    ASSUME Bounded, NEW f \in Fd, Listen(f)
    PROVE  mw_pipe \in set' /\ fd_max' <= Max(Fd)
BY HighestDescriptor DEF Bounded, Listen

LEMMA MainBounded ==
    ASSUME Inv, Bounded, Main
    PROVE  Bounded'
<1>0. /\ fd_max \in Int /\ fd \in Int /\ rdset \subseteq Fd /\ Fd \subseteq Nat
      /\ mw_pipe # signal_pipe /\ mw_pipe # socket_fd /\ socket_fd = 2
      /\ mw_pipe \in Fd /\ socket_fd \in Fd
    BY DescriptorsAreNumbers DEF Inv, DescriptorsTyped, InHand, mw_pipe, signal_pipe, socket_fd
<1>1. CASE Loop \/ EndOfPass \/ Join
    BY <1>1 DEF Loop, EndOfPass, Join, Joined, MainAt, clientVars, Bounded
<1>2. CASE Terminate
    <2>1. Cardinality(Worker) \in Nat
        BY WorkerAssumption, FS_CardinalityType
    <2>2. terminators' \in 0 .. Cardinality(Worker)
        BY <1>2, <2>1 DEF Terminate, AllTerminated, Bounded
    <2> QED
        BY <1>2, <2>2 DEF Terminate, MainAt, clientVars, Bounded
<1>3. CASE Select
    <2>1. /\ mw_pipe \in set' /\ fd_max' <= Max(Fd)
          /\ fd' \in Fd \cup {Closed}
        BY <1>0, <1>3, HighestDescriptor DEF Select, Bounded
    <2>2. main' \in {"scan", "read"} /\ socket_fd \in rdset' => backlog' > 0
        BY <1>0, <1>3, DescriptorsAreNumbers, ClientDescriptor
           DEF Select, Ready, clientVars, signal_pipe, mw_pipe
    <2> QED
        BY <1>3, <2>1, <2>2 DEF Select, clientVars, Bounded
<1>4. CASE Accept \/ Enqueue \/ Skip
    <2>1. /\ fd' = Min(Remaining) /\ Remaining # {} /\ main = "scan"
          /\ UNCHANGED <<rdset, connections, terminators>>
        BY <1>4 DEF Accept, Enqueue, Skip, MainAt, clientVars
    <2>2. fd' \in Remaining /\ fd' \in Fd
        BY <2>1, NextDescriptor DEF Inv
    <2>3. fd < fd' /\ fd' \in rdset /\ fd' \in Int
        BY <1>0, <2>2 DEF Remaining
    <2>4. fd' < socket_fd => fd < socket_fd
        BY <1>0, <2>3
    <2>5. CASE Accept
        <3>1. fd' = socket_fd /\ backlog' = backlog - 1
            BY <2>5 DEF Accept
        <3>2. backlog > 0
            BY <2>1, <2>3, <3>1 DEF Bounded
        <3>3. backlog' \in Nat /\ backlog' <= connections
            BY <3>1, <3>2 DEF Bounded
        <3>4. PICK f \in ClientFd : Listen(f)
            BY <2>5 DEF Accept
        <3>5. mw_pipe \in set' /\ fd_max' <= Max(Fd)
            BY <3>4, ListenBounded, ClientDescriptor
        <3>6. ~(fd' < socket_fd)
            BY <1>0, <3>1
        <3> QED
            BY <2>1, <2>2, <3>3, <3>5, <3>6 DEF Bounded
    <2>6. CASE Enqueue
        <3>1. Unlisten(fd') /\ fd' # mw_pipe /\ UNCHANGED backlog
            BY <2>6 DEF Enqueue, clientVars
        <3>2. mw_pipe \in set' /\ fd_max' <= Max(Fd)
            BY <1>0, <3>1, HighestDescriptor DEF Unlisten, Bounded
        <3> QED
            BY <2>1, <2>2, <2>4, <3>1, <3>2 DEF Bounded
    <2>7. CASE Skip
        BY <2>1, <2>2, <2>4, <2>7 DEF Skip, clientVars, Bounded
    <2> QED
        BY <1>4, <2>5, <2>6, <2>7
<1>5. CASE ReadPipe
    <2>1. Head(pipe) \in Fd \cup {Closed}
        BY <1>5, HeadTailProperties DEF ReadPipe, Inv, DescriptorsTyped
    <2>2. mw_pipe \in set' /\ fd_max' <= Max(Fd)
        BY <1>5, <2>1, ListenBounded DEF ReadPipe, Bounded
    <2> QED
        BY <1>5, <2>2 DEF ReadPipe, MainAt, clientVars, Bounded
<1> QED
    BY <1>1, <1>2, <1>3, <1>4, <1>5 DEF Main

LEMMA BoundedNext ==
    ASSUME Inv, Bounded, [Next]_vars
    PROVE  Bounded'
<1>1. CASE UNCHANGED vars
    BY <1>1 DEF vars, mainVars, clientVars, Bounded
<1>2. ASSUME NEW w \in Worker, Work(w)
      PROVE  Bounded'
    BY <1>2 DEF Work, Top, Take, ReceiveFails, HandleRequest, HandlerBlocks, CloseRequest, UpdateStatus,
                WritePipe, mainVars, clientVars, Bounded
<1>3. CASE Signal \/ ClosePipe \/ LockManager
    BY <1>3 DEF Signal, ClosePipe, LockManager, mainVars, clientVars, Bounded
<1>4. CASE Connect
    <2>1. /\ connections' = connections + 1 /\ backlog' = backlog + 1
          /\ connections < Connections /\ UNCHANGED mainVars
        BY <1>4 DEF Connect
    <2> QED
        BY <2>1, BoundsAssumption DEF mainVars, Bounded
<1>5. CASE (\E f \in ClientFd, s \in Pending : Send(f, s)) \/ (\E f \in Mortal : Die(f))
    BY <1>5 DEF Send, Die, mainVars, Bounded
<1> QED
    BY <1>1, <1>2, <1>3, <1>4, <1>5, MainBounded DEF Next

LEMMA LabelledNext ==
    ASSUME Labelled, [Next]_vars
    PROVE  Labelled'
<1>1. CASE UNCHANGED vars
    BY <1>1 DEF vars, mainVars, flagVars, clientVars, Labelled
<1>2. CASE Main
    <2>1. CASE Loop \/ Select \/ Accept \/ Enqueue \/ Skip \/ ReadPipe
        <3>1. "alive" \in PeerState
            BY DEF PeerState
        <3> QED
            BY <2>1, <3>1 DEF Loop, Select, Accept, Enqueue, Skip, ReadPipe, AfterDescriptor,
                              flagVars, clientVars, Labelled
    <2>2. CASE EndOfPass
        BY <2>2 DEF EndOfPass, Drained, clientVars, Labelled
    <2>3. CASE Join \/ Terminate
        BY <2>3 DEF Join, Joined, Terminate, flagVars, clientVars, Labelled
    <2> QED
        BY <1>2, <2>1, <2>2, <2>3 DEF Main
<1>3. ASSUME NEW w \in Worker, Work(w)
      PROVE  Labelled'
    <2>1. UNCHANGED <<main, handler, lock_manager, accept_connection, shutdown_now>>
        BY <1>3 DEF Work, Top, Take, ReceiveFails, HandleRequest, HandlerBlocks, CloseRequest,
                    UpdateStatus, WritePipe, mainVars, flagVars
    <2>2. up' \in {up, FALSE} /\ leaked' \in {leaked, FALSE, ReadsMissing}
        BY <1>3 DEF Work, Top, Take, ReceiveFails, HandleRequest, HandlerBlocks, CloseRequest,
                    UpdateStatus, WritePipe, flagVars
    <2>3. peer' \in [ClientFd -> PeerState]
        <3>1. "alive" \in PeerState
            BY DEF PeerState
        <3> QED
            BY <1>3, <3>1 DEF Work, Top, Take, ReceiveFails, HandleRequest, HandlerBlocks,
                    CloseRequest, UpdateStatus, WritePipe, clientVars, Labelled
    <2> QED
        BY <2>1, <2>2, <2>3, BoundsAssumption DEF Labelled
<1>4. CASE Signal \/ ClosePipe \/ LockManager
    BY <1>4 DEF Signal, ClosePipe, LockManager, LockManagerExits, LockManagerBlocks, mainVars,
                clientVars, Labelled
<1>5. CASE Connect \/ \E f \in ClientFd, s \in Pending : Send(f, s)
    BY <1>5 DEF Connect, Send, mainVars, flagVars, Labelled
<1>6. CASE \E f \in Mortal : Die(f)
    BY <1>6 DEF Die, mainVars, flagVars, Labelled
<1> QED
    BY <1>1, <1>2, <1>3, <1>4, <1>5, <1>6 DEF Next

LEMMA BoundsStart == Init => Bounded /\ Labelled
<1> SUFFICES ASSUME Init
             PROVE  Bounded /\ Labelled
    OBVIOUS
<1> DEFINE S == {socket_fd} \cup Connected
<1>1. S \subseteq Fd /\ S \subseteq Nat /\ IsFiniteSet(S) /\ S # {}
    <2>1. IsFiniteSet(Connected)
        BY DescriptorAssumption, FS_Subset
    <2>2. IsFiniteSet(S)
        BY <2>1, FS_Union, FS_Singleton
    <2> QED
        BY <2>2, DescriptorAssumption, DescriptorsAreNumbers
<1>2. fd_max = Max(S)
    BY DEF Init
<1> HIDE DEF S
<1>3. fd_max <= Max(Fd)
    BY <1>1, <1>2, MaxProperties, HighestDescriptor
<1>4. Cardinality(Worker) \in Nat
    BY WorkerAssumption, FS_CardinalityType
<1>5. Bounded
    BY <1>3, <1>4, BoundsAssumption DEF Init, Bounded
<1>6. Labelled
    BY DEF Init, Labelled, PeerState
<1> QED
    BY <1>5, <1>6

\* Every variable keeps its type: fd_max stays a descriptor although it is counted
\* down, the number of connections is never negative although workers and main
\* thread change it at different moments, accept is called only when somebody
\* waits to be accepted.
THEOREM PoolTypeCorrect == Spec => []TypeOK
<1>1. Init => /\ DescriptorsTyped /\ FdMaxCovers /\ AllLocated /\ InHand /\ Counted
              /\ Bounded /\ Labelled
    BY WatchedStart, PlacesStart, CountedStart, BoundsStart
<1>2. /\ DescriptorsTyped /\ FdMaxCovers /\ AllLocated /\ InHand /\ Counted
      /\ Bounded /\ Labelled
      /\ [Next]_vars
      => (/\ DescriptorsTyped /\ FdMaxCovers /\ AllLocated /\ InHand /\ Counted
          /\ Bounded /\ Labelled)'
    BY WatchedNext, PlacesNext, CountedNext, BoundedNext, LabelledNext DEF Inv
<1>3. ASSUME DescriptorsTyped, FdMaxCovers, InHand, Counted, Bounded, Labelled
      PROVE  TypeOK
    <2>1. fd_max \in 0 .. Max(Fd)
        <3>1. mw_pipe <= fd_max /\ fd_max \in Int
            BY <1>3 DEF Bounded, FdMaxCovers, DescriptorsTyped
        <3> QED
            BY <1>3, <3>1, HighestDescriptor DEF Bounded, mw_pipe
    <2>2. current_connections \in Nat
        BY <1>3, FiniteCounts DEF Counted
    <2>3. {backlog, connections} \subseteq 0 .. Connections
        BY <1>3, BoundsAssumption DEF Bounded
    <2> QED
        BY <1>3, <2>1, <2>2, <2>3
           DEF TypeOK, DescriptorsTyped, InHand, Bounded, Labelled, WorkerLabels
<1> QED
    BY <1>1, <1>2, <1>3, PTL DEF Spec
=============================================================================
