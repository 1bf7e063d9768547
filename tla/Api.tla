--------------------------------- MODULE Api --------------------------------
(***************************************************************************)
(* One client process: the calls of api/fileserver_api.c, in the order in  *)
(* which client/client.c makes them, over its connection to the server.    *)
(*                                                                         *)
(* A call sends one request and takes the next response in the stream for  *)
(* its answer: nothing in a response names the request.  The server is     *)
(* seen from this connection: what worker_thread sends for each request,   *)
(* one response after the other, the late answer of the lock manager, the  *)
(* end of the process, and the day it stops to answer.  A message is one   *)
(* write and one read.                                                     *)
(***************************************************************************)
EXTENDS Naturals, Sequences, FiniteSets, SequencesExt

CONSTANTS
    Path,           \* absolute paths of files on the client's disk
    NoPath,         \* path_len = 0, and file_path NULL
    Calls,          \* the calls the program may make, a subset of Call
    NoCall,
    ServerMayExit,  \* FALSE: the server outlives the client
    ServerMayStall, \* FALSE: it never stops to take requests
    \* bounds of the model
    MaxCalls,       \* calls the program makes
    MaxFiles        \* files that come with one answer

RequestOp == {"OPEN_CONNECTION", "CLOSE_CONNECTION", "OPEN_FILE", "CLOSE_FILE",
              "WRITE_FILE", "APPEND_TO_FILE", "READ_FILE", "READ_N_FILES",
              "REMOVE_FILE", "LOCK_FILE", "UNLOCK_FILE"}

\* A call of the program, named by the request it is about.  dir is the
\* directory for the files that come with the answer: it can be made by mkdir_p
\* (or there is none, which makes no difference here), or it cannot.
Call == [op  : RequestOp,
         path : Path \cup {NoPath},
         dir : {"usable", "unusable"}]

ASSUME CallsAssumption == Calls \subseteq Call /\ NoCall \notin Call
ASSUME PathAssumption == NoPath \notin Path
ASSUME BoundsAssumption == MaxCalls \in Nat /\ MaxFiles \in Nat
ASSUME ServerAssumption == {ServerMayExit, ServerMayStall} \subseteq BOOLEAN

VARIABLES
    pc,            \* where the client process is
    call,          \* the call in progress, or the last one
    result,        \* what it returned: 0 or 1 (for -1)
    how_many,      \* files still to be received
    opened_files,  \* the list of the api
    calls,         \* calls made
    sent,          \* requests sent; the last one has this number
    requests,      \* the two directions of the socket
    responses,
    work,          \* responses the worker still has to send
    awaiting,      \* responses that lock_manager_thread will send
    up,            \* FALSE once the server process is gone
    stuck,         \* TRUE once its worker or its main thread waits for ever
    \* history
    done,          \* requests the server has carried out
    unremoved,     \* removals it answered with SUCCESS although the file stays
    granted,       \* files it has opened for this client, until they are removed,
                   \* expelled, or answered as removed
    dropped,       \* files it removed while it refused to write them
    leftover       \* the first call that returned with answers still to come

client == <<pc, call, result, how_many, opened_files, calls, leftover>>
server == <<work, awaiting, up, stuck, done, unremoved, granted, dropped>>
vars == <<client, sent, requests, responses, server>>

-----------------------------------------------------------------------------
\* request_t and response_t.  Codes other than SUCCESS and FILES_EXPELLED make
\* every call return -1 and are one here.
Request == [id : Nat, op : RequestOp, path : Path \cup {NoPath},
            flags : SUBSET {"O_CREATE", "O_LOCK", "O_NOFLAG"}]

\* id is the request it answers, which no response carries.  The body is
\* absent, the number n of files to follow, or the contents of a file.
Response == [id : Nat, status : {"SUCCESS", "FILES_EXPELLED", "FAILURE"},
             path : Path \cup {NoPath}, body : {"none", "number", "contents"},
             n : Nat]

Respond(id, status, path) ==
    [id |-> id, status |-> status, path |-> path, body |-> "none", n |-> 0]

Labels == {"start", "handshake", "idle", "opening", "answer", "files", "final",
           "closing", "close_file", "exit", "dead"}

TypeOK ==
    /\ pc \in Labels
    /\ call \in Call \cup {NoCall}
    /\ result \in {0, 1}
    /\ how_many \in Nat
    /\ opened_files \in Seq(Path)
    /\ calls \in 0 .. MaxCalls
    /\ sent \in Nat
    /\ requests \in Seq(Request)
    /\ responses \in Seq(Response)
    /\ work \in Seq(Response)
    /\ awaiting \in SUBSET Response
    /\ {up, stuck} \subseteq BOOLEAN
    /\ {done, unremoved} \subseteq SUBSET Nat
    /\ {granted, dropped} \subseteq SUBSET Path
    /\ leftover \in Call \cup {NoCall}

Init ==
    /\ pc = "start"
    /\ call = NoCall /\ result = 1 /\ how_many = 0
    /\ opened_files = <<>>
    /\ calls = 0 /\ sent = 0
    /\ requests = <<>> /\ responses = <<>>
    /\ work = <<>> /\ awaiting = {}
    /\ up = TRUE /\ stuck = FALSE
    /\ done = {} /\ unremoved = {} /\ granted = {} /\ dropped = {}
    /\ leftover = NoCall

-----------------------------------------------------------------------------
\* utils/protocol.c

\* send_request, then wait for the response at the label.  When the server is
\* gone the write raises SIGPIPE, which the client does not handle.
send_request(op, path, flags, label) ==
    IF up
    THEN /\ requests' = Append(requests, [id |-> sent + 1, op |-> op,
                                          path |-> path, flags |-> flags])
         /\ sent' = sent + 1
         /\ pc' = label
    ELSE pc' = "dead" /\ UNCHANGED <<requests, sent>>

\* read returns 0 when the server is gone, which is no error: the response is
\* what calloc left, and SUCCESS is 0.  Only when the server left a request
\* unread does the kernel make it an error, and recv_response returns NULL.
StatusAtEnd(status) == IF requests = <<>> THEN status ELSE "FAILURE"
EndOfFile == Respond(0, StatusAtEnd("SUCCESS"), NoPath)

Answer == IF responses # <<>> THEN Head(responses) ELSE EndOfFile

recv_response ==
    /\ responses # <<>> \/ ~up
    /\ responses' = IF responses # <<>> THEN Tail(responses) ELSE responses

-----------------------------------------------------------------------------
\* Helpers of the calls

NothingToCome == responses' = <<>> /\ (up => work = <<>> /\ requests = <<>>)

Return(r) ==
    /\ pc' = "idle"
    /\ result' = r
    /\ leftover' = IF leftover = NoCall /\ ~NothingToCome THEN call ELSE leftover

\* The client goes on in the call.
Goto(label) == pc' = label /\ UNCHANGED <<result, leftover>>

IsOpened(p) == \E i \in DOMAIN opened_files : opened_files[i] = p

\* A call of the program.  When the file is not in opened_files it is opened
\* first, with the flags of the call.
Begin(c, flags) ==
    /\ pc = "idle" /\ calls < MaxCalls
    /\ c \in Calls
    /\ call' = c
    /\ calls' = calls + 1
    /\ IF c.path = NoPath \/ IsOpened(c.path)
       THEN send_request(c.op, c.path, {}, "answer")
       ELSE send_request("OPEN_FILE", c.path, flags, "opening")
    /\ UNCHANGED <<result, how_many, opened_files, responses, leftover, server>>

\* It returns before anything is sent.
ReturnAtOnce(c) ==
    /\ pc = "idle" /\ calls < MaxCalls
    /\ c \in Calls
    /\ call' = c
    /\ calls' = calls + 1
    /\ result' = 1
    /\ UNCHANGED <<pc, how_many, opened_files, sent, requests, responses,
                   leftover, server>>

\* The answer to the request of a call to op.
Answered(op) ==
    /\ pc = "answer" /\ call.op = op
    /\ recv_response
    /\ UNCHANGED <<call, calls, sent, requests, server>>

\* Variant: any answer will do.
ReturnZero == Return(0)
ReturnStatus == Return(IF Answer.status = "SUCCESS" THEN 0 ELSE 1)

\* The calls that look at nothing but the status.
StatusOnly == ReturnStatus /\ UNCHANGED <<how_many, opened_files>>

\* list_remove_element(opened_files, p).  Variant: the file stays listed.
KeepListed(p) == opened_files
Unlisted(p) == RemoveFirst(opened_files, p)

\* The condition of the loops that receive files.  Variant: one file too many.
OneMoreFile == how_many >= 0
MoreFiles == how_many > 0

-----------------------------------------------------------------------------
\* api/fileserver_api.c

\* connect fails, or the handshake is sent.
openConnection ==
    /\ pc = "start"
    /\ \/ pc' = "exit" /\ UNCHANGED <<sent, requests>>
       \/ send_request("OPEN_CONNECTION", NoPath, {}, "handshake")
    /\ UNCHANGED <<call, result, how_many, opened_files, calls, responses,
                   leftover, server>>

HandshakeAnswered ==
    /\ pc = "handshake"
    /\ recv_response
    /\ pc' = IF Answer.status = "SUCCESS" THEN "idle" ELSE "exit"
    /\ UNCHANGED <<call, result, how_many, opened_files, calls, sent, requests,
                   leftover, server>>

\* What client.c does after a readFile that failed: it writes the buffer it never
\* got, in the size it never set, to the directory, if there is one.
UseNoBuffer == Goto("dead")

\* openFile, when it succeeds, lists the file, and the call goes on.  When it
\* fails the call returns.
openFile ==
    /\ pc = "opening"
    /\ recv_response
    /\ IF Answer.status = "SUCCESS"
       THEN /\ opened_files' = Append(opened_files, call.path)
            /\ send_request(call.op, call.path, {}, "answer")
            /\ UNCHANGED <<result, leftover>>
       ELSE /\ Return(1) \/ (call.op = "READ_FILE" /\ UseNoBuffer)
            /\ UNCHANGED <<opened_files, sent, requests>>
    /\ UNCHANGED <<call, how_many, calls, server>>

readFile(c) == c.op = "READ_FILE" /\ Begin(c, {"O_NOFLAG"})

ReadAnswered ==
    /\ Answered("READ_FILE")
    /\ \/ StatusOnly
       \/ /\ Answer.status # "SUCCESS"
          /\ UseNoBuffer /\ UNCHANGED <<how_many, opened_files>>

readNFiles(c) == c.op = "READ_N_FILES" /\ Begin(c, {})

\* The numbers an int at the start of the body can be.
NumberIn(body) ==
    IF body = "number" THEN {Answer.n} ELSE 0 .. MaxFiles + 1

\* The answer announces files, as many as the body says, or there is no body to
\* look into.
Announced ==
    IF Answer.body = "none" THEN Goto("dead") /\ UNCHANGED how_many
    ELSE Goto("files") /\ how_many' \in NumberIn(Answer.body)

\* mkdir_p fails before a file is received.
ReadNAnswered ==
    /\ Answered("READ_N_FILES")
    /\ IF Answer.status = "SUCCESS" /\ call.dir = "usable"
       THEN Announced
       ELSE Return(1) /\ UNCHANGED how_many
    /\ UNCHANGED opened_files

\* One of the files; those that a write expelled are opened no more.  The path
\* of the response is compared with every element of the list.
ReceiveFile ==
    /\ pc = "files" /\ MoreFiles
    /\ recv_response
    /\ how_many' = how_many - 1
    /\ IF call.op = "READ_N_FILES" \/ opened_files = <<>>
       THEN UNCHANGED <<pc, opened_files>>
       ELSE IF Answer.path = NoPath
       THEN pc' = "dead" /\ UNCHANGED opened_files
       ELSE /\ opened_files' = Unlisted(Answer.path)
            /\ UNCHANGED pc
    /\ UNCHANGED <<call, result, calls, leftover, sent, requests, server>>

\* readNFiles returns after the last file, a write or append takes one more
\* response.  Variant: it does not.
NoFinalResponse == Return(0)
AfterFiles ==
    IF call.op = "READ_N_FILES" THEN Return(0) ELSE Goto("final")

FilesReceived ==
    /\ pc = "files" /\ ~MoreFiles
    /\ UNCHANGED responses
    /\ AfterFiles
    /\ UNCHANGED <<call, how_many, opened_files, calls, sent, requests, server>>

\* The file cannot be read from disk, or is sent.
writeFile(c) ==
    /\ c.op = "WRITE_FILE"
    /\ ReturnAtOnce(c) \/ Begin(c, {"O_CREATE", "O_LOCK"})

WriteAnswered ==
    /\ Answered("WRITE_FILE")
    /\ IF Answer.status = "FILES_EXPELLED" /\ call.dir = "usable"
       THEN Announced /\ UNCHANGED opened_files
       ELSE StatusOnly

appendToFile(c) == c.op = "APPEND_TO_FILE" /\ Begin(c, {"O_LOCK"})

AppendAnswered ==
    /\ Answered("APPEND_TO_FILE")
    /\ IF Answer.status = "FILES_EXPELLED" /\ call.dir = "usable"
       THEN Announced /\ UNCHANGED opened_files
       ELSE StatusOnly

\* The final response of a write or an append.
FinalAnswered ==
    /\ pc = "final"
    /\ recv_response
    /\ StatusOnly
    /\ UNCHANGED <<call, calls, sent, requests, server>>

lockFile(c) == c.op = "LOCK_FILE" /\ Begin(c, {"O_NOFLAG"})

LockAnswered == Answered("LOCK_FILE") /\ StatusOnly

\* A file that was not opened is not unlocked.
unlockFile(c) ==
    /\ c.op = "UNLOCK_FILE"
    /\ IF IsOpened(c.path) THEN Begin(c, {}) ELSE ReturnAtOnce(c)

UnlockAnswered == Answered("UNLOCK_FILE") /\ StatusOnly

removeFile(c) == c.op = "REMOVE_FILE" /\ Begin(c, {"O_LOCK"})

RemoveAnswered ==
    /\ Answered("REMOVE_FILE")
    /\ opened_files' = IF Answer.status = "SUCCESS" THEN Unlisted(call.path)
                       ELSE opened_files
    /\ ReturnStatus
    /\ UNCHANGED how_many

\* closeConnection closes every file that is still listed, whatever the server
\* says to it, and waits for no answer to its own request.
closeConnection ==
    /\ pc \in {"idle", "closing"}
    /\ IF opened_files # <<>>
       THEN /\ opened_files' = Tail(opened_files)
            /\ send_request("CLOSE_FILE", Head(opened_files), {}, "close_file")
       ELSE /\ send_request("CLOSE_CONNECTION", NoPath, {}, "exit")
            /\ UNCHANGED opened_files
    /\ UNCHANGED <<call, result, how_many, calls, responses, leftover, server>>

closeFile ==
    /\ pc = "close_file"
    /\ recv_response
    /\ pc' = "closing"
    /\ UNCHANGED <<call, result, how_many, opened_files, calls, leftover, sent,
                   requests, server>>

-----------------------------------------------------------------------------
\* The server.  What worker_thread sends for a request that is carried out, and
\* for one that is not.

Files(id, status, paths) ==
    [i \in DOMAIN paths |->
        [Respond(id, status, paths[i]) EXCEPT !.body = "contents"]]

Number(id, status, n) ==
    [Respond(id, status, NoPath) EXCEPT !.body = "number", !.n = n]

\* The contents of a file.
Contents(id, path) == [Respond(id, "SUCCESS", path) EXCEPT !.body = "contents"]

\* Paths of different files, other than p.
PathLists(p) ==
    UNION {{s \in [1 .. k -> Path \ {p}] : IsInjective(s)} : k \in 0 .. MaxFiles}

\* The answer to an append goes on with that to a READ_FILE.
AndRead(r, first) ==
    {<<first, Contents(r.id, r.path)>>, <<first, Respond(r.id, "FAILURE", r.path)>>}

Refusals(r) ==
    LET refusal == Respond(r.id, "FAILURE", r.path) IN
    IF r.op = "APPEND_TO_FILE" THEN AndRead(r, refusal) ELSE {<<refusal>>}

\* The files a request that is carried out comes with: those that a write
\* expels, those that readNFiles reads.
Answers(r, paths) ==
    LET success == Respond(r.id, "SUCCESS", r.path) IN
    CASE r.op = "READ_FILE" -> {<<Contents(r.id, r.path)>>}
      [] r.op = "APPEND_TO_FILE" -> AndRead(r, success)
      [] r.op = "READ_N_FILES" ->
            {<<Number(r.id, "SUCCESS", Len(paths))>>
                \o Files(r.id, "SUCCESS", paths) \o <<success>>}
      [] r.op = "WRITE_FILE" /\ paths # <<>> ->
            {<<Number(r.id, "FILES_EXPELLED", Len(paths))>>
                \o Files(r.id, "FILES_EXPELLED", paths) \o <<success>>}
      [] OTHER -> {<<success>>}

\* The files that a request opens for this client, and those that its answer
\* closes: removed, or expelled by the write.
OpenedBy(r) == IF r.op = "OPEN_FILE" THEN {r.path} ELSE {}
ClosedBy(r, paths) ==
    CASE r.op = "REMOVE_FILE" -> {r.path}
      [] r.op = "WRITE_FILE"  -> ToSet(paths)
      [] OTHER                -> {}

Account(r, paths) ==
    /\ granted' = (granted \cup OpenedBy(r)) \ ClosedBy(r, paths)
    /\ dropped' = dropped \ (OpenedBy(r) \cup ClosedBy(r, paths))

\* A worker receives a request, when this client's previous one is done.
Received ==
    /\ up /\ ~stuck /\ work = <<>> /\ requests # <<>>
    /\ requests' = Tail(requests)
    /\ UNCHANGED <<client, sent, responses, up>>

Serving == Received /\ UNCHANGED stuck

Refuse ==
    /\ Serving
    /\ Head(requests).op # "CLOSE_CONNECTION"
    /\ work' \in Refusals(Head(requests))
    /\ UNCHANGED <<awaiting, done, unremoved, granted, dropped>>

\* A write above the capacity is refused, and the file removed: it goes when it
\* was in the eviction queue, that is, when it had been written before.
RefuseTooBig ==
    /\ Serving
    /\ LET r == Head(requests) IN
       /\ r.op = "WRITE_FILE"
       /\ work' \in Refusals(r)
       /\ granted' = granted \ {r.path}
       /\ dropped' = dropped \cup ({r.path} \cap granted)
    /\ UNCHANGED <<awaiting, done, unremoved>>

CarryOut ==
    /\ Serving
    /\ LET r == Head(requests) IN
       /\ r.op # "CLOSE_CONNECTION"
       /\ \E paths \in (IF r.op \in {"WRITE_FILE", "READ_N_FILES"}
                        THEN PathLists(r.path) ELSE {<<>>}) :
             work' \in Answers(r, paths) /\ Account(r, paths)
       /\ done' = done \cup {r.id}
    /\ UNCHANGED <<awaiting, unremoved>>

\* storage_remove_file does not find the file in the eviction queue, because it
\* was never written, or lost its place to a file created at the limit: it stays
\* in the table, and its return value is ignored.
RemoveNothing ==
    /\ Serving
    /\ LET r == Head(requests) IN
       /\ r.op = "REMOVE_FILE"
       /\ work' \in Answers(r, <<>>) /\ Account(r, <<>>)
       /\ unremoved' = unremoved \cup {r.id}
    /\ UNCHANGED <<awaiting, done>>

\* AWAITING: the worker sends nothing.
Await ==
    /\ Serving
    /\ LET r == Head(requests) IN
       /\ r.op = "LOCK_FILE"
       /\ awaiting' = awaiting \cup {Respond(r.id, "SUCCESS", r.path)}
    /\ UNCHANGED <<work, done, unremoved, granted, dropped>>

Disconnect ==
    /\ Serving
    /\ Head(requests).op = "CLOSE_CONNECTION"
    /\ UNCHANGED <<work, awaiting, done, unremoved, granted, dropped>>

send_response ==
    /\ up /\ work # <<>>
    /\ responses' = Append(responses, Head(work))
    /\ work' = Tail(work)
    /\ UNCHANGED <<client, sent, requests, awaiting, up, stuck, done, unremoved,
                   granted, dropped>>

lock_manager_thread ==
    /\ up
    /\ \E m \in awaiting :
          /\ responses' = Append(responses, m)
          /\ done' = done \cup {m.id}
          /\ awaiting' = awaiting \ {m}
    /\ UNCHANGED <<client, sent, requests, work, up, stuck, unremoved, granted, dropped>>

\* From here on no request is answered: the main thread waits for mw_pipe, or
\* the handlers wait for storage->access, which read_file_handler left locked.
Stall ==
    /\ ServerMayStall /\ up /\ ~stuck
    /\ stuck' = TRUE
    /\ UNCHANGED <<client, sent, requests, responses, work, awaiting, up, done,
                   unremoved, granted, dropped>>

\* It happens between the two halves of an append: the first is answered.
AppendStalls ==
    /\ ServerMayStall /\ Received
    /\ stuck' = TRUE
    /\ LET r == Head(requests) IN
       /\ r.op = "APPEND_TO_FILE"
       /\ \/ work' = <<Respond(r.id, "SUCCESS", r.path)>> /\ done' = done \cup {r.id}
          \/ work' = <<Respond(r.id, "FAILURE", r.path)>> /\ UNCHANGED done
    /\ UNCHANGED <<awaiting, unremoved, granted, dropped>>

\* What the process leaves unread when it ends: a handler that waits for ever has
\* read its request.
Unread ==
    \/ UNCHANGED requests
    \/ /\ stuck /\ work = <<>> /\ requests # <<>>
       /\ Head(requests).op \notin {"OPEN_CONNECTION", "CLOSE_CONNECTION"}
       /\ requests' = Tail(requests)

\* The process ends, perhaps in the middle of a response: the client reads the
\* status and zeros for the rest.
Exit ==
    /\ ServerMayExit /\ up
    /\ up' = FALSE
    /\ work' = <<>> /\ awaiting' = {}
    /\ \/ UNCHANGED responses
       \/ /\ work # <<>>
          /\ responses' = Append(responses,
                Respond(Head(work).id, StatusAtEnd(Head(work).status), NoPath))
    /\ Unread
    /\ UNCHANGED <<client, sent, stuck, done, unremoved, granted, dropped>>

-----------------------------------------------------------------------------
\* client/client.c: the connection, the actions of the command line, the end.

execute_action ==
    \E c \in Calls :
       \/ writeFile(c) \/ appendToFile(c) \/ readFile(c) \/ readNFiles(c)
       \/ lockFile(c) \/ unlockFile(c) \/ removeFile(c)

main ==
    \/ openConnection \/ HandshakeAnswered
    \/ execute_action
    \/ openFile
    \/ WriteAnswered \/ AppendAnswered \/ ReadAnswered \/ ReadNAnswered
    \/ LockAnswered \/ UnlockAnswered \/ RemoveAnswered
    \/ ReceiveFile \/ FilesReceived \/ FinalAnswered
    \/ closeConnection \/ closeFile

worker_thread ==
    \/ Refuse \/ RefuseTooBig \/ CarryOut \/ RemoveNothing \/ Await \/ Disconnect
    \/ send_response

Next ==
    \/ main \/ worker_thread \/ lock_manager_thread
    \/ Stall \/ AppendStalls \/ Exit

Spec == Init /\ [][Next]_vars

\* The client runs on.  So does the server while it lives and is not stuck, which
\* nothing says it will not be; when another client gives up its lock is not for
\* them to say.
FairSpec == Spec /\ WF_vars(main) /\ WF_vars(worker_thread)

-----------------------------------------------------------------------------
\* Properties.

\* A call that returns 0 has been carried out by the server.
SuccessIsReal == pc = "idle" /\ result = 0 => sent \in done

\* The answers of writeFile come as a number, so many files and one more
\* response, the answer of lockFile from another thread; yet a call that returns
\* leaves nothing of its answer behind, except an append, which is answered
\* twice, a readNFiles, whose last response is never received, and a call that
\* cannot make its directory.
AnswersTaken ==
    leftover # NoCall =>
        \/ leftover.op \in {"APPEND_TO_FILE", "READ_N_FILES"}
        \/ leftover.dir = "unusable"

InStep == leftover = NoCall /\ up

\* As long as no answer was left behind, and the server lives, a call that
\* returns 0 has been carried out; only a removeFile may have been answered by a
\* server that keeps the file.
SuccessIsRealInStep ==
    InStep /\ pc = "idle" /\ result = 0 =>
        sent \in done \/ (call.op = "REMOVE_FILE" /\ sent \in unremoved)

\* Under the same conditions opened_files holds, each of them once, the files the
\* server has opened for this client, has not answered as removed and has not
\* expelled in one of its writes; but also those it removed while it refused to
\* write them, of which the client is not told.
OpenedAgree ==
    InStep /\ pc = "idle" =>
        /\ ToSet(opened_files) = granted \cup dropped
        /\ IsInjective(opened_files)

\* Every call returns, the end of the server included, unless it waits for a
\* lock, or the process dies, or an answer was left behind before, or the server
\* has got stuck.
CallsReturn ==
    pc \notin {"start", "idle", "exit", "dead"} ~>
        \/ pc \in {"idle", "exit", "dead"}
        \/ awaiting # {} \/ leftover # NoCall \/ stuck
=============================================================================
