------------------------------ MODULE ApiProofs -----------------------------
(***************************************************************************)
(* Theorems about Api, for every program of calls, every set of paths and  *)
(* every end of the server.                                                *)
(*                                                                         *)
(* Nothing in a response names the request it answers, so what a call      *)
(* takes for its answer depends on everything that was sent before.  The   *)
(* inductive invariant says, for each point of a call, what is on its way  *)
(* to the client; it holds until a call returns with answers to come.      *)
(***************************************************************************)
EXTENDS Api, SequenceProofs

-----------------------------------------------------------------------------
\* What worker_thread sends, response by response.

LEMMA RespondType ==
    ASSUME NEW id \in Nat, NEW s \in {"SUCCESS", "FILES_EXPELLED", "FAILURE"},
           NEW p \in Path \cup {NoPath}
    PROVE  /\ Respond(id, s, p) \in Response
           /\ Respond(id, s, p).id = id /\ Respond(id, s, p).status = s
           /\ Respond(id, s, p).path = p /\ Respond(id, s, p).body = "none"
BY DEF Respond, Response

LEMMA ContentsType ==
    ASSUME NEW id \in Nat, NEW p \in Path \cup {NoPath}
    PROVE  /\ Contents(id, p) \in Response
           /\ Contents(id, p).id = id /\ Contents(id, p).status = "SUCCESS"
BY RespondType DEF Contents, Response

LEMMA NumberType ==
    ASSUME NEW id \in Nat, NEW s \in {"SUCCESS", "FILES_EXPELLED"}, NEW n \in Nat
    PROVE  /\ Number(id, s, n) \in Response
           /\ Number(id, s, n).status = s /\ Number(id, s, n).body = "number"
           /\ Number(id, s, n).n = n
<1>1. Respond(id, s, NoPath) \in Response /\ Respond(id, s, NoPath).status = s
    BY RespondType
<1> QED
    BY <1>1 DEF Number, Response

LEMMA FilesType ==
    ASSUME NEW id \in Nat, NEW s \in {"SUCCESS", "FILES_EXPELLED"},
           NEW paths \in Seq(Path)
    PROVE  /\ Files(id, s, paths) \in Seq(Response)
           /\ Len(Files(id, s, paths)) = Len(paths)
           /\ \A i \in 1 .. Len(paths) : Files(id, s, paths)[i].path = paths[i]
<1>1. DOMAIN paths = 1 .. Len(paths) /\ Len(paths) \in Nat
    BY LenProperties
<1>2. \A i \in 1 .. Len(paths) : paths[i] \in Path
    BY ElementOfSeq
<1> DEFINE m(i) == [Respond(id, s, paths[i]) EXCEPT !.body = "contents"]
<1>3. \A i \in 1 .. Len(paths) : m(i) \in Response /\ m(i).path = paths[i]
    BY <1>2, RespondType DEF Response
<1>4. Files(id, s, paths) = [i \in 1 .. Len(paths) |-> m(i)]
    BY <1>1 DEF Files
<1> HIDE DEF m
<1>5. [i \in 1 .. Len(paths) |-> m(i)] \in Seq(Response)
    BY <1>1, <1>3, SeqDef
<1>6. Len([i \in 1 .. Len(paths) |-> m(i)]) = Len(paths)
    BY <1>1, <1>5, LenProperties
<1> QED
    BY <1>3, <1>4, <1>5, <1>6

LEMMA PathListsType ==
    ASSUME NEW p, NEW paths \in PathLists(p)
    PROVE  paths \in Seq(Path)
<1>1. PICK k \in 0 .. MaxFiles : paths \in [1 .. k -> Path \ {p}]
    BY DEF PathLists
<1>2. k \in Nat
    BY BoundsAssumption
<1>3. paths \in [1 .. k -> Path]
    BY <1>1
<1> QED
    BY <1>2, <1>3, SeqDef

\* An announcement, the files, and the last response.
LEMMA AnnouncedFiles ==
    ASSUME NEW a \in Response, NEW z \in Response, NEW f \in Seq(Response)
    PROVE  LET w == <<a>> \o f \o <<z>> IN
           /\ w \in Seq(Response) /\ Len(w) = Len(f) + 2 /\ Len(f) \in Nat
           /\ w[1] = a /\ w[Len(f) + 2] = z
           /\ \A k \in 2 .. Len(f) + 1 : w[k] = f[k - 1]
<1>1. <<a>> \in Seq(Response) /\ Len(<<a>>) = 1 /\ <<a>>[1] = a
    OBVIOUS
<1>2. <<z>> \in Seq(Response) /\ Len(<<z>>) = 1 /\ <<z>>[1] = z
    OBVIOUS
<1> DEFINE v == <<a>> \o f
<1>3. /\ v \in Seq(Response) /\ Len(v) = Len(f) + 1 /\ Len(f) \in Nat
      /\ v[1] = a /\ \A k \in 2 .. Len(f) + 1 : v[k] = f[k - 1]
    BY <1>1, ConcatProperties, LenProperties
<1> HIDE DEF v
<1>4. LET w == v \o <<z>> IN
      /\ w \in Seq(Response) /\ Len(w) = Len(v) + 1
      /\ \A k \in 1 .. Len(v) : w[k] = v[k]
      /\ w[Len(v) + 1] = z
    BY <1>2, <1>3, ConcatProperties, LenProperties
<1> QED
    BY <1>3, <1>4 DEF v

-----------------------------------------------------------------------------
\* The answers a client can find in the stream R to the request op for path, when
\* O are the files it has listed as opened and G those the server told it of.

\* A request that was not carried out.
RefusedBy(R, op, O, G) ==
    /\ R # <<>> /\ R[1].status = "FAILURE" /\ G = O
    /\ op # "APPEND_TO_FILE" => Len(R) = 1

\* The paths of the responses from the i-th to the j-th.
PathsOf(R, i, j) == {R[k].path : k \in i .. j}

\* One that was.
AnsweredBy(R, op, path, O, G) ==
    /\ R # <<>>
    /\ \/ /\ op \notin {"READ_N_FILES", "APPEND_TO_FILE"}
          /\ Len(R) = 1 /\ R[1].status = "SUCCESS"
          /\ G = CASE op = "OPEN_FILE" -> O \cup {path}
                   [] op = "REMOVE_FILE" -> O \ {path}
                   [] OTHER -> O
       \/ /\ op = "WRITE_FILE"
          /\ R[1].status = "FILES_EXPELLED" /\ R[1].body = "number"
          /\ Len(R) = R[1].n + 2 /\ R[Len(R)].status = "SUCCESS"
          /\ G = O \ PathsOf(R, 2, R[1].n + 1)
       \/ /\ op = "READ_N_FILES"
          /\ R[1].status = "SUCCESS" /\ R[1].body = "number"
          /\ Len(R) = R[1].n + 2
       \/ /\ op = "APPEND_TO_FILE"
          /\ R[1].status # "FILES_EXPELLED" /\ Len(R) \in {1, 2} /\ G = O

\* The two operations whose answer comes with files.
WithFiles == {"WRITE_FILE", "READ_N_FILES"}

LEMMA RefusalShape ==
    ASSUME NEW r \in Request, NEW w \in Refusals(r), NEW O
    PROVE  w \in Seq(Response) /\ RefusedBy(w, r.op, O, O)
<1> DEFINE first == Respond(r.id, "FAILURE", r.path)
<1>1. /\ first \in Response /\ first.status = "FAILURE"
      /\ Contents(r.id, r.path) \in Response
    BY RespondType, ContentsType DEF Request
<1> HIDE DEF first
<1>2. \/ r.op # "APPEND_TO_FILE" /\ w = <<first>>
      \/ w = <<first, Contents(r.id, r.path)>>
      \/ w = <<first, first>>
    BY DEF Refusals, AndRead, first
<1>3. CASE r.op # "APPEND_TO_FILE" /\ w = <<first>>
    BY <1>1, <1>3 DEF RefusedBy
<1>4. CASE r.op = "APPEND_TO_FILE" /\ w = <<first, Contents(r.id, r.path)>>
    BY <1>1, <1>4 DEF RefusedBy
<1>5. CASE r.op = "APPEND_TO_FILE" /\ w = <<first, first>>
    BY <1>1, <1>5 DEF RefusedBy
<1> QED
    BY <1>2, <1>3, <1>4, <1>5 DEF Refusals, AndRead, first

LEMMA AnswerShape ==
    ASSUME NEW r \in Request,
           NEW paths \in (IF r.op \in WithFiles THEN PathLists(r.path) ELSE {<<>>}),
           NEW w \in Answers(r, paths), NEW O
    PROVE  /\ w \in Seq(Response)
           /\ AnsweredBy(w, r.op, r.path, O, (O \cup OpenedBy(r)) \ ClosedBy(r, paths))
<1> DEFINE last == Respond(r.id, "SUCCESS", r.path)
           n == Len(paths)
           G == (O \cup OpenedBy(r)) \ ClosedBy(r, paths)
<1>1. r.id \in Nat /\ r.path \in Path \cup {NoPath} /\ r.op \in RequestOp
    BY DEF Request
<1>2. paths \in Seq(Path)
    BY PathListsType, EmptySeq
<1>3. n \in Nat /\ ToSet(paths) = {paths[i] : i \in 1 .. n}
    BY <1>2, LenProperties DEF ToSet
<1>4. /\ last \in Response /\ last.status = "SUCCESS"
      /\ Contents(r.id, r.path) \in Response /\ Contents(r.id, r.path).status = "SUCCESS"
    BY <1>1, RespondType, ContentsType
<1> HIDE DEF last, n
<1>5. CASE r.op = "READ_FILE"
    <2>1. w = <<Contents(r.id, r.path)>> /\ G = O
        BY <1>5 DEF Answers, OpenedBy, ClosedBy
    <2> QED
        BY <1>4, <1>5, <2>1 DEF AnsweredBy
<1>6. CASE r.op = "APPEND_TO_FILE"
    <2>1. Respond(r.id, "FAILURE", r.path) \in Response
        BY <1>1, RespondType
    <2>2. \/ w = <<last, Contents(r.id, r.path)>>
          \/ w = <<last, Respond(r.id, "FAILURE", r.path)>>
        BY <1>6 DEF Answers, AndRead, last
    <2>3. PICK z \in Response : w = <<last, z>>
        BY <1>4, <2>1, <2>2
    <2>4. w \in Seq(Response) /\ w # <<>> /\ Len(w) = 2 /\ w[1] = last
        BY <1>4, <2>3
    <2>5. G = O
        BY <1>6 DEF OpenedBy, ClosedBy
    <2> QED
        BY <1>4, <1>6, <2>4, <2>5 DEF AnsweredBy
<1>7. CASE r.op = "READ_N_FILES"
    <2> DEFINE a == Number(r.id, "SUCCESS", n)
               f == Files(r.id, "SUCCESS", paths)
    <2>1. a \in Response /\ a.status = "SUCCESS" /\ a.body = "number" /\ a.n = n
        BY <1>1, <1>3, NumberType
    <2>2. f \in Seq(Response) /\ Len(f) = n
        BY <1>1, <1>2, FilesType DEF n
    <2>3. w = <<a>> \o f \o <<last>>
        BY <1>7 DEF Answers, last, n
    <2> HIDE DEF a, f
    <2>4. w \in Seq(Response) /\ Len(w) = n + 2 /\ w[1] = a
        BY <1>4, <2>1, <2>2, <2>3, AnnouncedFiles
    <2>5. w # <<>>
        BY <1>3, <2>4, EmptySeq
    <2> QED
        BY <1>7, <2>1, <2>4, <2>5 DEF AnsweredBy
<1>8. CASE r.op = "WRITE_FILE" /\ paths # <<>>
    <2> DEFINE a == Number(r.id, "FILES_EXPELLED", n)
               f == Files(r.id, "FILES_EXPELLED", paths)
    <2>1. a \in Response /\ a.status = "FILES_EXPELLED" /\ a.body = "number" /\ a.n = n
        BY <1>1, <1>3, NumberType
    <2>2. /\ f \in Seq(Response) /\ Len(f) = n
          /\ \A i \in 1 .. n : f[i].path = paths[i]
        BY <1>1, <1>2, FilesType DEF n
    <2>3. w = <<a>> \o f \o <<last>>
        BY <1>8 DEF Answers, last, n
    <2> HIDE DEF a, f
    <2>4. /\ w \in Seq(Response) /\ Len(w) = n + 2 /\ w[1] = a /\ w[n + 2] = last
          /\ \A k \in 2 .. n + 1 : w[k] = f[k - 1]
        BY <1>4, <2>1, <2>2, <2>3, AnnouncedFiles
    <2>5. w # <<>>
        BY <1>3, <2>4, EmptySeq
    <2>6. PathsOf(w, 2, n + 1) = ToSet(paths)
        <3>1. \A k \in 2 .. n + 1 : w[k].path = paths[k - 1] /\ k - 1 \in 1 .. n
            BY <1>3, <2>2, <2>4
        <3>2. \A i \in 1 .. n : paths[i] = w[i + 1].path /\ i + 1 \in 2 .. n + 1
            BY <1>3, <2>2, <2>4
        <3> QED
            BY <1>3, <3>1, <3>2 DEF PathsOf
    <2>7. G = O \ ToSet(paths)
        BY <1>8 DEF OpenedBy, ClosedBy
    <2> QED
        BY <1>4, <1>8, <2>1, <2>4, <2>5, <2>6, <2>7 DEF AnsweredBy
<1>9. CASE /\ r.op \notin {"READ_FILE", "APPEND_TO_FILE", "READ_N_FILES"}
           /\ ~(r.op = "WRITE_FILE" /\ paths # <<>>)
    <2>1. w = <<last>>
        BY <1>9 DEF Answers, last
    <2>2. paths = <<>> /\ ToSet(<<>>) = {}
        BY <1>9 DEF WithFiles, ToSet
    <2>3. G = CASE r.op = "OPEN_FILE" -> O \cup {r.path}
                [] r.op = "REMOVE_FILE" -> O \ {r.path}
                [] OTHER -> O
        BY <2>2 DEF OpenedBy, ClosedBy
    <2> QED
        BY <1>4, <1>9, <2>1, <2>3 DEF AnsweredBy
<1> QED
    BY <1>5, <1>6, <1>7, <1>8, <1>9

\* What the server told this client about its files: which are open, and no word
\* of those it removed while it refused to write them.
Told == granted \cup dropped

LEMMA ToldAccount ==
    ASSUME NEW r, NEW paths, Account(r, paths)
    PROVE  Told' = (Told \cup OpenedBy(r)) \ ClosedBy(r, paths)
BY DEF Told, Account

-----------------------------------------------------------------------------
\* The inductive invariant: types.

\* The requests the calls of the program are named by.
CallOp == {"WRITE_FILE", "APPEND_TO_FILE", "READ_FILE", "READ_N_FILES",
           "LOCK_FILE", "UNLOCK_FILE", "REMOVE_FILE"}

\* In a call the client knows which one, and what it opens is a file.
CallKnown ==
    /\ pc \in {"opening", "answer", "files", "final"} =>
          call \in Call /\ call.op \in CallOp /\ call # NoCall
    /\ pc = "opening" => call.path \in Path

Opens(q) == \A i \in DOMAIN q : q[i].op = "OPEN_FILE" => q[i].path \in Path

Typed == TypeOK /\ CallKnown /\ Opens(requests)

LEMMA ResponseTaken ==
    ASSUME TypeOK, recv_response
    PROVE  /\ responses' \in Seq(Response)
           /\ Answer \in Response
<1>1. CASE responses = <<>>
    <2>1. StatusAtEnd("SUCCESS") \in {"SUCCESS", "FILES_EXPELLED", "FAILURE"}
        BY DEF StatusAtEnd
    <2> QED
        BY <1>1, <2>1, RespondType DEF TypeOK, recv_response, Answer, EndOfFile
<1>2. CASE responses # <<>>
    BY <1>2, HeadTailProperties DEF TypeOK, recv_response, Answer
<1> QED
    BY <1>1, <1>2

LEMMA RequestSent ==
    ASSUME Typed, NEW op \in RequestOp, NEW path \in Path \cup {NoPath},
           NEW flags \in SUBSET {"O_CREATE", "O_LOCK", "O_NOFLAG"}, NEW label \in Labels,
           send_request(op, path, flags, label), op = "OPEN_FILE" => path \in Path
    PROVE  /\ pc' \in {label, "dead"} /\ sent' \in Nat
           /\ requests' \in Seq(Request) /\ Opens(requests')
<1> DEFINE r == [id |-> sent + 1, op |-> op, path |-> path, flags |-> flags]
<1>1. CASE up
    <2>1. r \in Request /\ requests \in Seq(Request)
        BY DEF Typed, TypeOK, Request
    <2>2. requests' = Append(requests, r) /\ sent' = sent + 1 /\ pc' = label
        BY <1>1 DEF send_request
    <2>3. r.op = op /\ r.path = path
        OBVIOUS
    <2> HIDE DEF r
    <2>4. /\ DOMAIN requests' = DOMAIN requests \cup {Len(requests) + 1}
          /\ \A i \in DOMAIN requests : requests'[i] = requests[i]
          /\ requests'[Len(requests) + 1] = r
        BY <2>1, <2>2, AppendedElements
    <2>5. Opens(requests')
        BY <2>3, <2>4 DEF Opens, Typed
    <2> QED
        BY <2>1, <2>2, <2>5, AppendProperties DEF Typed, TypeOK
<1>2. CASE ~up
    BY <1>2 DEF send_request, Typed, TypeOK, Labels
<1> QED
    BY <1>1, <1>2

LEMMA ReturnTyped ==
    ASSUME Typed, NEW r \in {0, 1}, Return(r)
    PROVE  pc' = "idle" /\ result' \in {0, 1} /\ leftover' \in Call \cup {NoCall}
BY DEF Typed, TypeOK, Return

LEMMA TypedConnection ==
    ASSUME Typed, openConnection \/ HandshakeAnswered
    PROVE  Typed'
<1>1. CASE openConnection
    <2>1. /\ pc' \in {"handshake", "exit", "dead"} /\ sent' \in Nat
          /\ requests' \in Seq(Request) /\ Opens(requests')
        BY <1>1, RequestSent DEF openConnection, Labels, RequestOp, Typed, TypeOK
    <2> QED
        BY <1>1, <2>1 DEF openConnection, Typed, TypeOK, CallKnown, server, Labels
<1>2. CASE HandshakeAnswered
    <2>1. responses' \in Seq(Response)
        BY <1>2, ResponseTaken DEF HandshakeAnswered, Typed
    <2> QED
        BY <1>2, <2>1 DEF HandshakeAnswered, Typed, TypeOK, CallKnown, Opens, server, Labels
<1> QED
    BY <1>1, <1>2

LEMMA TypedAction ==
    ASSUME Typed, NEW c \in Calls, c.op \in CallOp,
           \/ ReturnAtOnce(c)
           \/ \E flags \in SUBSET {"O_CREATE", "O_LOCK", "O_NOFLAG"} : Begin(c, flags)
    PROVE  Typed'
<1>1. /\ c \in Call /\ c # NoCall /\ c.path \in Path \cup {NoPath}
      /\ c.op \in RequestOp /\ c.op # "OPEN_FILE"
    BY CallsAssumption DEF Call, CallOp
<1>2. CASE ReturnAtOnce(c)
    BY <1>1, <1>2, BoundsAssumption
    DEF ReturnAtOnce, Typed, TypeOK, CallKnown, Opens, server
<1>3. ASSUME NEW flags \in SUBSET {"O_CREATE", "O_LOCK", "O_NOFLAG"}, Begin(c, flags)
      PROVE  Typed'
    <2>1. /\ pc' \in {"opening", "answer", "dead"} /\ sent' \in Nat
          /\ requests' \in Seq(Request) /\ Opens(requests')
          /\ pc' = "opening" => c.path \in Path
        <3>1. CASE c.path = NoPath \/ IsOpened(c.path)
            <4>1. send_request(c.op, c.path, {}, "answer")
                BY <1>3, <3>1 DEF Begin
            <4> QED
                BY <1>1, <4>1, RequestSent DEF Labels
        <3>2. CASE ~(c.path = NoPath \/ IsOpened(c.path))
            <4>1. send_request("OPEN_FILE", c.path, flags, "opening") /\ c.path \in Path
                BY <1>1, <1>3, <3>2 DEF Begin
            <4> QED
                BY <1>1, <4>1, RequestSent DEF Labels, RequestOp
        <3> QED
            BY <3>1, <3>2
    <2>2. call' = c /\ calls' \in 0 .. MaxCalls
        BY <1>3, BoundsAssumption DEF Begin, Typed, TypeOK
    <2> QED
        BY <1>1, <1>3, <2>1, <2>2 DEF Begin, Typed, TypeOK, CallKnown, server, Labels
<1> QED
    BY <1>2, <1>3

\* The actions of the command line are calls of these forms.
LEMMA ActionForms ==
    ASSUME Typed, execute_action
    PROVE  \E c \in Calls : /\ c.op \in CallOp
                            /\ \/ ReturnAtOnce(c)
                               \/ \E flags \in SUBSET {"O_CREATE", "O_LOCK", "O_NOFLAG"} :
                                     Begin(c, flags)
<1>1. PICK c \in Calls : \/ writeFile(c) \/ appendToFile(c) \/ readFile(c)
                         \/ readNFiles(c) \/ lockFile(c) \/ unlockFile(c)
                         \/ removeFile(c)
    BY DEF execute_action
<1>2. c.op \in CallOp /\ (ReturnAtOnce(c) \/ Begin(c, {}) \/ Begin(c, {"O_NOFLAG"})
         \/ Begin(c, {"O_LOCK"}) \/ Begin(c, {"O_CREATE", "O_LOCK"}))
    BY <1>1 DEF writeFile, appendToFile, readFile, readNFiles, lockFile, unlockFile,
                removeFile, CallOp
<1> QED
    BY <1>2

LEMMA TypedOpen ==
    ASSUME Typed, openFile
    PROVE  Typed'
<1>1. responses' \in Seq(Response)
    BY ResponseTaken DEF openFile, Typed
<1>2. /\ call.path \in Path /\ call \in Call /\ call.op \in CallOp /\ call # NoCall
      /\ call' = call
    BY DEF openFile, Typed, CallKnown
<1>3. CASE Answer.status = "SUCCESS"
    <2>1. opened_files' \in Seq(Path)
        <3>1. opened_files' = Append(opened_files, call.path)
            BY <1>3 DEF openFile
        <3>2. opened_files \in Seq(Path)
            BY DEF Typed, TypeOK
        <3> QED
            BY <1>2, <3>1, <3>2, AppendProperties
    <2>2. send_request(call.op, call.path, {}, "answer")
        BY <1>3 DEF openFile
    <2>3. /\ pc' \in {"answer", "dead"} /\ sent' \in Nat
          /\ requests' \in Seq(Request) /\ Opens(requests')
        BY <1>2, <2>2, RequestSent DEF Labels, CallOp, RequestOp
    <2> QED
        BY <1>1, <1>2, <1>3, <2>1, <2>3
        DEF openFile, Typed, TypeOK, CallKnown, server, Labels
<1>4. CASE Answer.status # "SUCCESS"
    <2>1. Return(1) \/ Goto("dead")
        BY <1>4 DEF openFile, UseNoBuffer
    <2>2. UNCHANGED <<opened_files, sent, requests>>
        BY <1>4 DEF openFile
    <2>3. /\ pc' \in {"idle", "dead"} /\ result' \in {0, 1}
          /\ leftover' \in Call \cup {NoCall}
        BY <2>1, ReturnTyped DEF Goto, Typed, TypeOK
    <2> QED
        BY <1>1, <2>2, <2>3 DEF openFile, Typed, TypeOK, CallKnown, Opens, server, Labels
<1> QED
    BY <1>3, <1>4

\* What the calls do with the answer to their request.
AnswerTaken ==
    \/ WriteAnswered \/ AppendAnswered \/ ReadAnswered \/ ReadNAnswered
    \/ LockAnswered \/ UnlockAnswered \/ RemoveAnswered

LEMMA AnnouncedTyped ==
    ASSUME Typed, recv_response, Announced
    PROVE  /\ pc' \in {"dead", "files"} /\ how_many' \in Nat
           /\ UNCHANGED <<result, leftover>>
<1>1. CASE Answer.body = "none"
    BY <1>1 DEF Announced, Goto, Typed, TypeOK
<1>2. CASE Answer.body # "none"
    <2>1. Answer \in Response /\ Answer.n \in Nat
        BY ResponseTaken DEF Typed, Response
    <2>2. NumberIn(Answer.body) \subseteq Nat
        BY <2>1, BoundsAssumption DEF NumberIn
    <2> QED
        BY <1>2, <2>2 DEF Announced, Goto
<1> QED
    BY <1>1, <1>2

LEMMA StatusTyped ==
    ASSUME Typed, StatusOnly
    PROVE  /\ pc' = "idle" /\ result' \in {0, 1} /\ leftover' \in Call \cup {NoCall}
           /\ how_many' \in Nat /\ opened_files' \in Seq(Path)
<1>1. Return(IF Answer.status = "SUCCESS" THEN 0 ELSE 1)
    BY DEF StatusOnly, ReturnStatus
<1>2. (IF Answer.status = "SUCCESS" THEN 0 ELSE 1) \in {0, 1}
    OBVIOUS
<1> QED
    BY <1>1, <1>2, ReturnTyped DEF StatusOnly, Typed, TypeOK

LEMMA UnlistedTyped ==
    ASSUME Typed, NEW p
    PROVE  Unlisted(p) \in Seq(Path)
BY RemoveFirstProperties DEF Typed, TypeOK, Unlisted

LEMMA TypedAnswer ==
    ASSUME Typed, AnswerTaken
    PROVE  Typed'
<1>1. PICK op \in CallOp : Answered(op)
    BY DEF AnswerTaken, WriteAnswered, AppendAnswered, ReadAnswered, ReadNAnswered,
           LockAnswered, UnlockAnswered, RemoveAnswered, CallOp
<1>2. /\ pc = "answer" /\ recv_response
      /\ UNCHANGED <<call, calls, sent, requests, server>>
    BY <1>1 DEF Answered
<1>3. responses' \in Seq(Response)
    BY <1>2, ResponseTaken DEF Typed
<1>4. /\ pc' \in {"idle", "dead", "files"} /\ result' \in {0, 1}
      /\ leftover' \in Call \cup {NoCall}
      /\ how_many' \in Nat /\ opened_files' \in Seq(Path)
    <2>1. CASE StatusOnly
        BY <2>1, StatusTyped
    <2>2. CASE Announced /\ UNCHANGED opened_files
        BY <1>2, <2>2, AnnouncedTyped DEF Typed, TypeOK
    <2>3. CASE Return(1) /\ UNCHANGED <<how_many, opened_files>>
        BY <2>3, ReturnTyped DEF Typed, TypeOK
    <2>4. CASE Goto("dead") /\ UNCHANGED <<how_many, opened_files>>
        BY <2>4 DEF Goto, Typed, TypeOK
    <2>5. CASE RemoveAnswered
        <3>1. opened_files' \in Seq(Path)
            BY <2>5, UnlistedTyped DEF RemoveAnswered, Typed, TypeOK
        <3>2. Return(IF Answer.status = "SUCCESS" THEN 0 ELSE 1)
            BY <2>5 DEF RemoveAnswered, ReturnStatus
        <3>3. (IF Answer.status = "SUCCESS" THEN 0 ELSE 1) \in {0, 1}
            OBVIOUS
        <3> QED
            BY <2>5, <3>1, <3>2, <3>3, ReturnTyped DEF RemoveAnswered, Typed, TypeOK
    <2> QED
        BY <2>1, <2>2, <2>3, <2>4, <2>5
        DEF AnswerTaken, WriteAnswered, AppendAnswered, ReadAnswered, ReadNAnswered,
            LockAnswered, UnlockAnswered, UseNoBuffer
<1> QED
    BY <1>2, <1>3, <1>4 DEF Typed, TypeOK, CallKnown, Opens, server, Labels

LEMMA TypedFiles ==
    ASSUME Typed, ReceiveFile \/ FilesReceived \/ FinalAnswered
    PROVE  Typed'
<1>1. CASE ReceiveFile
    <2>1. responses' \in Seq(Response)
        BY <1>1, ResponseTaken DEF ReceiveFile, Typed
    <2>2. how_many' \in Nat
        BY <1>1 DEF ReceiveFile, MoreFiles, Typed, TypeOK
    <2>3. pc' \in {"files", "dead"} /\ opened_files' \in Seq(Path)
        BY <1>1, UnlistedTyped DEF ReceiveFile, Typed, TypeOK
    <2> QED
        BY <1>1, <2>1, <2>2, <2>3
        DEF ReceiveFile, Typed, TypeOK, CallKnown, Opens, server, Labels
<1>2. CASE FilesReceived
    <2>1. /\ pc' \in {"idle", "final"} /\ result' \in {0, 1}
          /\ leftover' \in Call \cup {NoCall}
        BY <1>2, ReturnTyped DEF FilesReceived, AfterFiles, Goto, Typed, TypeOK
    <2> QED
        BY <1>2, <2>1 DEF FilesReceived, Typed, TypeOK, CallKnown, Opens, server, Labels
<1>3. CASE FinalAnswered
    <2>1. responses' \in Seq(Response)
        BY <1>3, ResponseTaken DEF FinalAnswered, Typed
    <2>2. /\ pc' = "idle" /\ result' \in {0, 1} /\ leftover' \in Call \cup {NoCall}
          /\ how_many' \in Nat /\ opened_files' \in Seq(Path)
        BY <1>3, StatusTyped DEF FinalAnswered
    <2> QED
        BY <1>3, <2>1, <2>2
        DEF FinalAnswered, Typed, TypeOK, CallKnown, Opens, server, Labels
<1> QED
    BY <1>1, <1>2, <1>3

LEMMA TypedClose ==
    ASSUME Typed, closeConnection \/ closeFile
    PROVE  Typed'
<1>1. CASE closeFile
    <2>1. responses' \in Seq(Response)
        BY <1>1, ResponseTaken DEF closeFile, Typed
    <2> QED
        BY <1>1, <2>1 DEF closeFile, Typed, TypeOK, CallKnown, Opens, server, Labels
<1>2. CASE closeConnection
    <2>1. /\ pc' \in {"close_file", "exit", "dead"} /\ sent' \in Nat
          /\ requests' \in Seq(Request) /\ Opens(requests')
          /\ opened_files' \in Seq(Path)
        <3>1. CASE opened_files # <<>>
            <4>1. Head(opened_files) \in Path /\ Tail(opened_files) \in Seq(Path)
                BY <3>1, HeadTailProperties DEF Typed, TypeOK
            <4>2. send_request("CLOSE_FILE", Head(opened_files), {}, "close_file")
                BY <1>2, <3>1 DEF closeConnection
            <4> QED
                BY <1>2, <3>1, <4>1, <4>2, RequestSent DEF closeConnection, Labels, RequestOp
        <3>2. CASE opened_files = <<>>
            <4>1. send_request("CLOSE_CONNECTION", NoPath, {}, "exit")
                BY <1>2, <3>2 DEF closeConnection
            <4> QED
                BY <1>2, <3>2, <4>1, RequestSent
                DEF closeConnection, Labels, RequestOp, Typed, TypeOK
        <3> QED
            BY <3>1, <3>2
    <2> QED
        BY <1>2, <2>1 DEF closeConnection, Typed, TypeOK, CallKnown, server, Labels
<1> QED
    BY <1>1, <1>2

LEMMA RequestGone ==
    ASSUME Typed, requests # <<>>, requests' = Tail(requests)
    PROVE  Head(requests) = requests[1] /\ requests' \in Seq(Request) /\ Opens(requests')
<1>1. requests \in Seq(Request)
    BY DEF Typed, TypeOK
<1>2. Head(requests) = requests[1] /\ requests' \in Seq(Request)
    BY <1>1, HeadTailProperties, NonEmptyHead
<1>3. DOMAIN requests' = 1 .. (Len(requests) - 1) /\ DOMAIN requests = 1 .. Len(requests)
      /\ Len(requests) \in Nat
      /\ \A i \in 1 .. (Len(requests) - 1) : requests'[i] = requests[i + 1]
    BY <1>1, <1>2, HeadTailProperties, LenProperties
<1>4. \A i \in DOMAIN requests' : i + 1 \in DOMAIN requests /\ requests'[i] = requests[i + 1]
    BY <1>3
<1>5. Opens(requests')
    BY <1>4 DEF Opens, Typed
<1> QED
    BY <1>2, <1>5

LEMMA RequestReceived ==
    ASSUME Typed, Received
    PROVE  /\ Head(requests) \in Request /\ Head(requests) = requests[1]
           /\ Head(requests).op = "OPEN_FILE" => Head(requests).path \in Path
           /\ requests' \in Seq(Request) /\ Opens(requests')
<1>1. requests \in Seq(Request) /\ requests # <<>>
    BY DEF Typed, TypeOK, Received
<1>2. /\ Head(requests) = requests[1] /\ requests' = Tail(requests)
      /\ requests' \in Seq(Request) /\ Opens(requests')
    BY <1>1, RequestGone DEF Received
<1>3. 1 \in DOMAIN requests
    BY <1>1, NonEmptyHead
<1> QED
    BY <1>1, <1>2, <1>3, HeadTailProperties DEF Opens, Typed

\* A request that is carried out, or answered as if it were.
LEMMA CarriedOut ==
    ASSUME Typed, CarryOut \/ RemoveNothing
    PROVE  LET r == Head(requests) IN
           /\ Received /\ work' \in Seq(Response)
           /\ AnsweredBy(work', r.op, r.path, Told, Told')
           /\ {granted', dropped'} \subseteq SUBSET Path
           /\ r.id \in Nat /\ {done', unremoved'} \subseteq SUBSET Nat
           /\ r.id \in done' \/ (r.op = "REMOVE_FILE" /\ r.id \in unremoved')
           /\ UNCHANGED <<awaiting, stuck>>
<1> DEFINE r == Head(requests)
<1>1. Received /\ r \in Request /\ (r.op = "OPEN_FILE" => r.path \in Path)
    BY RequestReceived DEF CarryOut, RemoveNothing, Serving
<1> HIDE DEF r
<1>2. PICK paths \in (IF r.op \in WithFiles THEN PathLists(r.path) ELSE {<<>>}) :
         work' \in Answers(r, paths) /\ Account(r, paths)
    <2>1. CASE CarryOut
        BY <2>1 DEF CarryOut, r, WithFiles
    <2>2. CASE RemoveNothing
        BY <2>2 DEF RemoveNothing, r, WithFiles
    <2> QED
        BY <2>1, <2>2
<1>3. work' \in Seq(Response) /\ AnsweredBy(work', r.op, r.path, Told, Told')
    <2>1. Told' = (Told \cup OpenedBy(r)) \ ClosedBy(r, paths)
        BY <1>2, ToldAccount
    <2> QED
        BY <1>1, <1>2, <2>1, AnswerShape
<1>4. {granted', dropped'} \subseteq SUBSET Path
    BY <1>1, <1>2 DEF Account, OpenedBy, Typed, TypeOK
<1>5. /\ r.id \in Nat /\ {done', unremoved'} \subseteq SUBSET Nat
      /\ r.id \in done' \/ (r.op = "REMOVE_FILE" /\ r.id \in unremoved')
      /\ UNCHANGED <<awaiting, stuck>>
    BY <1>1 DEF CarryOut, RemoveNothing, Serving, r, Request, Typed, TypeOK
<1> QED
    BY <1>1, <1>3, <1>4, <1>5 DEF r

\* One that is refused, which the client is told and nothing else.
LEMMA Refused ==
    ASSUME Typed, Refuse \/ RefuseTooBig
    PROVE  LET r == Head(requests) IN
           /\ Received /\ work' \in Seq(Response)
           /\ RefusedBy(work', r.op, Told, Told')
           /\ {granted', dropped'} \subseteq SUBSET Path
           /\ UNCHANGED <<awaiting, done, unremoved, stuck>>
<1>1. /\ Received /\ Head(requests) \in Request /\ work' \in Refusals(Head(requests))
      /\ UNCHANGED <<awaiting, done, unremoved, stuck>>
    BY RequestReceived DEF Refuse, RefuseTooBig, Serving
<1>2. Told' = Told /\ {granted', dropped'} \subseteq SUBSET Path
    BY DEF Refuse, RefuseTooBig, Told, Typed, TypeOK
<1> QED
    BY <1>1, <1>2, RefusalShape

\* An append of which the first half is answered.
LEMMA HalfAnswered ==
    ASSUME Typed, AppendStalls
    PROVE  LET r == Head(requests) IN
           /\ Received /\ work' \in Seq(Response) /\ r.id \in Nat
           /\ \/ RefusedBy(work', r.op, Told, Told') /\ UNCHANGED done
              \/ AnsweredBy(work', r.op, r.path, Told, Told') /\ done' = done \cup {r.id}
           /\ UNCHANGED <<awaiting, unremoved, granted, dropped>> /\ stuck'
<1> DEFINE r == Head(requests)
<1>1. /\ Received /\ r \in Request /\ r.op = "APPEND_TO_FILE" /\ stuck'
      /\ UNCHANGED <<awaiting, unremoved, granted, dropped>>
    BY RequestReceived DEF AppendStalls
<1>2. Told' = Told
    BY <1>1 DEF Told
<1>3. /\ r.id \in Nat
      /\ Respond(r.id, "SUCCESS", r.path) \in Response
      /\ Respond(r.id, "SUCCESS", r.path).status = "SUCCESS"
      /\ Respond(r.id, "FAILURE", r.path) \in Response
      /\ Respond(r.id, "FAILURE", r.path).status = "FAILURE"
    BY <1>1, RespondType DEF Request
<1>4. CASE work' = <<Respond(r.id, "SUCCESS", r.path)>> /\ done' = done \cup {r.id}
    BY <1>1, <1>2, <1>3, <1>4 DEF AnsweredBy
<1>5. CASE work' = <<Respond(r.id, "FAILURE", r.path)>> /\ UNCHANGED done
    BY <1>1, <1>2, <1>3, <1>5 DEF RefusedBy
<1> QED
    BY <1>1, <1>3, <1>4, <1>5 DEF AppendStalls

LEMMA TypedWorker ==
    ASSUME Typed, worker_thread \/ AppendStalls
    PROVE  Typed'
<1>1. ASSUME Received
      PROVE  /\ Head(requests) \in Request /\ requests' \in Seq(Request) /\ Opens(requests')
             /\ UNCHANGED <<client, sent, responses, up>>
    BY <1>1, RequestReceived DEF Received
<1>2. CASE Refuse \/ RefuseTooBig
    BY <1>1, <1>2, Refused DEF Typed, TypeOK, CallKnown, client
<1>3. CASE CarryOut \/ RemoveNothing
    BY <1>1, <1>3, CarriedOut DEF Typed, TypeOK, CallKnown, client
<1>4. CASE Await
    <2>1. awaiting' \in SUBSET Response /\ Received /\ UNCHANGED stuck
        BY <1>1, <1>4, RespondType DEF Await, Serving, Request, Typed, TypeOK
    <2> QED
        BY <1>1, <1>4, <2>1 DEF Await, Typed, TypeOK, CallKnown, client
<1>5. CASE Disconnect
    BY <1>1, <1>5 DEF Disconnect, Serving, Typed, TypeOK, CallKnown, client
<1>6. CASE send_response
    <2>1. work \in Seq(Response) /\ work # <<>> /\ responses \in Seq(Response)
        BY <1>6 DEF send_response, Typed, TypeOK
    <2>2. Head(work) \in Response /\ work' \in Seq(Response)
        BY <1>6, <2>1, HeadTailProperties DEF send_response
    <2>3. responses' \in Seq(Response)
        BY <1>6, <2>1, <2>2, AppendProperties DEF send_response
    <2> QED
        BY <1>6, <2>2, <2>3 DEF send_response, Typed, TypeOK, CallKnown, Opens, client
<1>7. CASE AppendStalls
    <2>1. done' \in SUBSET Nat /\ stuck' \in BOOLEAN
        BY <1>7, HalfAnswered DEF AppendStalls, Typed, TypeOK
    <2> QED
        BY <1>1, <1>7, <2>1, HalfAnswered DEF Typed, TypeOK, CallKnown, client
<1> QED
    BY <1>2, <1>3, <1>4, <1>5, <1>6, <1>7 DEF worker_thread

LEMMA TypedLate ==
    ASSUME Typed, lock_manager_thread \/ Stall \/ Exit
    PROVE  Typed'
<1>1. CASE lock_manager_thread
    <2>1. PICK m \in awaiting : /\ responses' = Append(responses, m)
                                /\ done' = done \cup {m.id}
                                /\ awaiting' = awaiting \ {m}
        BY <1>1 DEF lock_manager_thread
    <2>2. m \in Response /\ m.id \in Nat
        BY DEF Typed, TypeOK, Response
    <2>3. responses' \in Seq(Response)
        BY <2>1, <2>2, AppendProperties DEF Typed, TypeOK
    <2> QED
        BY <1>1, <2>1, <2>2, <2>3
        DEF lock_manager_thread, Typed, TypeOK, CallKnown, Opens, client
<1>2. CASE Exit
    <2>1. responses' \in Seq(Response)
        <3>1. CASE responses' = responses
            BY <3>1 DEF Typed, TypeOK
        <3>2. CASE work # <<>> /\ responses' = Append(responses,
                     Respond(Head(work).id, StatusAtEnd(Head(work).status), NoPath))
            <4>1. Head(work) \in Response
                BY <3>2, HeadTailProperties DEF Typed, TypeOK
            <4>2. /\ Head(work).id \in Nat
                  /\ StatusAtEnd(Head(work).status) \in {"SUCCESS", "FILES_EXPELLED", "FAILURE"}
                BY <4>1 DEF Response, StatusAtEnd
            <4>3. Respond(Head(work).id, StatusAtEnd(Head(work).status), NoPath) \in Response
                BY <4>2, RespondType
            <4> QED
                BY <3>2, <4>3, AppendProperties DEF Typed, TypeOK
        <3> QED
            BY <1>2, <3>1, <3>2 DEF Exit
    <2>2. work' = <<>> /\ awaiting' = {} /\ up' = FALSE
        BY <1>2 DEF Exit
    <2>3. requests' \in Seq(Request) /\ Opens(requests')
        BY <1>2, RequestGone DEF Exit, Unread, Typed, TypeOK
    <2> QED
        BY <1>2, <2>1, <2>2, <2>3, EmptySeq DEF Exit, Typed, TypeOK, CallKnown, client
<1>3. CASE Stall
    BY <1>3 DEF Stall, Typed, TypeOK, CallKnown, Opens, client
<1> QED
    BY <1>1, <1>2, <1>3

\* The steps the server takes leave the client alone, and need a server.
ServerSteps == worker_thread \/ lock_manager_thread \/ Stall \/ AppendStalls \/ Exit

LEMMA ServersOnly ==
    ASSUME ServerSteps
    PROVE  up /\ UNCHANGED <<client, sent>> /\ (Exit \/ UNCHANGED up)
BY DEF ServerSteps, worker_thread, Refuse, RefuseTooBig, CarryOut, RemoveNothing, Await,
       Disconnect, Serving, Received, send_response, lock_manager_thread, Stall,
       AppendStalls, Exit

LEMMA TypedInit ==
    ASSUME Init
    PROVE  Typed
<1>1. \A T : <<>> \in Seq(T) /\ DOMAIN <<>> = {}
    BY EmptySeq
<1>2. CallKnown /\ Opens(requests)
    BY <1>1 DEF Init, CallKnown, Opens
<1>3. /\ {up, stuck} \subseteq BOOLEAN /\ {done, unremoved} \subseteq SUBSET Nat
      /\ {granted, dropped} \subseteq SUBSET Path /\ awaiting \in SUBSET Response
    BY DEF Init
<1> QED
    BY <1>1, <1>2, <1>3, BoundsAssumption DEF Init, Typed, TypeOK, Labels

LEMMA TypedStep ==
    ASSUME Typed, [Next]_vars
    PROVE  Typed'
<1>1. CASE execute_action
    BY <1>1, ActionForms, TypedAction
<1>2. CASE UNCHANGED vars
    BY <1>2 DEF vars, client, server, Typed, TypeOK, CallKnown, Opens
<1> QED
    BY <1>1, <1>2, TypedConnection, TypedOpen, TypedAnswer, TypedFiles, TypedClose,
       TypedWorker, TypedLate
    DEF Next, main, AnswerTaken

\* The type invariant: what the client and the server leave in their variables
\* has its type, whatever calls the program makes and whenever the server ends.
THEOREM TypeCorrect == Spec => []TypeOK
<1>1. Init => Typed
    BY TypedInit
<1>2. Typed /\ [Next]_vars => Typed'
    BY TypedStep
<1>3. Typed => TypeOK
    BY DEF Typed
<1> QED
    BY <1>1, <1>2, <1>3, PTL DEF Spec

-----------------------------------------------------------------------------
\* The inductive invariant: the list of the api.

\* No file is listed twice, and the one that is being opened is not listed.
Listed ==
    /\ IsInjective(opened_files)
    /\ pc = "opening" => call.path \notin ToSet(opened_files)

LEMMA AppendedOnce ==
    ASSUME NEW T, NEW q \in Seq(T), NEW e \in T
    PROVE  /\ ToSet(Append(q, e)) = ToSet(q) \cup {e}
           /\ IsInjective(q) /\ e \notin ToSet(q) => IsInjective(Append(q, e))
<1> DEFINE a == Append(q, e)
           n == Len(q) + 1
<1>1. /\ DOMAIN a = DOMAIN q \cup {n} /\ n \notin DOMAIN q
      /\ \A i \in DOMAIN q : a[i] = q[i]
      /\ a[n] = e
    BY AppendedElements
<1> HIDE DEF a, n
<1>2. ToSet(a) = {a[i] : i \in DOMAIN a} /\ ToSet(q) = {q[i] : i \in DOMAIN q}
    BY DEF ToSet
<1>3. ToSet(a) = ToSet(q) \cup {e}
    BY <1>1, <1>2
<1>4. IsInjective(q) /\ e \notin ToSet(q) => IsInjective(a)
    BY <1>1, <1>2 DEF IsInjective
<1> QED
    BY <1>3, <1>4 DEF a

LEMMA TailOnce ==
    ASSUME NEW T, NEW q \in Seq(T), q # <<>>, IsInjective(q)
    PROVE  IsInjective(Tail(q))
BY TailElements DEF IsInjective

LEMMA UnlistedOnce ==
    ASSUME Typed, Listed, NEW p
    PROVE  ToSet(Unlisted(p)) = ToSet(opened_files) \ {p} /\ IsInjective(Unlisted(p))
BY RemoveFirstInjective DEF Typed, TypeOK, Unlisted, Listed

LEMMA ListedInit ==
    ASSUME Init
    PROVE  Listed
<1>1. DOMAIN <<>> = {}
    BY EmptySeq
<1> QED
    BY <1>1 DEF Init, Listed, IsInjective

LEMMA ListedStep ==
    ASSUME Typed, Listed, [Next]_vars
    PROVE  Listed'
<1>1. CASE execute_action
    <2>1. PICK c \in Calls : \/ ReturnAtOnce(c)
                             \/ \E flags \in SUBSET {"O_CREATE", "O_LOCK", "O_NOFLAG"} :
                                   Begin(c, flags)
        BY <1>1, ActionForms
    <2>2. UNCHANGED opened_files
        BY <2>1 DEF ReturnAtOnce, Begin
    <2>3. pc' = "opening" => call' = c /\ ~IsOpened(c.path)
        BY <2>1 DEF ReturnAtOnce, Begin, send_request
    <2> QED
        BY <2>2, <2>3 DEF Listed, IsOpened, ToSet
<1>2. CASE openFile
    <2>1. pc' # "opening"
        BY <1>2 DEF openFile, send_request, Return, UseNoBuffer, Goto
    <2>2. CASE Answer.status = "SUCCESS"
        <3>1. opened_files' = Append(opened_files, call.path)
            BY <1>2, <2>2 DEF openFile
        <3>2. call.path \in Path /\ opened_files \in Seq(Path)
            BY <1>2 DEF openFile, Typed, TypeOK, CallKnown
        <3>3. call.path \notin ToSet(opened_files)
            BY <1>2 DEF openFile, Listed
        <3> QED
            BY <2>1, <3>1, <3>2, <3>3, AppendedOnce DEF Listed
    <2>3. CASE Answer.status # "SUCCESS"
        BY <1>2, <2>1, <2>3 DEF openFile, Listed
    <2> QED
        BY <2>2, <2>3
<1>3. CASE RemoveAnswered
    BY <1>3, UnlistedOnce DEF RemoveAnswered, ReturnStatus, Return, Listed
<1>4. CASE ReceiveFile
    BY <1>4, UnlistedOnce DEF ReceiveFile, Listed
<1>5. CASE closeConnection
    <2>1. pc' # "opening"
        BY <1>5 DEF closeConnection, send_request
    <2>2. opened_files \in Seq(Path)
        BY DEF Typed, TypeOK
    <2> QED
        BY <1>5, <2>1, <2>2, TailOnce DEF closeConnection, Listed
<1>6. CASE openConnection \/ HandshakeAnswered \/ FilesReceived \/ FinalAnswered \/ closeFile
    BY <1>6 DEF openConnection, HandshakeAnswered, FilesReceived, FinalAnswered, closeFile,
                send_request, AfterFiles, StatusOnly, ReturnStatus, Return, Goto, Listed
<1>7. CASE WriteAnswered \/ AppendAnswered \/ ReadAnswered \/ ReadNAnswered
           \/ LockAnswered \/ UnlockAnswered
    BY <1>7 DEF WriteAnswered, AppendAnswered, ReadAnswered, ReadNAnswered, LockAnswered,
                UnlockAnswered, Announced, StatusOnly, ReturnStatus, Return, UseNoBuffer, Goto,
                Listed
<1>8. CASE ServerSteps \/ UNCHANGED vars
    <2>1. UNCHANGED client
        BY <1>8, ServersOnly DEF vars
    <2> QED
        BY <2>1 DEF client, Listed
<1> QED
    BY <1>1, <1>2, <1>3, <1>4, <1>5, <1>6, <1>7, <1>8 DEF Next, main, ServerSteps

-----------------------------------------------------------------------------
\* The stream to the client.

\* What is on its way, or will be as the worker goes on.
Stream == responses \o work

LEMMA StreamParts ==
    ASSUME Typed
    PROVE  /\ Stream \in Seq(Response) /\ Len(Stream) \in Nat
           /\ Len(responses) \in Nat /\ Len(work) \in Nat
           /\ Len(Stream) = Len(responses) + Len(work)
           /\ Stream = <<>> => Len(Stream) = 0
           /\ Stream = <<>> <=> responses = <<>> /\ work = <<>>
           /\ responses # <<>> => Stream[1] = responses[1] /\ Len(responses) > 0
           /\ work # <<>> => Len(work) > 0
           /\ responses = <<>> => Len(responses) = 0 /\ Stream = work
           /\ work = <<>> => Len(work) = 0 /\ Stream = responses
<1>1. responses \in Seq(Response) /\ work \in Seq(Response)
    BY DEF Typed, TypeOK
<1>2. /\ Stream \in Seq(Response) /\ Len(Stream) = Len(responses) + Len(work)
      /\ \A i \in 1 .. Len(responses) + Len(work) :
            Stream[i] = IF i <= Len(responses) THEN responses[i]
                                               ELSE work[i - Len(responses)]
    BY <1>1, ConcatProperties DEF Stream
<1>3. Len(responses) \in Nat /\ Len(work) \in Nat /\ Len(Stream) \in Nat
    BY <1>1, <1>2, LenProperties
<1>4. /\ responses # <<>> => Len(responses) > 0
      /\ work # <<>> => Len(work) > 0
      /\ Stream # <<>> => Len(Stream) > 0
      /\ Len(<<>>) = 0
    BY <1>1, <1>2, EmptySeq
<1>5. Stream = <<>> <=> responses = <<>> /\ work = <<>>
    BY <1>2, <1>3, <1>4
<1>6. responses # <<>> => Stream[1] = responses[1]
    BY <1>2, <1>3, <1>4
<1>7. /\ responses = <<>> => Stream = work
      /\ work = <<>> => Stream = responses
    BY <1>1, ConcatEmptySeq DEF Stream
<1> QED
    BY <1>2, <1>3, <1>4, <1>5, <1>6, <1>7

\* The worker moves a response from one part of the stream to the other.
LEMMA StreamSent ==
    ASSUME Typed, send_response
    PROVE  Stream' = Stream
<1>1. responses \in Seq(Response) /\ work \in Seq(Response) /\ work # <<>>
    BY DEF Typed, TypeOK, send_response
<1>2. Head(work) \in Response /\ Tail(work) \in Seq(Response)
    BY <1>1, HeadTailProperties
<1>3. work = <<Head(work)>> \o Tail(work)
    BY <1>1, <1>2
<1>4. Append(responses, Head(work)) = responses \o <<Head(work)>>
    BY <1>1, <1>2
<1>5. <<Head(work)>> \in Seq(Response)
    BY <1>2
<1>6. responses \o (<<Head(work)>> \o Tail(work)) = (responses \o <<Head(work)>>) \o Tail(work)
    BY <1>1, <1>2, <1>5, ConcatAssociative
<1> QED
    BY <1>3, <1>4, <1>6 DEF Stream, send_response

\* What recv_response takes is the first of the stream, when there is a server.
LEMMA StreamTaken ==
    ASSUME Typed, Typed', recv_response, up, UNCHANGED work
    PROVE  /\ Stream # <<>> /\ Answer = Stream[1] /\ Stream' \in Seq(Response)
           /\ Len(Stream) \in Nat /\ Len(Stream') = Len(Stream) - 1
           /\ \A i \in 1 .. (Len(Stream) - 1) : Stream'[i] = Stream[i + 1]
           /\ Stream' = <<>> <=> Len(Stream) = 1
           /\ Stream' = <<>> <=> responses' = <<>> /\ work = <<>>
<1>1. responses # <<>> /\ responses' = Tail(responses) /\ Answer = Head(responses)
    BY DEF recv_response, Answer
<1>2. responses \in Seq(Response) /\ work \in Seq(Response)
    BY DEF Typed, TypeOK
<1>3. /\ Head(responses) = responses[1] /\ Len(responses') = Len(responses) - 1
      /\ responses' \in Seq(Response)
      /\ \A i \in 1 .. (Len(responses) - 1) : responses'[i] = responses[i + 1]
    BY <1>1, <1>2, NonEmptyHead, HeadTailProperties
<1>4. /\ \A i \in 1 .. Len(responses) + Len(work) :
            Stream[i] = IF i <= Len(responses) THEN responses[i]
                                               ELSE work[i - Len(responses)]
      /\ Stream' \in Seq(Response) /\ Len(Stream') = Len(responses') + Len(work)
      /\ \A i \in 1 .. Len(responses') + Len(work) :
            Stream'[i] = IF i <= Len(responses') THEN responses'[i]
                                                 ELSE work[i - Len(responses')]
    BY <1>2, <1>3, ConcatProperties DEF Stream
<1>5. /\ Len(responses) \in Nat /\ Len(work) \in Nat /\ Len(responses) > 0
      /\ Len(Stream) = Len(responses) + Len(work) /\ Stream # <<>>
      /\ Stream[1] = responses[1]
    BY <1>1, StreamParts
<1>6. ASSUME NEW i \in 1 .. (Len(Stream) - 1)
      PROVE  Stream'[i] = Stream[i + 1]
    <2>1. CASE i <= Len(responses) - 1
        BY <1>3, <1>4, <1>5, <2>1
    <2>2. CASE ~(i <= Len(responses) - 1)
        <3>1. i - Len(responses') = (i + 1) - Len(responses)
            BY <1>3, <1>5
        <3> QED
            BY <1>3, <1>4, <1>5, <2>2, <3>1
    <2> QED
        BY <2>1, <2>2
<1>7. /\ Stream' = <<>> <=> Len(Stream') = 0
      /\ Stream' = <<>> <=> responses' = <<>> /\ work = <<>>
    BY <1>2, <1>3, <1>4, EmptySeq, ConcatEqualIffEmpty DEF Stream
<1> QED
    BY <1>1, <1>3, <1>4, <1>5, <1>6, <1>7

-----------------------------------------------------------------------------
\* The inductive invariant: the conversation.

Opened == ToSet(opened_files)
Agree == Told = Opened

Silence == requests = <<>> /\ Stream = <<>> /\ awaiting = {}

\* The request whose first response the client waits for.
Asking == pc \in {"handshake", "opening", "answer"}
AskedOp == CASE pc = "handshake" -> "OPEN_CONNECTION"
             [] pc = "opening" -> "OPEN_FILE"
             [] OTHER -> call.op
AskedPath == IF pc = "handshake" THEN NoPath ELSE call.path

\* It is on its way to the server;
Unserved ==
    /\ Len(requests) = 1 /\ requests[1].id = sent
    /\ requests[1].op = AskedOp /\ requests[1].path = AskedPath
    /\ Stream = <<>> /\ awaiting = {} /\ Agree

\* or it waits for the lock;
Waits ==
    /\ requests = <<>> /\ Stream = <<>> /\ Agree
    /\ AskedOp = "LOCK_FILE"
    /\ \E p \in Path \cup {NoPath} : awaiting = {Respond(sent, "SUCCESS", p)}

\* Request id, to op, was carried out, or is a removal that was not.
Finished(id, op) == id \in done \/ (op = "REMOVE_FILE" /\ id \in unremoved)

\* or it was refused, or answered as one that was carried out.
Served ==
    /\ requests = <<>> /\ awaiting = {}
    /\ \/ RefusedBy(Stream, AskedOp, Opened, Told)
       \/ /\ Finished(sent, AskedOp)
          /\ AnsweredBy(Stream, AskedOp, AskedPath, Opened, Told)

\* The files that were announced are to come, and the last response.
Receiving ==
    /\ requests = <<>> /\ awaiting = {} /\ sent \in done
    /\ call.op \in WithFiles
    /\ Len(Stream) = how_many + 1
    /\ call.op = "WRITE_FILE" =>
          /\ Stream[how_many + 1].status = "SUCCESS"
          /\ Told = Opened \ PathsOf(Stream, 1, how_many)

\* The last response is to come.
Finishing ==
    /\ requests = <<>> /\ awaiting = {} /\ sent \in done /\ Agree
    /\ Len(Stream) = 1 /\ Stream[1].status = "SUCCESS"

Conversation ==
    /\ pc \in {"start", "idle"} => Silence /\ Agree
    /\ pc = "idle" /\ result = 0 => Finished(sent, call.op)
    /\ Asking => Unserved \/ Waits \/ Served
    /\ pc = "files" => Receiving
    /\ pc = "final" => Finishing

\* The calls that may leave answers behind.
Exempt(c) == c.op \in {"APPEND_TO_FILE", "READ_N_FILES"} \/ c.dir = "unusable"

\* When the server is gone, what it has sent is no more than the call will take.
Remains ==
    ~Exempt(call) =>
        /\ pc \in {"opening", "final"} => Len(responses) <= 1
        /\ pc = "answer" /\ Len(responses) > 1 =>
              /\ call.op = "WRITE_FILE" /\ responses[1].status = "FILES_EXPELLED"
              /\ \/ responses[1].body = "none"
                 \/ /\ responses[1].body = "number"
                    /\ Len(responses) <= responses[1].n + 2
        /\ pc = "files" => Len(responses) <= how_many + 1

InConversation ==
    leftover = NoCall => IF up THEN Conversation ELSE work = <<>> /\ Remains

InStepInv == Typed /\ Listed /\ AnswersTaken /\ InConversation

\* A call that returns has taken its answers or has left some behind.
LEMMA Returned ==
    ASSUME Typed, leftover = NoCall, pc \in {"opening", "answer", "files", "final"},
           NEW r, Return(r), UNCHANGED work
    PROVE  /\ pc' = "idle" /\ result' = r
           /\ leftover' = NoCall => responses' = <<>> /\ (up => Stream' = <<>> /\ requests = <<>>)
           /\ leftover' # NoCall => leftover' = call
           /\ responses' = <<>> /\ (up => work = <<>> /\ requests = <<>>) => leftover' = NoCall
<1>1. call # NoCall
    BY DEF Typed, CallKnown
<1>2. <<>> \o <<>> = <<>>
    BY EmptySeq, ConcatEmptySeq
<1>3. NothingToCome => responses' = <<>> /\ (up => Stream' = <<>> /\ requests = <<>>)
    BY <1>2 DEF NothingToCome, Stream
<1> QED
    BY <1>1, <1>3 DEF Return, NothingToCome

\* A request sent when all is silent.
LEMMA Asked ==
    ASSUME Typed, up, Silence, Agree, NEW op, NEW path, NEW flags, NEW label,
           send_request(op, path, flags, label),
           UNCHANGED <<responses, server, opened_files>>
    PROVE  /\ Len(requests') = 1 /\ requests'[1].id = sent'
           /\ requests'[1].op = op /\ requests'[1].path = path
           /\ Stream' = <<>> /\ awaiting' = {} /\ Agree' /\ pc' = label
<1>1. requests' = <<[id |-> sent + 1, op |-> op, path |-> path, flags |-> flags]>>
    BY DEF send_request, Silence
<1>2. Stream' = <<>>
    BY DEF Silence, Stream, server
<1> QED
    BY <1>1, <1>2 DEF send_request, Silence, Agree, Told, Opened, server

LEMMA ConversationConnection ==
    ASSUME Typed, up, Conversation, openConnection
    PROVE  Conversation' /\ UNCHANGED <<up, leftover>>
<1>1. CASE pc' = "exit"
    BY <1>1 DEF openConnection, Conversation, Asking, server
<1>2. CASE send_request("OPEN_CONNECTION", NoPath, {}, "handshake")
    <2>1. Unserved' /\ pc' = "handshake"
        BY <1>2, Asked DEF openConnection, Conversation, Unserved, AskedOp, AskedPath
    <2> QED
        BY <2>1 DEF openConnection, Conversation, server
<1> QED
    BY <1>1, <1>2 DEF openConnection

LEMMA ConversationAction ==
    ASSUME Typed, up, Conversation, execute_action
    PROVE  Conversation' /\ UNCHANGED <<up, leftover>>
<1>1. PICK c \in Calls : \/ ReturnAtOnce(c)
                         \/ \E flags \in SUBSET {"O_CREATE", "O_LOCK", "O_NOFLAG"} :
                               Begin(c, flags)
    BY ActionForms
<1>2. CASE ReturnAtOnce(c)
    <2>1. Stream' = Stream /\ pc' = "idle" /\ result' = 1
        BY <1>2 DEF ReturnAtOnce, Stream, server
    <2> QED
        BY <1>2, <2>1 DEF ReturnAtOnce, Conversation, Silence, Agree, Told, Opened, Asking, server
<1>3. ASSUME NEW flags \in SUBSET {"O_CREATE", "O_LOCK", "O_NOFLAG"}, Begin(c, flags)
      PROVE  Conversation' /\ UNCHANGED <<up, leftover>>
    <2>1. pc = "idle" /\ call' = c /\ UNCHANGED <<responses, server, opened_files, leftover>>
        BY <1>3 DEF Begin
    <2>2. Silence /\ Agree
        BY <2>1 DEF Conversation
    <2>3. \/ send_request(c.op, c.path, {}, "answer")
          \/ send_request("OPEN_FILE", c.path, flags, "opening")
        BY <1>3 DEF Begin
    <2>4. CASE send_request(c.op, c.path, {}, "answer")
        <3>1. Unserved' /\ pc' = "answer"
            BY <2>1, <2>2, <2>4, Asked DEF Unserved, AskedOp, AskedPath
        <3> QED
            BY <2>1, <3>1 DEF Conversation, server
    <2>5. CASE send_request("OPEN_FILE", c.path, flags, "opening")
        <3>1. Unserved' /\ pc' = "opening"
            BY <2>1, <2>2, <2>5, Asked DEF Unserved, AskedOp, AskedPath
        <3> QED
            BY <2>1, <3>1 DEF Conversation, server
    <2> QED
        BY <2>3, <2>4, <2>5
<1> QED
    BY <1>1, <1>2, <1>3

\* The answer to the request: it was refused or carried out.
LEMMA AnswerServed ==
    ASSUME Typed, Typed', up, Conversation, Asking, recv_response, UNCHANGED work
    PROVE  Served /\ Answer = Stream[1]
BY StreamTaken DEF Conversation, Unserved, Waits

LEMMA ConversationHandshake ==
    ASSUME Typed, Typed', up, Conversation, HandshakeAnswered
    PROVE  Conversation' /\ UNCHANGED <<up, leftover>>
<1>1. /\ pc = "handshake" /\ recv_response /\ UNCHANGED work
      /\ UNCHANGED <<result, opened_files, sent, requests, awaiting, up, done, unremoved, Told, leftover>>
    BY DEF HandshakeAnswered, server, Told
<1>2. Served /\ Answer = Stream[1] /\ AskedOp = "OPEN_CONNECTION"
    BY <1>1, AnswerServed DEF Asking, AskedOp
<1>3. CASE Answer.status = "SUCCESS"
    <2>1. pc' = "idle"
        BY <1>3 DEF HandshakeAnswered
    <2>2. sent \in done /\ Len(Stream) = 1 /\ Told = Opened
        BY <1>2, <1>3 DEF Served, Finished, RefusedBy, AnsweredBy
    <2>3. Silence' /\ Agree'
        BY <1>1, <1>2, <2>2, StreamTaken DEF Silence, Agree, Opened, Served
    <2> QED
        BY <1>1, <2>1, <2>2, <2>3 DEF Conversation, Asking, Finished
<1>4. CASE Answer.status # "SUCCESS"
    <2>1. pc' = "exit"
        BY <1>4 DEF HandshakeAnswered
    <2> QED
        BY <1>1, <2>1 DEF Conversation, Asking
<1> QED
    BY <1>3, <1>4

LEMMA ConversationOpen ==
    ASSUME Typed, Typed', Listed, up, leftover = NoCall, Conversation, openFile
    PROVE  Conversation' /\ UNCHANGED <<up, leftover>>
<1>1. /\ pc = "opening" /\ recv_response
      /\ UNCHANGED <<call, work, awaiting, up, done, unremoved, Told>>
    BY DEF openFile, server, Told
<1>2. Served /\ Answer = Stream[1] /\ AskedOp = "OPEN_FILE" /\ AskedPath = call.path
    BY <1>1, AnswerServed DEF Asking, AskedOp, AskedPath
<1>3. /\ Len(Stream) = 1
      /\ \/ Answer.status = "FAILURE" /\ Told = Opened
         \/ Answer.status = "SUCCESS" /\ Told = Opened \cup {call.path}
    BY <1>2 DEF Served, RefusedBy, AnsweredBy
<1>4. Stream' = <<>> /\ responses' = <<>> /\ work = <<>> /\ requests = <<>> /\ awaiting = {}
    BY <1>1, <1>2, <1>3, StreamTaken DEF Served
<1>5. CASE Answer.status = "FAILURE"
    <2>1. (Return(1) \/ Goto("dead")) /\ UNCHANGED <<opened_files, sent, requests>>
        BY <1>5 DEF openFile, UseNoBuffer
    <2>2. CASE Return(1)
        <3>1. pc' = "idle" /\ result' = 1 /\ leftover' = NoCall
            BY <1>1, <1>4, <2>2, Returned
        <3>2. Silence' /\ Agree'
            BY <1>1, <1>3, <1>4, <1>5, <2>1 DEF Silence, Agree, Opened
        <3> QED
            BY <1>1, <3>1, <3>2 DEF Conversation, Asking
    <2>3. CASE Goto("dead")
        BY <1>1, <2>3 DEF Goto, Conversation, Asking
    <2> QED
        BY <2>1, <2>2, <2>3
<1>6. CASE Answer.status = "SUCCESS"
    <2>1. /\ opened_files' = Append(opened_files, call.path)
          /\ send_request(call.op, call.path, {}, "answer")
          /\ UNCHANGED <<result, leftover>>
        BY <1>6 DEF openFile
    <2>2. Opened' = Opened \cup {call.path}
        BY <1>1, <2>1, AppendedOnce DEF Opened, Typed, TypeOK, CallKnown
    <2>3. requests' = <<[id |-> sent + 1, op |-> call.op, path |-> call.path, flags |-> {}]>>
          /\ sent' = sent + 1 /\ pc' = "answer"
        BY <1>4, <2>1 DEF send_request
    <2>4. Unserved'
        BY <1>1, <1>3, <1>4, <1>6, <2>2, <2>3 DEF Unserved, AskedOp, AskedPath, Agree
    <2> QED
        BY <1>1, <2>1, <2>3, <2>4 DEF Conversation
<1> QED
    BY <1>3, <1>5, <1>6

\* A call that ends with its first response: its status is the result.  A write
\* whose answer announces files takes them first.
LEMMA ConversationStatus ==
    ASSUME Typed, Typed', Listed, up, leftover = NoCall, Conversation,
           pc = "answer", recv_response, ReturnStatus,
           UNCHANGED <<call, sent, requests, server>>,
           opened_files' = IF call.op = "REMOVE_FILE" /\ Answer.status = "SUCCESS"
                           THEN Unlisted(call.path) ELSE opened_files,
           ~(call.op = "WRITE_FILE" /\ Answer.status = "FILES_EXPELLED"
                /\ call.dir = "usable")
    PROVE  (leftover' = NoCall => Conversation') /\ AnswersTaken' /\ up'
<1>1. /\ UNCHANGED <<work, awaiting, up, done, unremoved, Told>>
      /\ call.op \in CallOp
    BY DEF server, Told, Typed, CallKnown
<1>2. Served /\ Answer = Stream[1] /\ AskedOp = call.op /\ AskedPath = call.path
    BY <1>1, AnswerServed DEF Asking, AskedOp, AskedPath
<1>3. /\ pc' = "idle" /\ result' = (IF Answer.status = "SUCCESS" THEN 0 ELSE 1)
      /\ leftover' = NoCall => responses' = <<>> /\ Stream' = <<>>
      /\ leftover' # NoCall => leftover' = call
      /\ responses' = <<>> /\ work = <<>> /\ requests = <<>> => leftover' = NoCall
    BY <1>1, Returned DEF ReturnStatus
<1>4. requests = <<>> /\ awaiting = {}
    BY <1>2 DEF Served
<1>5. \/ Answer.status = "FAILURE" /\ Told = Opened
      \/ Finished(sent, call.op) /\ AnsweredBy(Stream, call.op, call.path, Opened, Told)
    BY <1>2 DEF Served, RefusedBy
<1>6. Len(Stream) = 1 =>
         \/ Answer.status = "FAILURE" /\ Told = Opened
         \/ /\ Finished(sent, call.op)
            /\ \/ call.op = "REMOVE_FILE" /\ Answer.status = "SUCCESS"
                    /\ Told = Opened \ {call.path}
               \/ call.op # "REMOVE_FILE" /\ Told = Opened
    <2> SUFFICES ASSUME Len(Stream) = 1, AnsweredBy(Stream, call.op, call.path, Opened, Told)
                 PROVE  \/ call.op = "REMOVE_FILE" /\ Answer.status = "SUCCESS"
                             /\ Told = Opened \ {call.path}
                        \/ call.op # "REMOVE_FILE" /\ Told = Opened
        BY <1>5
    <2>1. Stream[1].n \in Nat
        BY <1>2, ResponseTaken DEF Response, Typed
    <2> QED
        BY <1>1, <1>2, <2>1 DEF AnsweredBy, CallOp
<1>7. ASSUME leftover' = NoCall PROVE Conversation'
    <2>1. Stream' = <<>> /\ Len(Stream) = 1
        BY <1>1, <1>3, <1>7, StreamTaken
    <2>2. Opened' = IF call.op = "REMOVE_FILE" /\ Answer.status = "SUCCESS"
                    THEN Opened \ {call.path} ELSE Opened
        BY UnlistedOnce DEF Opened
    <2>3. Told = Opened' /\ (result' = 0 => Finished(sent, call.op))
        BY <1>3, <1>6, <2>1, <2>2
    <2>4. Silence' /\ Agree'
        BY <1>1, <1>4, <2>1, <2>3 DEF Silence, Agree
    <2> QED
        BY <1>1, <1>3, <2>3, <2>4 DEF Conversation, Asking, Finished
<1>8. ASSUME leftover' # NoCall, ~Exempt(call) PROVE FALSE
    <2>1. call.dir = "usable"
        BY <1>8 DEF Exempt, Typed, CallKnown, Call
    <2>2. call.op \notin {"APPEND_TO_FILE", "READ_N_FILES"}
        BY <1>8 DEF Exempt
    <2>3. Len(Stream) = 1
        <3>1. CASE RefusedBy(Stream, call.op, Opened, Told)
            BY <2>2, <3>1 DEF RefusedBy
        <3>2. CASE AnsweredBy(Stream, call.op, call.path, Opened, Told)
            <4>1. ~(call.op = "WRITE_FILE" /\ Stream[1].status = "FILES_EXPELLED")
                BY <1>2, <2>1
            <4> QED
                BY <2>2, <3>2, <4>1 DEF AnsweredBy
        <3> QED
            BY <1>2, <3>1, <3>2 DEF Served
    <2>4. responses' = <<>> /\ work = <<>>
        BY <1>1, <2>3, StreamTaken
    <2> QED
        BY <1>3, <1>4, <1>8, <2>4
<1> QED
    BY <1>1, <1>3, <1>7, <1>8 DEF AnswersTaken, Exempt

\* The first response of a write or of readNFiles announces the others.
LEMMA ConversationAnnounced ==
    ASSUME Typed, Typed', up, leftover = NoCall, Conversation,
           pc = "answer", recv_response, Announced,
           UNCHANGED <<call, sent, requests, server, opened_files>>,
           \/ Answer.status = "FILES_EXPELLED" /\ call.op # "READ_N_FILES"
           \/ Answer.status = "SUCCESS" /\ call.op = "READ_N_FILES"
    PROVE  Conversation' /\ UNCHANGED <<up, leftover>>
<1>1. /\ UNCHANGED <<work, awaiting, up, done, unremoved, Told, result, leftover>>
      /\ call.op \in CallOp
    BY DEF server, Told, Typed, CallKnown, Announced, Goto
<1>2. Served /\ Answer = Stream[1] /\ AskedOp = call.op /\ AskedPath = call.path
    BY <1>1, AnswerServed DEF Asking, AskedOp, AskedPath
<1>3. /\ sent \in done /\ call.op \in WithFiles
      /\ Answer.body = "number" /\ Len(Stream) = Answer.n + 2
      /\ call.op = "WRITE_FILE" =>
            /\ Stream[Len(Stream)].status = "SUCCESS"
            /\ Told = Opened \ PathsOf(Stream, 2, Answer.n + 1)
    BY <1>1, <1>2 DEF Served, Finished, RefusedBy, AnsweredBy, WithFiles
<1>4. pc' = "files" /\ how_many' = Answer.n
    BY <1>3 DEF Announced, Goto, NumberIn
<1>5. Answer.n \in Nat
    BY ResponseTaken DEF Typed, Response
<1>6. /\ Len(Stream') = how_many' + 1 /\ how_many' \in Nat
      /\ Stream'[how_many' + 1] = Stream[Len(Stream)]
      /\ \A k \in 1 .. how_many' : Stream'[k] = Stream[k + 1]
    BY <1>1, <1>3, <1>4, <1>5, StreamTaken
<1>7. PathsOf(Stream', 1, how_many') = PathsOf(Stream, 2, Answer.n + 1)
    <2>1. \A k \in 1 .. how_many' : k + 1 \in 2 .. Answer.n + 1 /\ Stream'[k].path = Stream[k + 1].path
        BY <1>4, <1>5, <1>6
    <2>2. \A k \in 2 .. Answer.n + 1 : k - 1 \in 1 .. how_many' /\ Stream'[k - 1].path = Stream[k].path
        <3> SUFFICES ASSUME NEW k \in 2 .. Answer.n + 1
                     PROVE  k - 1 \in 1 .. how_many' /\ Stream'[k - 1].path = Stream[k].path
            OBVIOUS
        <3>1. k - 1 \in 1 .. how_many' /\ (k - 1) + 1 = k
            BY <1>4, <1>5
        <3>2. Stream'[k - 1] = Stream[(k - 1) + 1]
            BY <1>6, <3>1
        <3> QED
            BY <3>1, <3>2
    <2> QED
        BY <2>1, <2>2 DEF PathsOf
<1>8. Receiving'
    BY <1>1, <1>2, <1>3, <1>6, <1>7 DEF Receiving, Served, Opened
<1> QED
    BY <1>1, <1>4, <1>8 DEF Conversation, Asking

LEMMA ConversationAnswer ==
    ASSUME Typed, Typed', Listed, up, leftover = NoCall, Conversation, AnswerTaken
    PROVE  (leftover' = NoCall => Conversation') /\ AnswersTaken' /\ up'
<1>1. PICK op \in CallOp : Answered(op)
    BY DEF AnswerTaken, WriteAnswered, AppendAnswered, ReadAnswered, ReadNAnswered,
           LockAnswered, UnlockAnswered, RemoveAnswered, CallOp
<1>2. /\ pc = "answer" /\ recv_response
      /\ UNCHANGED <<call, calls, sent, requests, server>>
    BY <1>1 DEF Answered
<1>3. ASSUME UNCHANGED leftover PROVE AnswersTaken'
    BY <1>3 DEF AnswersTaken
<1>4. CASE /\ StatusOnly /\ call.op # "REMOVE_FILE"
           /\ ~(call.op = "WRITE_FILE" /\ Answer.status = "FILES_EXPELLED"
                   /\ call.dir = "usable")
    BY <1>2, <1>4, ConversationStatus DEF StatusOnly
<1>5. CASE RemoveAnswered
    <2>1. call.op = "REMOVE_FILE"
        BY <1>5 DEF RemoveAnswered, Answered
    <2> QED
        BY <1>2, <1>5, <2>1, ConversationStatus DEF RemoveAnswered
<1>6. CASE /\ Announced /\ UNCHANGED opened_files
           /\ \/ Answer.status = "FILES_EXPELLED" /\ call.op # "READ_N_FILES"
              \/ Answer.status = "SUCCESS" /\ call.op = "READ_N_FILES"
    BY <1>2, <1>3, <1>6, ConversationAnnounced
<1>7. CASE Goto("dead")
    <2>1. pc' = "dead" /\ UNCHANGED <<leftover, up>>
        BY <1>2, <1>7 DEF Goto, server
    <2> QED
        BY <1>3, <2>1 DEF Conversation, Asking
<1>8. CASE Return(1) /\ call.op = "READ_N_FILES" /\ UNCHANGED opened_files
           /\ (Answer.status # "SUCCESS" \/ call.dir # "usable")
    <2>1. CASE Answer.status # "SUCCESS"
        <3>1. ReturnStatus
            BY <1>8, <2>1 DEF ReturnStatus
        <3> QED
            BY <1>2, <1>8, <3>1, ConversationStatus
    <2>2. CASE Answer.status = "SUCCESS"
        <3>1. Served /\ Answer = Stream[1] /\ AskedOp = call.op
            BY <1>2, AnswerServed DEF Asking, AskedOp, server
        <3>2. Len(Stream) = Answer.n + 2 /\ Answer.n \in Nat
            BY <1>2, <1>8, <2>2, <3>1, ResponseTaken
            DEF Served, RefusedBy, AnsweredBy, Typed, Response
        <3>3. Stream' # <<>>
            BY <1>2, <3>2, StreamTaken DEF server
        <3>4. leftover' = call /\ leftover' # NoCall /\ up'
            BY <1>2, <1>8, <3>3, Returned DEF server
        <3> QED
            BY <1>8, <3>4 DEF AnswersTaken
    <2> QED
        BY <2>1, <2>2
<1> QED
    BY <1>2, <1>4, <1>5, <1>6, <1>7, <1>8
    DEF AnswerTaken, WriteAnswered, AppendAnswered, ReadAnswered, ReadNAnswered,
        LockAnswered, UnlockAnswered, Answered, UseNoBuffer

\* One of the files that a write expelled, or that readNFiles reads.
LEMMA ConversationReceive ==
    ASSUME Typed, Typed', Listed, up, leftover = NoCall, Conversation, ReceiveFile
    PROVE  Conversation' /\ UNCHANGED <<up, leftover>>
<1>1. /\ pc = "files" /\ recv_response /\ how_many' = how_many - 1 /\ how_many > 0
      /\ UNCHANGED <<call, result, work, awaiting, up, done, unremoved, Told, leftover, sent, requests>>
    BY DEF ReceiveFile, MoreFiles, server, Told
<1>2. Receiving /\ how_many \in Nat /\ how_many' \in Nat
    BY <1>1 DEF Conversation, Typed, TypeOK
<1>3. /\ Answer = Stream[1] /\ Len(Stream') = how_many' + 1
      /\ \A i \in 1 .. how_many : Stream'[i] = Stream[i + 1]
    BY <1>1, <1>2, StreamTaken DEF Receiving
<1>4. CASE pc' = "dead"
    BY <1>1, <1>4 DEF Conversation, Asking
<1>5. CASE pc' # "dead"
    <2>1. pc' = "files"
        BY <1>1, <1>5 DEF ReceiveFile
    <2>2. ASSUME call.op = "WRITE_FILE"
          PROVE  /\ Stream'[how_many' + 1].status = "SUCCESS"
                 /\ Told = Opened' \ PathsOf(Stream', 1, how_many')
        <3>1. Stream'[how_many' + 1] = Stream[how_many + 1]
            BY <1>1, <1>2, <1>3
        <3>2. PathsOf(Stream, 1, how_many) = {Stream[1].path} \cup PathsOf(Stream', 1, how_many')
            <4>1. \A k \in 1 .. how_many' : k + 1 \in 1 .. how_many /\ Stream'[k] = Stream[k + 1]
                BY <1>1, <1>2, <1>3
            <4>2. 1 \in 1 .. how_many
                BY <1>1, <1>2
            <4>3. ASSUME NEW k \in 1 .. how_many, k # 1
                  PROVE  k - 1 \in 1 .. how_many' /\ Stream'[k - 1] = Stream[k]
                <5>1. k - 1 \in 1 .. how_many' /\ (k - 1) + 1 = k /\ k - 1 \in 1 .. how_many
                    BY <1>1, <1>2, <4>3
                <5>2. Stream'[k - 1] = Stream[(k - 1) + 1]
                    BY <1>3, <5>1
                <5> QED
                    BY <5>1, <5>2
            <4> QED
                BY <4>1, <4>2, <4>3 DEF PathsOf
        <3>3. Told = Opened \ PathsOf(Stream, 1, how_many)
            BY <1>2, <2>2 DEF Receiving
        <3>4. CASE opened_files = <<>>
            <4>1. opened_files' = <<>>
                BY <3>4 DEF ReceiveFile
            <4>2. Opened = {} /\ Opened' = {}
                BY <3>4, <4>1 DEF Opened, ToSet
            <4> QED
                BY <1>2, <2>2, <3>1, <3>3, <4>2 DEF Receiving
        <3>5. CASE opened_files # <<>>
            <4>1. opened_files' = Unlisted(Stream[1].path)
                BY <1>3, <1>5, <2>2, <3>5 DEF ReceiveFile
            <4>2. Opened' = Opened \ {Stream[1].path}
                BY <4>1, UnlistedOnce DEF Opened
            <4> QED
                BY <1>2, <2>2, <3>1, <3>2, <3>3, <4>2 DEF Receiving
        <3> QED
            BY <3>4, <3>5
    <2>3. Receiving'
        BY <1>1, <1>2, <1>3, <2>2 DEF Receiving
    <2> QED
        BY <1>1, <2>1, <2>3 DEF Conversation, Asking
<1> QED
    BY <1>4, <1>5

\* After the last of them a write waits for one more response, which readNFiles
\* leaves behind.
LEMMA ConversationReceived ==
    ASSUME Typed, Typed', up, leftover = NoCall, Conversation, FilesReceived
    PROVE  (leftover' = NoCall => Conversation') /\ AnswersTaken' /\ up'
<1>1. /\ pc = "files" /\ how_many = 0 /\ Stream' = Stream
      /\ UNCHANGED <<call, opened_files, work, awaiting, up, done, unremoved, Told, sent, requests,
                     responses>>
    BY DEF FilesReceived, MoreFiles, server, Told, Stream, Typed, TypeOK
<1>2. /\ requests = <<>> /\ awaiting = {} /\ sent \in done /\ call.op \in WithFiles
      /\ Len(Stream) = 1
      /\ call.op = "WRITE_FILE" => Stream[1].status = "SUCCESS" /\ Told = Opened
    <2>1. Receiving
        BY <1>1 DEF Conversation
    <2>2. how_many + 1 = 1
        BY <1>1
    <2>3. PathsOf(Stream, 1, how_many) = {}
        BY <1>1 DEF PathsOf
    <2> QED
        BY <2>1, <2>2, <2>3 DEF Receiving
<1>3. CASE call.op = "READ_N_FILES"
    <2>1. Return(0)
        BY <1>3 DEF FilesReceived, AfterFiles
    <2>2. Stream' # <<>>
        BY <1>1, <1>2, EmptySeq
    <2>3. leftover' = call /\ leftover' # NoCall
        BY <1>1, <2>1, <2>2, Returned
    <2> QED
        BY <1>1, <1>3, <2>3 DEF AnswersTaken
<1>4. CASE call.op # "READ_N_FILES"
    <2>1. pc' = "final" /\ UNCHANGED <<result, leftover>>
        BY <1>4 DEF FilesReceived, AfterFiles, Goto
    <2>2. Finishing'
        BY <1>1, <1>2, <1>4 DEF Finishing, WithFiles, Agree, Opened
    <2> QED
        BY <1>1, <2>1, <2>2 DEF Conversation, Asking, AnswersTaken
<1> QED
    BY <1>3, <1>4

LEMMA ConversationFinal ==
    ASSUME Typed, Typed', up, leftover = NoCall, Conversation, FinalAnswered
    PROVE  Conversation' /\ UNCHANGED <<up, leftover>>
<1>1. /\ pc = "final" /\ recv_response
      /\ UNCHANGED <<call, opened_files, work, awaiting, up, done, unremoved, Told, sent, requests>>
    BY DEF FinalAnswered, StatusOnly, server, Told
<1>2. Finishing
    BY <1>1 DEF Conversation
<1>3. Stream' = <<>> /\ responses' = <<>> /\ work = <<>>
    BY <1>1, <1>2, StreamTaken DEF Finishing
<1>4. pc' = "idle" /\ leftover' = NoCall
    <2>1. Return(IF Answer.status = "SUCCESS" THEN 0 ELSE 1)
        BY DEF FinalAnswered, StatusOnly, ReturnStatus
    <2> QED
        BY <1>1, <1>2, <1>3, <2>1, Returned DEF Finishing
<1>5. Silence' /\ Agree'
    BY <1>1, <1>2, <1>3 DEF Silence, Agree, Opened, Finishing
<1> QED
    BY <1>1, <1>2, <1>4, <1>5 DEF Conversation, Asking, Finishing, Finished

\* Nothing is known any more once the client closes the connection.
LEMMA ConversationClose ==
    ASSUME Conversation, closeConnection \/ closeFile
    PROVE  Conversation' /\ UNCHANGED <<up, leftover>>
<1>1. pc' \in {"close_file", "exit", "dead", "closing"} /\ UNCHANGED <<up, leftover>>
    BY DEF closeConnection, closeFile, send_request, server
<1> QED
    BY <1>1 DEF Conversation, Asking

\* The worker receives a request.
LEMMA ConversationTaken ==
    ASSUME Typed, Typed', up, Conversation, Received
    PROVE  LET r == Head(requests) IN
           /\ ~Asking => Conversation'
           /\ Asking =>
                /\ r \in Request /\ r.id = sent /\ r.op = AskedOp /\ r.path = AskedPath
                /\ awaiting = {} /\ Told = Opened
                /\ requests' = <<>> /\ Stream' = work' /\ sent' = sent
                /\ AskedOp' = AskedOp /\ AskedPath' = AskedPath /\ Opened' = Opened
                /\ Unserved' \/ Waits' \/ Served' => Conversation'
<1>1. /\ requests # <<>> /\ work = <<>> /\ requests' = Tail(requests)
      /\ UNCHANGED <<pc, call, result, opened_files, how_many, sent, responses>>
    BY DEF Received, client
<1>2. Asking => Unserved
    BY <1>1 DEF Conversation, Waits, Served
<1>3. ASSUME ~Asking PROVE Conversation'
    <2>1. pc \notin {"start", "idle", "files", "final"}
        BY <1>1 DEF Conversation, Silence, Receiving, Finishing
    <2> QED
        BY <1>1, <1>3, <2>1 DEF Conversation, Asking
<1>4. ASSUME Asking
      PROVE  LET r == Head(requests) IN
             /\ r \in Request /\ r.id = sent /\ r.op = AskedOp /\ r.path = AskedPath
             /\ awaiting = {} /\ Told = Opened
             /\ requests' = <<>> /\ Stream' = work' /\ sent' = sent
             /\ AskedOp' = AskedOp /\ AskedPath' = AskedPath /\ Opened' = Opened
             /\ Unserved' \/ Waits' \/ Served' => Conversation'
    <2> DEFINE r == Head(requests)
    <2>1. /\ r \in Request /\ r.id = sent /\ r.op = AskedOp /\ r.path = AskedPath
          /\ Stream = <<>> /\ awaiting = {} /\ Told = Opened
        BY <1>2, <1>4, RequestReceived DEF Unserved, Agree
    <2>2. requests' = <<>>
        <3>1. Len(requests') = 0 /\ requests' \in Seq(Request)
            BY <1>1, <1>2, <1>4, HeadTailProperties DEF Unserved, Typed, TypeOK
        <3> QED
            BY <3>1, EmptySeq
    <2>3. responses = <<>>
        BY <2>1, StreamParts
    <2>4. Stream' = work'
        BY <1>1, <2>3, ConcatEmptySeq DEF Stream, Typed, TypeOK
    <2>5. AskedOp' = AskedOp /\ AskedPath' = AskedPath /\ Opened' = Opened /\ Asking'
        BY <1>1, <1>4 DEF AskedOp, AskedPath, Opened, Asking
    <2>6. Unserved' \/ Waits' \/ Served' => Conversation'
        BY <1>1, <1>4 DEF Conversation, Asking
    <2> QED
        BY <1>1, <2>1, <2>2, <2>4, <2>5, <2>6
<1> QED
    BY <1>3, <1>4

LEMMA ConversationServing ==
    ASSUME Typed, Typed', up, Conversation,
           \/ Refuse \/ RefuseTooBig \/ CarryOut \/ RemoveNothing \/ Await \/ Disconnect
           \/ AppendStalls
    PROVE  Conversation'
<1> DEFINE r == Head(requests)
<1>1. Received
    BY DEF Refuse, RefuseTooBig, CarryOut, RemoveNothing, Await, Disconnect, AppendStalls,
           Serving
<1>2. CASE ~Asking
    BY <1>1, <1>2, ConversationTaken
<1>3. CASE Asking
    <2>1. /\ r \in Request /\ r.id = sent /\ r.op = AskedOp /\ r.path = AskedPath
          /\ awaiting = {} /\ Told = Opened
          /\ requests' = <<>> /\ Stream' = work' /\ sent' = sent
          /\ AskedOp' = AskedOp /\ AskedPath' = AskedPath /\ Opened' = Opened
          /\ Unserved' \/ Waits' \/ Served' => Conversation'
        BY <1>1, <1>3, ConversationTaken
    <2> HIDE DEF r
    <2>2. CASE RefusedBy(work', r.op, Told, Told') /\ UNCHANGED awaiting
        BY <2>1, <2>2 DEF Served
    <2>3. CASE /\ AnsweredBy(work', r.op, r.path, Told, Told') /\ UNCHANGED awaiting
               /\ r.id \in done' \/ (r.op = "REMOVE_FILE" /\ r.id \in unremoved')
        BY <2>1, <2>3 DEF Served, Finished
    <2>4. CASE Await
        <3>1. /\ r.op = "LOCK_FILE" /\ awaiting' = {Respond(r.id, "SUCCESS", r.path)}
              /\ UNCHANGED <<work, Told>>
            BY <2>1, <2>4 DEF Await, Told, r
        <3>2. r.path \in Path \cup {NoPath} /\ work' = <<>>
            BY <1>1, <2>1, <3>1 DEF Request, Received
        <3>3. Waits'
            BY <2>1, <3>1, <3>2 DEF Waits, Agree
        <3> QED
            BY <2>1, <3>3
    <2>5. CASE Disconnect
        <3>1. AskedOp = "CLOSE_CONNECTION"
            BY <2>1, <2>5 DEF Disconnect, r
        <3>2. AskedOp # "CLOSE_CONNECTION"
            BY <1>3 DEF AskedOp, Asking, Typed, CallKnown, CallOp
        <3> QED
            BY <3>1, <3>2
    <2>6. CASE Refuse \/ RefuseTooBig
        BY <2>2, <2>6, Refused DEF r
    <2>7. CASE CarryOut \/ RemoveNothing
        BY <2>3, <2>7, CarriedOut DEF r
    <2>8. CASE AppendStalls
        <3>1. /\ \/ RefusedBy(work', r.op, Told, Told')
                 \/ AnsweredBy(work', r.op, r.path, Told, Told') /\ r.id \in done'
              /\ UNCHANGED awaiting
            BY <2>8, HalfAnswered DEF r
        <3> QED
            BY <2>2, <2>3, <3>1
    <2> QED
        BY <2>4, <2>5, <2>6, <2>7, <2>8
<1> QED
    BY <1>2, <1>3

LEMMA ConversationSent ==
    ASSUME Typed, up, Conversation, send_response
    PROVE  Conversation'
<1>1. /\ Stream' = Stream
      /\ UNCHANGED <<pc, call, result, opened_files, how_many, sent, requests, awaiting,
                     done, unremoved, Told>>
    BY StreamSent DEF send_response, client, Told
<1>2. AskedOp' = AskedOp /\ AskedPath' = AskedPath /\ Opened' = Opened /\ Asking' = Asking
    BY <1>1 DEF AskedOp, AskedPath, Opened, Asking
<1>3. /\ Unserved => Unserved'
      /\ Waits => Waits'
      /\ Served => Served'
    BY <1>1, <1>2 DEF Unserved, Waits, Served, Finished, Agree
<1>4. Receiving => Receiving'
    BY <1>1, <1>2 DEF Receiving
<1>5. (Finishing => Finishing') /\ (Silence => Silence') /\ (Agree => Agree')
    BY <1>1, <1>2 DEF Finishing, Silence, Agree
<1> QED
    BY <1>1, <1>2, <1>3, <1>4, <1>5 DEF Conversation, Finished

\* The answer that lock_manager_thread sends finds the client waiting for it.
LEMMA ConversationLock ==
    ASSUME Typed, up, Conversation, lock_manager_thread
    PROVE  Conversation'
<1>1. PICK m \in awaiting : /\ responses' = Append(responses, m)
                            /\ done' = done \cup {m.id}
                            /\ awaiting' = awaiting \ {m}
    BY DEF lock_manager_thread
<1>2. UNCHANGED <<pc, call, result, opened_files, how_many, sent, requests, work, Told>>
    BY DEF lock_manager_thread, client, Told
<1>3. CASE ~Asking
    <2>1. pc \notin {"start", "idle", "files", "final"}
        BY <1>1, <1>3 DEF Conversation, Silence, Receiving, Finishing
    <2> QED
        BY <1>2, <1>3, <2>1 DEF Conversation, Asking
<1>4. CASE Asking
    <2>1. Waits
        BY <1>1, <1>4 DEF Conversation, Unserved, Served
    <2>2. PICK p \in Path \cup {NoPath} : awaiting = {Respond(sent, "SUCCESS", p)}
        BY <2>1 DEF Waits
    <2>3. m = Respond(sent, "SUCCESS", p) /\ awaiting' = {}
        BY <1>1, <2>2
    <2>4. m \in Response /\ m.status = "SUCCESS" /\ m.id = sent
        BY <2>3, RespondType DEF Typed, TypeOK
    <2>5. responses = <<>> /\ work = <<>>
        BY <2>1, StreamParts DEF Waits
    <2>6. responses' = <<m>> /\ Stream' = <<m>>
        <3>1. responses' = <<m>>
            BY <1>1, <2>5
        <3>2. <<m>> \in Seq(Response)
            BY <2>4
        <3> QED
            BY <1>2, <2>5, <3>1, <3>2, ConcatEmptySeq DEF Stream
    <2>7. /\ AskedOp' = AskedOp /\ AskedPath' = AskedPath /\ Opened' = Opened /\ Asking'
          /\ AskedOp = "LOCK_FILE" /\ Told = Opened /\ requests = <<>>
        BY <1>2, <1>4, <2>1 DEF AskedOp, AskedPath, Opened, Asking, Waits, Agree
    <2>8. AnsweredBy(<<m>>, AskedOp, AskedPath, Opened, Told)
        BY <2>4, <2>7 DEF AnsweredBy
    <2>9. AnsweredBy(Stream', AskedOp', AskedPath', Opened', Told')
        BY <1>2, <2>6, <2>7, <2>8
    <2>10. Served'
        BY <1>1, <1>2, <2>3, <2>4, <2>7, <2>9 DEF Served, Finished
    <2> QED
        BY <1>2, <1>4, <2>10 DEF Conversation, Asking
<1> QED
    BY <1>3, <1>4

\* What the server has sent when it ends is no more than the call will take.
LEMMA ConversationExit ==
    ASSUME Typed, Typed', up, Conversation, Exit
    PROVE  Remains' /\ ~up' /\ work' = <<>>
<1>1. UNCHANGED <<pc, call, how_many>> /\ ~up' /\ work' = <<>>
    BY DEF Exit, client
<1>2. /\ Len(responses') \in Nat /\ Len(Stream) \in Nat /\ Len(responses') <= Len(Stream)
      /\ Len(responses') > 1 => responses'[1] = Stream[1]
    <2>1. CASE responses' = responses
        BY <2>1, StreamParts
    <2>2. CASE work # <<>> /\ responses' = Append(responses,
                 Respond(Head(work).id, StatusAtEnd(Head(work).status), NoPath))
        <3> DEFINE m == Respond(Head(work).id, StatusAtEnd(Head(work).status), NoPath)
        <3>1. responses \in Seq(Response) /\ responses' = Append(responses, m)
            BY <2>2 DEF Typed, TypeOK
        <3>2. m \in Response
            <4>1. Head(work) \in Response
                BY <2>2, HeadTailProperties DEF Typed, TypeOK
            <4> QED
                BY <4>1, RespondType DEF Response, StatusAtEnd
        <3> HIDE DEF m
        <3>3. /\ Len(responses') = Len(responses) + 1
              /\ \A i \in 1 .. Len(responses) : responses'[i] = responses[i]
            BY <3>1, <3>2, AppendProperties
        <3>4. /\ Len(responses) \in Nat /\ Len(work) \in Nat /\ Len(work) > 0
              /\ Len(Stream) = Len(responses) + Len(work)
              /\ responses # <<>> => Stream[1] = responses[1] /\ Len(responses) > 0
              /\ responses = <<>> => Len(responses) = 0
            BY <2>2, StreamParts
        <3> QED
            BY <3>3, <3>4
    <2> QED
        BY <2>1, <2>2 DEF Exit
<1>3. SUFFICES ASSUME ~Exempt(call)
      PROVE  /\ pc \in {"opening", "final"} => Len(responses') <= 1
             /\ pc = "answer" /\ Len(responses') > 1 =>
                   /\ call.op = "WRITE_FILE" /\ responses'[1].status = "FILES_EXPELLED"
                   /\ responses'[1].body = "number"
                   /\ Len(responses') <= responses'[1].n + 2
             /\ pc = "files" => Len(responses') <= how_many + 1
    BY <1>1 DEF Remains
<1>4. call.op \notin {"APPEND_TO_FILE", "READ_N_FILES"}
    BY <1>3 DEF Exempt
<1>5. Len(<<>>) = 0
    BY EmptySeq
<1>6. ASSUME pc = "opening" PROVE Len(responses') <= 1
    <2>1. Stream = <<>> \/ Len(Stream) = 1
        <3>1. AskedOp = "OPEN_FILE" /\ (Unserved \/ Waits \/ Served)
            BY <1>6 DEF Conversation, Asking, AskedOp
        <3>2. CASE Unserved \/ Waits
            BY <3>2 DEF Unserved, Waits
        <3>3. CASE Served
            <4>1. CASE RefusedBy(Stream, AskedOp, Opened, Told)
                BY <3>1, <4>1 DEF RefusedBy
            <4>2. CASE AnsweredBy(Stream, AskedOp, AskedPath, Opened, Told)
                BY <3>1, <4>2 DEF AnsweredBy
            <4> QED
                BY <3>3, <4>1, <4>2 DEF Served
        <3> QED
            BY <3>1, <3>2, <3>3
    <2>2. Len(Stream) = 0 \/ Len(Stream) = 1
        BY <2>1, StreamParts
    <2>3. \A m, n \in Nat : m <= n /\ (n = 0 \/ n = 1) => m <= 1
        OBVIOUS
    <2>4. Len(responses') \in Nat /\ Len(Stream) \in Nat /\ Len(responses') <= Len(Stream)
        BY <1>2
    <2> HIDE DEF Stream
    <2> QED
        BY <2>2, <2>3, <2>4, Zenon
<1>7. ASSUME pc = "final" PROVE Len(responses') <= 1
    BY <1>2, <1>7 DEF Conversation, Finishing
<1>8. ASSUME pc = "files" PROVE Len(responses') <= how_many + 1
    BY <1>2, <1>8 DEF Conversation, Receiving, Typed, TypeOK
<1>9. ASSUME pc = "answer", Len(responses') > 1
      PROVE  /\ call.op = "WRITE_FILE" /\ responses'[1].status = "FILES_EXPELLED"
             /\ responses'[1].body = "number"
             /\ Len(responses') <= responses'[1].n + 2
    <2>1. Len(Stream) # 0 /\ Len(Stream) # 1 /\ responses'[1] = Stream[1]
        <3> HIDE DEF Stream
        <3>1. /\ Len(responses') \in Nat /\ Len(Stream) \in Nat
              /\ Len(responses') <= Len(Stream)
              /\ Len(responses') > 1 => responses'[1] = Stream[1]
            BY <1>2
        <3>2. \A m, n \in Nat : m <= n /\ m > 1 => n # 0 /\ n # 1
            OBVIOUS
        <3> QED
            BY <1>9, <3>1, <3>2, Zenon
    <2>2. AskedOp = call.op
        BY <1>9 DEF AskedOp
    <2>3. Served
        BY <1>5, <1>9, <2>1 DEF Conversation, Asking, Unserved, Waits
    <2>4. AnsweredBy(Stream, call.op, AskedPath, Opened, Told)
        BY <1>4, <2>1, <2>2, <2>3 DEF Served, RefusedBy
    <2>5. /\ call.op = "WRITE_FILE" /\ Stream[1].status = "FILES_EXPELLED"
          /\ Stream[1].body = "number" /\ Len(Stream) = Stream[1].n + 2
        BY <1>4, <2>1, <2>4 DEF AnsweredBy
    <2> QED
        BY <1>2, <2>1, <2>5
<1> QED
    BY <1>6, <1>7, <1>8, <1>9

LEMMA ConversationStep ==
    ASSUME Typed, Typed', Listed, AnswersTaken, up, leftover = NoCall, Conversation,
           [Next]_vars
    PROVE  AnswersTaken' /\ InConversation'
<1>1. ASSUME Conversation', UNCHANGED <<up, leftover>>
      PROVE  AnswersTaken' /\ InConversation'
    BY <1>1 DEF AnswersTaken, InConversation
<1>2. ASSUME leftover' = NoCall => Conversation', AnswersTaken', up'
      PROVE  AnswersTaken' /\ InConversation'
    BY <1>2 DEF InConversation
<1>3. CASE openConnection \/ HandshakeAnswered \/ execute_action \/ openFile \/ ReceiveFile
           \/ FinalAnswered \/ closeConnection \/ closeFile
    BY <1>1, <1>3, ConversationConnection, ConversationHandshake, ConversationAction,
       ConversationOpen, ConversationReceive, ConversationFinal, ConversationClose
<1>4. CASE AnswerTaken \/ FilesReceived
    BY <1>2, <1>4, ConversationAnswer, ConversationReceived
<1>5. CASE worker_thread \/ AppendStalls
    <2>1. Conversation'
        BY <1>5, ConversationServing, ConversationSent DEF worker_thread
    <2>2. ~Exit
        BY <1>5 DEF Exit, worker_thread, AppendStalls, Refuse, RefuseTooBig, CarryOut,
                    RemoveNothing, Await, Disconnect, Serving, Received, send_response
    <2>3. UNCHANGED <<up, leftover>>
        BY <1>5, <2>2, ServersOnly DEF ServerSteps, client
    <2> QED
        BY <1>1, <2>1, <2>3
<1>6. CASE lock_manager_thread
    <2>1. UNCHANGED <<up, leftover>>
        BY <1>6 DEF lock_manager_thread, client
    <2> QED
        BY <1>1, <1>6, <2>1, ConversationLock
<1>7. CASE Exit
    <2>1. UNCHANGED leftover
        BY <1>7 DEF Exit, client
    <2> QED
        BY <1>7, <2>1, ConversationExit DEF AnswersTaken, InConversation
<1>8. CASE Stall \/ UNCHANGED vars
    <2>1. UNCHANGED <<pc, call, result, opened_files, how_many, sent, requests, responses,
                      work, awaiting, done, unremoved, Told, up, leftover>>
        BY <1>8 DEF Stall, vars, client, server, Told
    <2>2. /\ Stream' = Stream /\ AskedOp' = AskedOp /\ AskedPath' = AskedPath
          /\ Opened' = Opened /\ Asking' = Asking
        BY <2>1 DEF Stream, AskedOp, AskedPath, Opened, Asking
    <2>3. /\ Unserved => Unserved'
          /\ Waits => Waits'
          /\ Served => Served'
          /\ Receiving => Receiving'
        BY <2>1, <2>2 DEF Unserved, Waits, Served, Finished, Receiving, Agree
    <2>4. (Finishing => Finishing') /\ (Silence => Silence') /\ (Agree => Agree')
        BY <2>1, <2>2 DEF Finishing, Silence, Agree
    <2> QED
        BY <1>1, <2>1, <2>2, <2>3, <2>4 DEF Conversation, Finished
<1> QED
    BY <1>3, <1>4, <1>5, <1>6, <1>7, <1>8 DEF Next, main, AnswerTaken

-----------------------------------------------------------------------------
\* Without the server.

\* How many responses are left after one was taken.
LEMMA RemainsTaken ==
    ASSUME Typed, ~up, recv_response
    PROVE  /\ Len(responses') \in Nat /\ Len(responses) \in Nat
           /\ responses # <<>> => Len(responses') = Len(responses) - 1 /\ Answer = responses[1]
           /\ responses = <<>> => Len(responses') = 0 /\ Len(responses) = 0
                                  /\ Answer.status # "FILES_EXPELLED"
           /\ Len(responses') = 0 <=> responses' = <<>>
<1>1. responses \in Seq(Response)
    BY DEF Typed, TypeOK
<1>2. responses' \in Seq(Response)
    BY ResponseTaken DEF Typed
<1>3. /\ Len(responses) \in Nat /\ Len(responses') \in Nat /\ Len(<<>>) = 0
      /\ Len(responses') = 0 <=> responses' = <<>>
    BY <1>1, <1>2, LenProperties, EmptySeq
<1>4. CASE responses # <<>>
    <2>1. Len(responses') = Len(responses) - 1 /\ Answer = responses[1]
        BY <1>1, <1>4, HeadTailProperties, NonEmptyHead DEF recv_response, Answer
    <2> QED
        BY <1>3, <1>4, <2>1
<1>5. CASE responses = <<>>
    <2>1. Answer.status # "FILES_EXPELLED"
        BY <1>5 DEF Answer, EndOfFile, Respond, StatusAtEnd
    <2> QED
        BY <1>3, <1>5, <2>1 DEF recv_response
<1> QED
    BY <1>4, <1>5

LEMMA RemainsReturned ==
    ASSUME Typed, ~up, leftover = NoCall, pc \in {"opening", "answer", "files", "final"},
           NEW r, Return(r), UNCHANGED <<call, server>>, work = <<>>,
           ~Exempt(call) => responses' = <<>>
    PROVE  AnswersTaken' /\ InConversation'
<1>1. /\ pc' = "idle" /\ (leftover' # NoCall => leftover' = call)
      /\ responses' = <<>> => leftover' = NoCall
      /\ ~up' /\ work' = <<>>
    BY Returned DEF server
<1>2. AnswersTaken'
    BY <1>1 DEF AnswersTaken, Exempt
<1>3. Remains'
    BY <1>1 DEF Remains
<1> QED
    BY <1>1, <1>2, <1>3 DEF InConversation

LEMMA RemainsAnswer ==
    ASSUME Typed, AnswersTaken, ~up, leftover = NoCall, work = <<>>, Remains, AnswerTaken
    PROVE  AnswersTaken' /\ InConversation'
<1>1. PICK op \in CallOp : Answered(op)
    BY DEF AnswerTaken, WriteAnswered, AppendAnswered, ReadAnswered, ReadNAnswered,
           LockAnswered, UnlockAnswered, RemoveAnswered, CallOp
<1>2. /\ pc = "answer" /\ recv_response
      /\ UNCHANGED <<call, calls, sent, requests, server>>
      /\ ~up' /\ work' = <<>>
    BY <1>1 DEF Answered, server
<1>3. ASSUME Remains', UNCHANGED leftover PROVE AnswersTaken' /\ InConversation'
    BY <1>2, <1>3 DEF AnswersTaken, InConversation
<1>4. CASE /\ ReturnStatus
           /\ ~(call.op = "WRITE_FILE" /\ Answer.status = "FILES_EXPELLED"
                   /\ call.dir = "usable")
    <2>1. ASSUME ~Exempt(call) PROVE responses' = <<>>
        <3>1. call.dir = "usable"
            BY <1>2, <2>1 DEF Exempt, Typed, CallKnown, Call
        <3>2. CASE responses = <<>>
            BY <1>2, <3>2, RemainsTaken
        <3>3. CASE responses # <<>>
            <4>1. ~(Len(responses) > 1)
                BY <1>2, <1>4, <2>1, <3>1, <3>3, RemainsTaken DEF Remains
            <4> QED
                BY <1>2, <3>3, <4>1, RemainsTaken
        <3> QED
            BY <3>2, <3>3
    <2> QED
        BY <1>2, <1>4, <2>1, RemainsReturned DEF ReturnStatus
<1>5. CASE Announced /\ call.op # "READ_N_FILES"
           /\ Answer.status = "FILES_EXPELLED" /\ call.dir = "usable"
    <2>1. CASE Answer.body = "none"
        BY <1>2, <1>3, <1>5, <2>1 DEF Announced, Goto, Remains
    <2>2. CASE Answer.body # "none"
        <3>1. pc' = "files" /\ UNCHANGED leftover /\ how_many' \in NumberIn(Answer.body)
            BY <1>5, <2>2 DEF Announced, Goto
        <3>2. how_many' \in Nat
            BY <1>2, <1>5, AnnouncedTyped
        <3>3. responses # <<>>
            BY <1>2, <1>5, RemainsTaken
        <3>4. ASSUME ~Exempt(call) PROVE Len(responses') <= how_many' + 1
            <4>1. CASE Len(responses) > 1
                <5>1. Answer.body = "number" /\ Len(responses) <= Answer.n + 2
                    BY <1>2, <2>2, <3>3, <3>4, <4>1, RemainsTaken DEF Remains
                <5>2. how_many' = Answer.n
                    BY <3>1, <5>1 DEF NumberIn
                <5> QED
                    BY <1>2, <3>2, <3>3, <5>1, <5>2, RemainsTaken
            <4>2. CASE ~(Len(responses) > 1)
                BY <1>2, <3>2, <3>3, <4>2, RemainsTaken
            <4> QED
                BY <4>1, <4>2
        <3>5. Remains'
            BY <1>2, <3>1, <3>4 DEF Remains
        <3> QED
            BY <1>3, <3>1, <3>5
    <2> QED
        BY <2>1, <2>2
<1>6. CASE Goto("dead")
    BY <1>2, <1>3, <1>6 DEF Goto, Remains
<1>7. CASE call.op = "READ_N_FILES"
    <2>1. Exempt(call)
        BY <1>7 DEF Exempt
    <2>2. CASE Announced
        <3>1. UNCHANGED leftover
            BY <2>2 DEF Announced, Goto
        <3> QED
            BY <1>2, <1>3, <2>1, <3>1 DEF Remains, Exempt
    <2>3. CASE Return(1)
        BY <1>2, <2>1, <2>3, RemainsReturned
    <2> QED
        BY <1>7, <2>2, <2>3
        DEF AnswerTaken, WriteAnswered, AppendAnswered, ReadAnswered, ReadNAnswered,
            LockAnswered, UnlockAnswered, RemoveAnswered, Answered
<1> QED
    BY <1>4, <1>5, <1>6, <1>7
    DEF AnswerTaken, WriteAnswered, AppendAnswered, ReadAnswered, ReadNAnswered,
        LockAnswered, UnlockAnswered, RemoveAnswered, Answered, StatusOnly, UseNoBuffer

LEMMA RemainsStep ==
    ASSUME Typed, AnswersTaken, ~up, leftover = NoCall, work = <<>>, Remains, [Next]_vars
    PROVE  AnswersTaken' /\ InConversation'
<1>1. ASSUME Remains', UNCHANGED <<server, leftover>> PROVE AnswersTaken' /\ InConversation'
    BY <1>1 DEF AnswersTaken, InConversation, server
<1>2. CASE openConnection \/ HandshakeAnswered \/ closeConnection \/ closeFile
    BY <1>1, <1>2 DEF openConnection, HandshakeAnswered, closeConnection, closeFile,
                      send_request, Remains
<1>3. CASE execute_action
    <2>1. PICK c \in Calls : \/ ReturnAtOnce(c)
                             \/ \E flags \in SUBSET {"O_CREATE", "O_LOCK", "O_NOFLAG"} :
                                   Begin(c, flags)
        BY <1>3, ActionForms
    <2>2. pc' \in {"idle", "dead"} /\ UNCHANGED <<server, leftover>>
        BY <2>1 DEF ReturnAtOnce, Begin, send_request
    <2> QED
        BY <1>1, <2>2 DEF Remains
<1>4. CASE openFile
    <2>1. pc = "opening" /\ recv_response /\ UNCHANGED <<call, server>>
        BY <1>4 DEF openFile
    <2>2. CASE Answer.status = "SUCCESS"
        <3>1. pc' = "dead" /\ UNCHANGED leftover
            BY <1>4, <2>2 DEF openFile, send_request
        <3> QED
            BY <1>1, <2>1, <3>1 DEF Remains
    <2>3. CASE Answer.status # "SUCCESS"
        <3>1. Return(1) \/ Goto("dead")
            BY <1>4, <2>3 DEF openFile, UseNoBuffer
        <3>2. ~Exempt(call) => responses' = <<>>
            BY <2>1, RemainsTaken DEF Remains
        <3>3. CASE Goto("dead")
            BY <1>1, <2>1, <3>3 DEF Goto, Remains
        <3> QED
            BY <2>1, <3>1, <3>2, <3>3, RemainsReturned
    <2> QED
        BY <2>2, <2>3
<1>5. CASE ReceiveFile
    <2>1. /\ pc = "files" /\ recv_response /\ how_many > 0 /\ how_many' = how_many - 1
          /\ UNCHANGED <<call, leftover, server>> /\ pc' \in {"files", "dead"}
          /\ how_many \in Nat
        BY <1>5 DEF ReceiveFile, MoreFiles, Typed, TypeOK
    <2>2. ASSUME ~Exempt(call) PROVE Len(responses') <= how_many' + 1
        <3>1. Len(responses) <= how_many + 1
            BY <2>1, <2>2 DEF Remains
        <3> QED
            BY <2>1, <3>1, RemainsTaken
    <2>3. Remains'
        BY <2>1, <2>2 DEF Remains
    <2> QED
        BY <1>1, <2>1, <2>3
<1>6. CASE FilesReceived
    <2>1. /\ pc = "files" /\ how_many = 0 /\ UNCHANGED <<call, server, responses>>
        BY <1>6 DEF FilesReceived, MoreFiles, Typed, TypeOK
    <2>2. CASE call.op = "READ_N_FILES"
        BY <1>6, <2>1, <2>2, RemainsReturned DEF FilesReceived, AfterFiles, Exempt
    <2>3. CASE call.op # "READ_N_FILES"
        <3>1. pc' = "final" /\ UNCHANGED leftover
            BY <1>6, <2>3 DEF FilesReceived, AfterFiles, Goto
        <3> QED
            BY <1>1, <2>1, <3>1 DEF Remains
    <2> QED
        BY <2>2, <2>3
<1>7. CASE FinalAnswered
    <2>1. pc = "final" /\ recv_response /\ UNCHANGED <<call, server>>
        BY <1>7 DEF FinalAnswered
    <2>2. ~Exempt(call) => responses' = <<>>
        BY <2>1, RemainsTaken DEF Remains
    <2> QED
        BY <1>7, <2>1, <2>2, RemainsReturned DEF FinalAnswered, StatusOnly, ReturnStatus
<1>8. CASE UNCHANGED vars
    BY <1>1, <1>8 DEF vars, client, Remains
<1>9. ~ServerSteps
    BY ServersOnly
<1> QED
    BY <1>2, <1>3, <1>4, <1>5, <1>6, <1>7, <1>8, <1>9, RemainsAnswer
    DEF Next, main, AnswerTaken, ServerSteps

-----------------------------------------------------------------------------
\* The theorems

LEMMA LeftBehind ==
    ASSUME leftover # NoCall, AnswersTaken, [Next]_vars
    PROVE  leftover' = leftover /\ AnswersTaken'
<1>1. leftover' = leftover
    <2>1. CASE execute_action
        <3>1. PICK c \in Calls : \/ writeFile(c) \/ appendToFile(c) \/ readFile(c)
                                 \/ readNFiles(c) \/ lockFile(c) \/ unlockFile(c)
                                 \/ removeFile(c)
            BY <2>1 DEF execute_action
        <3> QED
            BY <3>1 DEF writeFile, appendToFile, readFile, readNFiles, lockFile, unlockFile,
                        removeFile, ReturnAtOnce, Begin
    <2>2. CASE ServerSteps \/ UNCHANGED vars
        BY <2>2, ServersOnly DEF vars, client
    <2>3. CASE openConnection \/ HandshakeAnswered \/ openFile \/ closeConnection \/ closeFile
        BY <2>3 DEF openConnection, HandshakeAnswered, openFile, closeConnection, closeFile,
                    Return, UseNoBuffer, Goto
    <2>4. CASE AnswerTaken
        BY <2>4 DEF AnswerTaken, WriteAnswered, AppendAnswered, ReadAnswered, ReadNAnswered,
                    LockAnswered, UnlockAnswered, RemoveAnswered, StatusOnly, ReturnStatus,
                    Return, UseNoBuffer, Goto, Announced
    <2>5. CASE ReceiveFile \/ FilesReceived \/ FinalAnswered
        BY <2>5 DEF ReceiveFile, FilesReceived, AfterFiles, FinalAnswered, StatusOnly,
                    ReturnStatus, Return, Goto
    <2> QED
        BY <2>1, <2>2, <2>3, <2>4, <2>5 DEF Next, main, AnswerTaken, ServerSteps
<1> QED
    BY <1>1 DEF AnswersTaken

LEMMA InStepInit ==
    ASSUME Init
    PROVE  InStepInv
<1>1. Typed /\ Listed
    BY TypedInit, ListedInit
<1>2. Stream = <<>> /\ Opened = {}
    <2>1. <<>> \o <<>> = <<>>
        BY EmptySeq, ConcatEmptySeq
    <2>2. ToSet(<<>>) = {}
        BY EmptySeq DEF ToSet
    <2> QED
        BY <2>1, <2>2 DEF Init, Stream, Opened
<1>3. Conversation
    BY <1>2 DEF Init, Conversation, Silence, Agree, Told, Asking
<1> QED
    BY <1>1, <1>3 DEF Init, InStepInv, AnswersTaken, InConversation

LEMMA InStepStep ==
    ASSUME InStepInv, [Next]_vars
    PROVE  InStepInv'
<1>1. Typed /\ Typed' /\ Listed /\ Listed' /\ AnswersTaken /\ InConversation
    BY TypedStep, ListedStep DEF InStepInv
<1>2. AnswersTaken' /\ InConversation'
    <2>1. CASE leftover # NoCall
        BY <1>1, <2>1, LeftBehind DEF InConversation
    <2>2. CASE leftover = NoCall /\ up
        BY <1>1, <2>2, ConversationStep DEF InConversation
    <2>3. CASE leftover = NoCall /\ ~up
        BY <1>1, <2>3, RemainsStep DEF InConversation
    <2> QED
        BY <2>1, <2>2, <2>3
<1> QED
    BY <1>1, <1>2 DEF InStepInv

LEMMA InStepCorrect == Spec => []InStepInv
<1>1. Init => InStepInv
    BY InStepInit
<1>2. InStepInv /\ [Next]_vars => InStepInv'
    BY InStepStep
<1> QED
    BY <1>1, <1>2, PTL DEF Spec

\* Whatever the program calls, and whenever the server ends, a call that returns
\* has taken the whole of its answer from the socket: of a write the number, that
\* many files and one response more.  The exceptions are appendToFile, which is
\* answered twice, readNFiles, which never receives its last response, and a
\* call that cannot make its directory.
THEOREM NoAnswerLeft == Spec => []AnswersTaken
<1>1. InStepInv => AnswersTaken
    BY DEF InStepInv
<1> QED
    BY <1>1, InStepCorrect, PTL

\* Until such an answer was left behind, and while the server lives, a call that
\* returns 0 was carried out: what the client took for the answer was sent for
\* its last request, although no response names the request it answers.  The one
\* exception is a removeFile of a file that storage_remove_file did not find in
\* the eviction queue: the worker ignores that, and answers SUCCESS.
THEOREM ZeroMeansDone == Spec => []SuccessIsRealInStep
<1>1. InStepInv => SuccessIsRealInStep
    BY DEF InStepInv, SuccessIsRealInStep, InStep, InConversation, Conversation, Finished
<1> QED
    BY <1>1, InStepCorrect, PTL

\* Under the same conditions opened_files is, between two calls, what the server
\* has told this client: the files it has open, as openFile, removeFile and each
\* file that a write of this client expelled change them, and those that it
\* removed without a word when it refused a write above the capacity.
THEOREM ListsAgree == Spec => []OpenedAgree
<1>1. InStepInv => OpenedAgree
    BY DEF InStepInv, OpenedAgree, InStep, InConversation, Conversation, Agree, Told, Opened,
           Listed
<1> QED
    BY <1>1, InStepCorrect, PTL
=============================================================================
