----------------------------- MODULE GraphCalls -----------------------------
(***************************************************************************)
(* The requests behind the writing calls of the Graph adapter              *)
(* (crates/onesync-graph/src: upload/small.rs, upload/session.rs, ops.rs,  *)
(* client.rs): one PUT for a small file, a session of chunks with resume   *)
(* after 416 for a large one, POST and GET for a folder.  Requests are     *)
(* refused, answers get lost, and the server of a session may keep less    *)
(* than it was sent.  Bytes are their positions in the file.               *)
(***************************************************************************)
EXTENDS Integers

CONSTANTS
  Names,        \* names in one folder of the drive
  NumChunks,
  Begin,        \* Begin[i]: first byte of chunk i; Begin[NumChunks + 1] = total_size
  MaxResumes    \* RETRY_MAX_ATTEMPTS

Chunks == 1..NumChunks

ASSUME ConstantsAssumption ==
  /\ NumChunks \in Nat \ {0} /\ MaxResumes \in Nat
  /\ Begin \in [1..(NumChunks + 1) -> Nat]
  /\ Begin[1] = 0 /\ \A i, j \in 1..(NumChunks + 1) : i < j => Begin[i] < Begin[j]

total_size == Begin[NumChunks + 1]

VARIABLES
  item,             \* the drive: what it has under each name
  call, effect, answer,
  pc,               \* the request the call is waiting for
  resp,             \* the answer on its way, "none" until the server has acted
  stored,           \* the session: bytes the server has, from the first on
  exact,            \* ... each of them the file's byte of that position
  offset, chunk_index, chunk_start, resume_attempts

drive == <<item, call, effect, answer>>
session == <<stored, exact>>
cursor == <<offset, chunk_index, chunk_start, resume_attempts>>
vars == <<drive, pc, resp, session, cursor>>

NoCall == [op |-> "none"]

Op == {"upload", "mkdir", "delete", "rename"}

Init ==
  /\ item \in [Names -> {"none", "folder", "old"}]
  /\ call = NoCall /\ effect = FALSE /\ answer = "none"
  /\ pc = "idle" /\ resp = "none" /\ stored = 0 /\ exact = TRUE
  /\ offset = 0 /\ chunk_index = 1 /\ chunk_start = 0 /\ resume_attempts = 0

\* The adapter is called and sends its first request.
Invoke(o, n, m) ==
  /\ pc = "idle"
  /\ call' = [op |-> o, name |-> n, to |-> m] /\ effect' = FALSE
  /\ pc' \in CASE o = "upload" -> {"small", "create"}
               [] o = "mkdir"  -> {"post"}
               [] o = "delete" -> {"delete"}
               [] o = "rename" -> {"patch"}
  /\ resp' = "none"
  /\ UNCHANGED <<item, answer, session, cursor>>

\* The call returns; its locals are gone, a session that is not complete expires.
Return(a) ==
  /\ answer' = a /\ call' = NoCall /\ effect' = FALSE
  /\ pc' = "idle" /\ resp' = "none"
  /\ stored' = 0 /\ exact' = TRUE
  /\ offset' = 0 /\ chunk_index' = 1 /\ chunk_start' = 0 /\ resume_attempts' = 0
  /\ UNCHANGED item

-----------------------------------------------------------------------------
\* The server has a request to act on.
Asked(p) == pc = p /\ resp = "none"

\* The drive changes for the call, and the answer says so.
Takes(v) ==
  /\ item' = v /\ effect' = TRUE
  /\ UNCHANGED <<call, answer, pc, session, cursor>>

\* `replace': whatever file was there before; a folder cannot be replaced.
ServeSmall ==
  /\ Asked("small") /\ item[call.name] # "folder"
  /\ Takes([item EXCEPT ![call.name] = "new"]) /\ resp' = "done"

ServeCreate ==
  /\ Asked("create") /\ resp' = "created"
  /\ UNCHANGED <<drive, pc, session, cursor>>

\* Mutant: the chunk is sent from its first byte on, whatever the offset.
first_byte_Whole == Begin[chunk_index]

\* chunk.slice(offset - chunk_start ..): the position in the file of the first byte
\* of the body whose Content-Range begins at offset.
first_byte == Begin[chunk_index] + (offset - chunk_start)

chunk_len == Begin[chunk_index + 1] - first_byte

\* The server takes the bytes it expects next, at least one of them; with the last
\* byte the session becomes the file.
ServePut ==
  /\ Asked("put") /\ offset = stored
  /\ \E k \in 1..chunk_len :
       /\ stored' = stored + k
       /\ exact' = (exact /\ first_byte = offset)
       /\ IF stored + k < total_size
            THEN resp' = "accepted" /\ UNCHANGED <<item, effect>>
            ELSE /\ item[call.name] # "folder"
                 /\ item' = [item EXCEPT ![call.name] = IF exact' THEN "new" ELSE "torn"]
                 /\ effect' = TRUE /\ resp' = "done"
  /\ UNCHANGED <<call, answer, pc, cursor>>

\* 416: not the bytes the server expects (or so it says).
ServeRange ==
  /\ Asked("put") /\ resp' = "range"
  /\ UNCHANGED <<drive, pc, session, cursor>>

\* nextExpectedRanges.
ServeQuery ==
  /\ Asked("query") /\ resp' = "expected"
  /\ UNCHANGED <<drive, pc, session, cursor>>

\* The server drops bytes it has acknowledged.
ServerForgets ==
  /\ pc \in {"put", "query"} /\ stored < total_size
  /\ \E k \in 0..(stored - 1) : stored' = k
  /\ UNCHANGED <<drive, pc, resp, exact, cursor>>

\* conflictBehavior `fail': 409 when the name is taken.
ServePost ==
  /\ Asked("post")
  /\ \/ /\ item[call.name] = "none"
        /\ Takes([item EXCEPT ![call.name] = "folder"]) /\ resp' = "done"
     \/ /\ item[call.name] # "none" /\ resp' = "conflict"
        /\ UNCHANGED <<drive, pc, session, cursor>>

\* The GET after a 409 shows what is there now.
ServeExisting ==
  /\ Asked("existing") /\ item[call.name] # "none"
  /\ resp' = IF item[call.name] = "folder" THEN "folder" ELSE "file"
  /\ effect' = (item[call.name] = "folder")
  /\ UNCHANGED <<item, call, answer, pc, session, cursor>>

ServeDelete ==
  /\ Asked("delete") /\ item[call.name] # "none"
  /\ Takes([item EXCEPT ![call.name] = "none"]) /\ resp' = "done"

ServePatch ==
  /\ Asked("patch") /\ item[call.name] # "none" /\ item[call.to] = "none"
  /\ Takes([item EXCEPT ![call.name] = "none", ![call.to] = item[call.name]])
  /\ resp' = "done"

\* The request is refused (check_status maps the code to an error), does not
\* arrive, or its answer is lost or cannot be decoded.
Refuse ==
  /\ pc # "idle" /\ resp # "error" /\ resp' = "error"
  /\ UNCHANGED <<drive, pc, session, cursor>>

-----------------------------------------------------------------------------
\* Any error is returned to the caller, which may call again.
Fails == resp = "error" /\ Return("error")

Succeeds == resp \in {"done", "folder"} /\ Return("ok")

\* mkdir: after a 409 it asks for the item, and takes it only if it is a folder.
mkdir ==
  \/ /\ resp = "conflict" /\ pc' = "existing" /\ resp' = "none"
     /\ UNCHANGED <<drive, session, cursor>>
  \/ resp = "file" /\ Return("error")

\* The session is open: the first chunk.
Created ==
  /\ resp = "created" /\ pc' = "put" /\ resp' = "none"
  /\ UNCHANGED <<drive, session, cursor>>

\* The loop over the chunks: the next PUT, or an error when none is left.
Loop(o, i, s) ==
  IF i <= NumChunks
    THEN /\ pc' = "put" /\ resp' = "none"
         /\ offset' = o /\ chunk_index' = i /\ chunk_start' = s
         /\ UNCHANGED <<drive, session, resume_attempts>>
    ELSE Return("error")

\* 202: past these bytes, whatever the server says it has.  The slice runs to the
\* end of the chunk, so the next one follows.
Accepted ==
  /\ resp = "accepted"
  /\ Loop(offset + chunk_len, chunk_index + 1, offset + chunk_len)

\* Mutant: the attempts are not counted.
RangeRefused_Unbounded ==
  /\ resp = "range"
  /\ pc' = "query" /\ resp' = "none"
  /\ UNCHANGED <<drive, session, cursor>>

\* Mutant: the attempts are compared before they are counted.
RangeRefused_OneMore ==
  /\ resp = "range"
  /\ IF resume_attempts > MaxResumes
       THEN Return("error")
       ELSE /\ resume_attempts' = resume_attempts + 1
            /\ pc' = "query" /\ resp' = "none"
            /\ UNCHANGED <<drive, session, offset, chunk_index, chunk_start>>

\* 416: ask the session what it expects, a bounded number of times.
RangeRefused ==
  /\ resp = "range"
  /\ IF resume_attempts + 1 > MaxResumes
       THEN Return("error")
       ELSE /\ resume_attempts' = resume_attempts + 1
            /\ pc' = "query" /\ resp' = "none"
            /\ UNCHANGED <<drive, session, offset, chunk_index, chunk_start>>

\* Mutant: the chunk after the offset, as it was before RP2-F1.
find_chunk_index_Next(o) ==
  IF \E i \in Chunks : o <= Begin[i]
    THEN CHOOSE i \in Chunks : o <= Begin[i] /\ \A j \in Chunks : o <= Begin[j] => i <= j
    ELSE NumChunks + 1

\* The chunk that holds the offset.
find_chunk_index(o) ==
  IF \E i \in Chunks : Begin[i] <= o /\ o < Begin[i + 1]
    THEN CHOOSE i \in Chunks : Begin[i] <= o /\ o < Begin[i + 1]
    ELSE NumChunks + 1

\* Resume at the first byte the server expects.
Resume ==
  /\ resp = "expected"
  /\ Loop(stored, find_chunk_index(stored), Begin[find_chunk_index(stored)])

-----------------------------------------------------------------------------
\* Other people write their own files and folders, or delete and move this one.
Others ==
  /\ \E n \in Names, v \in {"none", "folder", "old"} : item' = [item EXCEPT ![n] = v]
  /\ UNCHANGED <<call, effect, answer, pc, resp, session, cursor>>

Serve ==
  \/ ServeSmall \/ ServeCreate \/ ServePut \/ ServeRange \/ ServeQuery \/ ServePost
  \/ ServeExisting \/ ServeDelete \/ ServePatch \/ Refuse

Client == Fails \/ Succeeds \/ mkdir \/ Created \/ Accepted \/ RangeRefused \/ Resume

Next ==
  \/ \E o \in Op, n, m \in Names : Invoke(o, n, m)
  \/ Serve \/ Client
  \/ ServerForgets \/ Others

\* Every request is answered or fails, and the client's task is polled.
Spec == Init /\ [][Next]_vars /\ WF_vars(Serve) /\ WF_vars(Client)

-----------------------------------------------------------------------------
TypeOK ==
  /\ item \in [Names -> {"none", "folder", "old", "new", "torn"}]
  /\ call \in {[op |-> o, name |-> n, to |-> m] : o \in Op, n \in Names, m \in Names} \cup {NoCall}
  /\ (call = NoCall) <=> (pc = "idle")
  /\ effect \in BOOLEAN /\ answer \in {"none", "ok", "error"}
  /\ pc \in {"idle", "small", "create", "put", "query", "post", "existing", "delete", "patch"}
  /\ resp \in {"none", "done", "created", "accepted", "range", "expected", "conflict", "folder",
               "file", "error"}
  /\ stored \in 0..total_size /\ exact \in BOOLEAN
  /\ offset \in 0..total_size /\ chunk_index \in Chunks /\ chunk_start \in 0..total_size
  /\ resume_attempts \in 0..MaxResumes

\* Wherever the server makes an upload resume, the slice of the chunk that is sent
\* next exists and is not empty: no subtraction underflows and no slice panics.
SliceInBounds ==
  pc = "put" =>
    /\ chunk_start <= offset
    /\ offset - chunk_start < Begin[chunk_index + 1] - Begin[chunk_index]

Abstract == INSTANCE DriveOps WITH Names <- Names, item <- item, call <- call, effect <- effect,
                                   answer <- answer

\* Each call implements the atomic operation of DriveOps: a session whose chunks are
\* accepted in part, refused and resumed never leaves a file with other bytes than
\* the local one, and mkdir does not report a file as its folder.
Atomic == Abstract!Spec

\* What is left of a call: the requests that may follow the present one, and how
\* far that one is.
Follows ==
  CASE pc = "idle"                                              -> 0
    [] pc \in {"put", "small", "existing", "delete", "patch"}   -> 1
    [] pc \in {"query", "post"}                                 -> 2
    [] pc = "create"                                            -> 3

Turn ==
  CASE resp = "none"                -> 2
    [] resp \notin {"none", "error"} -> 1
    [] resp = "error"               -> 0

CallCloser ==
  \/ pc' = "idle"
  \/ resume_attempts' > resume_attempts
  \/ /\ resume_attempts' = resume_attempts
     /\ \/ Follows' < Follows
        \/ Follows' = Follows /\ chunk_index' > chunk_index
        \/ Follows' = Follows /\ chunk_index' = chunk_index /\ Turn' < Turn

\* A call sends a bounded number of requests, whatever the server answers: each
\* step of the client and each answer brings the call closer to its end (the
\* attempts, the kind of request, the chunk and the answer in this order), and
\* what others do to the drive or the server to the session does not set it back.
CallDescends ==
  [][pc # "idle" =>
       CallCloser \/ ((ServerForgets \/ Others) /\ UNCHANGED <<pc, resp, cursor>>)]_vars

\* Every call returns, however often the server refuses a range.
CallReturns == pc # "idle" ~> pc = "idle"
=============================================================================
