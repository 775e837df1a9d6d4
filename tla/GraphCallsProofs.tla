-------------------------- MODULE GraphCallsProofs --------------------------
(***************************************************************************)
(* The adapter's calls implement DriveOps, for every file, chunking and    *)
(* number of resumes.  The invariant behind it is that the cursor of an    *)
(* upload session always points into the chunk it names (CursorOK), so     *)
(* that what is sent at an offset is the file's byte of that offset, and   *)
(* that the drive has changed for a call exactly when its answer says so   *)
(* or was lost (AnswerOK).                                                 *)
(***************************************************************************)
EXTENDS GraphCalls, TLAPS

CursorOK ==
  /\ chunk_start = Begin[chunk_index]
  /\ Begin[chunk_index] <= offset /\ offset < Begin[chunk_index + 1]

AnswerOK ==
  /\ effect => resp \in {"done", "folder", "error"}
  /\ resp \in {"done", "folder"} => effect
  /\ pc = "idle" => resp = "none"

\* Which operation sends which request.
OpOK ==
  /\ pc \in {"small", "create", "put", "query"} => call.op = "upload"
  /\ pc \in {"post", "existing"} => call.op = "mkdir"
  /\ pc = "delete" => call.op = "delete"
  /\ pc = "patch" => call.op = "rename"

\* Which request each answer belongs to, as far as a step depends on it.
RespOK ==
  /\ resp = "created" => pc = "create"
  /\ resp \in {"accepted", "range"} => pc = "put"
  /\ resp = "expected" => pc = "query"
  /\ resp = "conflict" => pc = "post"
  /\ resp = "file" => pc = "existing"

Inv ==
  /\ TypeOK /\ CursorOK /\ AnswerOK /\ OpOK /\ RespOK
  /\ exact = TRUE /\ \A n \in Names : item[n] # "torn"

-----------------------------------------------------------------------------
\* The chunks cover the file.
LEMMA ChunkBounds ==
  /\ total_size \in Nat /\ 0 < total_size
  /\ \A i \in Chunks : /\ i + 1 \in 1..(NumChunks + 1) /\ Begin[i] \in Nat /\ Begin[i + 1] \in Nat
                       /\ Begin[i] < Begin[i + 1] /\ Begin[i + 1] <= total_size
<1>1. \A i \in Chunks : i \in 1..(NumChunks + 1) /\ i + 1 \in 1..(NumChunks + 1) /\ i < i + 1
  BY ConstantsAssumption DEF Chunks
<1>2. \A i \in Chunks : Begin[i] \in Nat /\ Begin[i + 1] \in Nat /\ Begin[i] < Begin[i + 1]
  BY <1>1, ConstantsAssumption
<1>3. NumChunks + 1 \in 1..(NumChunks + 1) /\ 1 \in 1..(NumChunks + 1) /\ 1 < NumChunks + 1
  BY ConstantsAssumption
<1>4. total_size \in Nat /\ 0 < total_size
  BY <1>3, ConstantsAssumption DEF total_size
<1>5. \A i \in Chunks : Begin[i + 1] <= total_size
  <2> TAKE i \in Chunks
  <2>1. i + 1 < NumChunks + 1 \/ i + 1 = NumChunks + 1
    BY ConstantsAssumption DEF Chunks
  <2>2. CASE i + 1 < NumChunks + 1
    BY <1>1, <1>2, <1>3, <1>4, <2>2, ConstantsAssumption DEF total_size
  <2>3. CASE i + 1 = NumChunks + 1
    BY <1>4, <2>3 DEF total_size
  <2> QED
    BY <2>1, <2>2, <2>3
<1> QED
  BY <1>1, <1>2, <1>4, <1>5

\* The body sent at an offset begins with the file's byte of that offset, and runs
\* to the end of its chunk.
LEMMA SliceExact ==
  ASSUME Inv
  PROVE  /\ first_byte = offset /\ chunk_len = Begin[chunk_index + 1] - offset
         /\ chunk_len \in Nat /\ 0 < chunk_len /\ offset + chunk_len = Begin[chunk_index + 1]
         /\ offset + chunk_len <= total_size
BY ChunkBounds DEF Inv, TypeOK, CursorOK, first_byte, chunk_len

\* A call returns: everything is as before a call.
LEMMA ReturnKeeps ==
  ASSUME Inv, NEW a \in {"ok", "error"}, Return(a)
  PROVE  Inv'
<1>1. TypeOK'
  <2>1. 0 \in 0..total_size /\ 1 \in Chunks /\ 0 \in 0..MaxResumes
    BY ChunkBounds, ConstantsAssumption DEF Chunks
  <2>2. /\ item \in [Names -> {"none", "folder", "old", "new", "torn"}] /\ item' = item
        /\ call' = NoCall /\ effect' = FALSE /\ answer' \in {"ok", "error"}
        /\ pc' = "idle" /\ resp' = "none" /\ stored' = 0 /\ exact' = TRUE
        /\ offset' = 0 /\ chunk_index' = 1 /\ chunk_start' = 0 /\ resume_attempts' = 0
    BY DEF Inv, TypeOK, Return
  <2>3. call' \in {[op |-> o, name |-> n, to |-> m] : o \in Op, n \in Names, m \in Names} \cup {NoCall}
    BY <2>2
  <2>4. effect' \in BOOLEAN /\ exact' \in BOOLEAN
    BY <2>2
  <2>5. (call' = NoCall) <=> (pc' = "idle")
    BY <2>2
  <2> QED
    BY <2>1, <2>2, <2>3, <2>4, <2>5 DEF TypeOK
<1>2. CursorOK'
  BY ChunkBounds, ConstantsAssumption DEF CursorOK, Return, Chunks
<1> QED
  BY <1>1, <1>2 DEF Inv, Return, AnswerOK, OpOK, RespOK

\* The server acts on a request.
LEMMA ServeKeeps == ASSUME Inv, Serve PROVE Inv'
<1>1. ASSUME UNCHANGED <<call, answer, pc, session, cursor>>, effect' \in BOOLEAN,
             item' \in [Names -> {"none", "folder", "old", "new"}],
             resp' \in {"none", "done", "created", "accepted", "range", "expected", "conflict",
                       "folder", "file", "error"},
             pc # "idle", effect' => resp' \in {"done", "folder", "error"},
             resp' \in {"done", "folder"} => effect',
             resp' = "created" => pc = "create", resp' \in {"accepted", "range"} => pc = "put",
             resp' = "expected" => pc = "query", resp' = "conflict" => pc = "post",
             resp' = "file" => pc = "existing"
      PROVE  Inv'
  BY <1>1 DEF Inv, TypeOK, CursorOK, AnswerOK, OpOK, RespOK, session, cursor
<1>2. item \in [Names -> {"none", "folder", "old", "new"}] /\ effect \in BOOLEAN
  BY DEF Inv, TypeOK
<1>3. resp = "none" => ~effect
  BY DEF Inv, AnswerOK
<1>4. ASSUME NEW p, Asked(p), p # "idle" PROVE pc = p /\ resp = "none" /\ ~effect /\ pc # "idle"
  BY <1>3, <1>4 DEF Asked
<1>5. ASSUME NEW v, Takes(v) PROVE item' = v /\ effect' = TRUE /\ UNCHANGED <<call, answer, pc, session, cursor>>
  BY <1>5 DEF Takes
<1>6. pc # "idle" => call.name \in Names /\ call.to \in Names
  BY DEF Inv, TypeOK
<1>7. CASE ServeSmall
  BY <1>1, <1>2, <1>7 DEF ServeSmall, Asked, Takes
<1>8. CASE ServeCreate
  BY <1>1, <1>2, <1>4, <1>8 DEF ServeCreate, Asked, drive
<1>9. CASE ServePut
  <2>1. PICK k \in 1..chunk_len :
          /\ stored' = stored + k
          /\ exact' = (exact /\ first_byte = offset)
          /\ IF stored + k < total_size
               THEN resp' = "accepted" /\ UNCHANGED <<item, effect>>
               ELSE /\ item[call.name] # "folder"
                    /\ item' = [item EXCEPT ![call.name] = IF exact' THEN "new" ELSE "torn"]
                    /\ effect' = TRUE /\ resp' = "done"
    BY <1>9 DEF ServePut
  <2>2. /\ pc = "put" /\ resp = "none" /\ offset = stored
        /\ UNCHANGED <<call, answer, pc, cursor>>
    BY <1>9 DEF ServePut, Asked
  <2>3. exact' = TRUE /\ stored' \in 0..total_size
    <3>1. exact' = TRUE
      BY <2>1, SliceExact DEF Inv
    <3>2. stored \in Nat /\ stored + k <= total_size /\ k \in Nat
      BY <2>2, SliceExact, ChunkBounds DEF Inv, TypeOK
    <3> QED
      BY <2>1, <3>1, <3>2, ChunkBounds
  <2>4. item' \in [Names -> {"none", "folder", "old", "new"}]
    BY <1>2, <2>1, <2>3
  <2>5. /\ effect' \in BOOLEAN /\ resp' \in {"accepted", "done"}
        /\ (effect' <=> (resp' = "done"))
    BY <1>2, <1>3, <2>1, <2>2
  <2> QED
    BY <2>2, <2>3, <2>4, <2>5 DEF Inv, TypeOK, CursorOK, AnswerOK, OpOK, RespOK, cursor
<1>10. CASE ServeRange \/ ServeQuery
  BY <1>1, <1>2, <1>3, <1>10 DEF ServeRange, ServeQuery, Asked, drive
<1>11. CASE ServePost
  <2>1. CASE item[call.name] = "none"
    BY <1>1, <1>2, <1>11, <2>1 DEF ServePost, Asked, Takes
  <2>2. CASE item[call.name] # "none"
    BY <1>1, <1>2, <1>3, <1>11, <2>2 DEF ServePost, Asked, drive
  <2> QED
    BY <2>1, <2>2
<1>12. CASE ServeExisting
  BY <1>1, <1>2, <1>12 DEF ServeExisting, Asked
<1>13. CASE ServeDelete
  BY <1>1, <1>2, <1>13 DEF ServeDelete, Asked, Takes
<1>14. CASE ServePatch
  <2>1. item' = [item EXCEPT ![call.name] = "none", ![call.to] = item[call.name]] /\ pc = "patch"
    BY <1>14 DEF ServePatch, Asked, Takes
  <2>2. item' \in [Names -> {"none", "folder", "old", "new"}]
    BY <1>2, <1>6, <2>1
  <2> QED
    BY <1>1, <1>14, <2>1, <2>2 DEF ServePatch, Takes
<1>15. CASE Refuse
  BY <1>1, <1>2, <1>15 DEF Refuse, drive
<1> QED
  BY <1>7, <1>8, <1>9, <1>10, <1>11, <1>12, <1>13, <1>14, <1>15 DEF Serve

\* The client reads an answer.
LEMMA ClientKeeps == ASSUME Inv, Client PROVE Inv'
<1>1. CASE Fails \/ Succeeds
  BY <1>1, ReturnKeeps DEF Fails, Succeeds
<1>2. CASE mkdir
  <2>1. CASE resp = "file"
    BY <1>2, <2>1, ReturnKeeps DEF mkdir
  <2>2. CASE resp = "conflict"
    BY <1>2, <2>2 DEF mkdir, drive, session, cursor, Inv, TypeOK, CursorOK, AnswerOK, OpOK, RespOK
  <2> QED
    BY <1>2, <2>1, <2>2 DEF mkdir
<1>3. CASE Created
  BY <1>3 DEF Created, drive, session, cursor, Inv, TypeOK, CursorOK, AnswerOK, OpOK, RespOK
<1>4. ASSUME resp \in {"accepted", "range", "expected"},
             NEW o, NEW i, NEW s, Loop(o, i, s),
             i \in Chunks => s = Begin[i] /\ Begin[i] <= o /\ o < Begin[i + 1] /\ o \in Nat,
             i \in 1..(NumChunks + 1)
      PROVE  Inv'
  <2>1. CASE i <= NumChunks
    <3>1. i \in Chunks
      BY <1>4, <2>1 DEF Chunks
    <3>2. s \in 0..total_size /\ o \in 0..total_size
      BY <1>4, <3>1, ChunkBounds
    <3>3. /\ pc' = "put" /\ resp' = "none" /\ offset' = o /\ chunk_index' = i /\ chunk_start' = s
          /\ UNCHANGED <<item, call, effect, answer, stored, exact, resume_attempts>>
      BY <1>4, <2>1 DEF Loop, drive, session
    <3>4. call.op = "upload" /\ ~effect /\ pc # "idle"
      BY <1>4 DEF Inv, AnswerOK, OpOK, RespOK
    <3>5. TypeOK'
      BY <3>1, <3>2, <3>3, <3>4 DEF Inv, TypeOK
    <3> QED
      BY <1>4, <3>1, <3>3, <3>4, <3>5 DEF Inv, CursorOK, AnswerOK, OpOK, RespOK
  <2>2. CASE ~(i <= NumChunks)
    BY <1>4, <2>2, ReturnKeeps DEF Loop
  <2> QED
    BY <2>1, <2>2
<1>5. CASE Accepted
  <2> DEFINE i == chunk_index + 1
  <2>1. i \in 1..(NumChunks + 1) /\ offset + chunk_len = Begin[i]
    BY SliceExact, ConstantsAssumption DEF Inv, TypeOK, Chunks
  <2>2. i \in Chunks => Begin[i] \in Nat /\ Begin[i] < Begin[i + 1]
    BY ChunkBounds
  <2>3. Loop(Begin[i], i, Begin[i]) /\ resp = "accepted"
    BY <1>5, <2>1 DEF Accepted
  <2> HIDE DEF i
  <2> QED
    BY <1>4, <2>1, <2>2, <2>3
<1>6. CASE RangeRefused
  <2>1. CASE resume_attempts + 1 > MaxResumes
    BY <1>6, <2>1, ReturnKeeps DEF RangeRefused
  <2>2. CASE ~(resume_attempts + 1 > MaxResumes)
    BY <1>6, <2>2, ConstantsAssumption
    DEF RangeRefused, drive, session, Inv, TypeOK, CursorOK, AnswerOK, OpOK, RespOK
  <2> QED
    BY <2>1, <2>2
<1>7. CASE Resume
  <2> DEFINE i == find_chunk_index(stored)
  <2>1. \/ i \in Chunks /\ Begin[i] <= stored /\ stored < Begin[i + 1]
        \/ i = NumChunks + 1
    BY DEF find_chunk_index
  <2>2. i \in 1..(NumChunks + 1) /\ (i = NumChunks + 1 => i \notin Chunks) /\ stored \in Nat
    BY <2>1, ConstantsAssumption, ChunkBounds DEF Inv, Chunks, TypeOK
  <2> HIDE DEF i
  <2>3. Loop(stored, i, Begin[i]) /\ resp = "expected"
    BY <1>7 DEF Resume, i
  <2> QED
    BY <1>4, <2>1, <2>2, <2>3
<1> QED
  BY <1>1, <1>2, <1>3, <1>5, <1>6, <1>7 DEF Client

\* A call begins, the server of a session drops bytes, or somebody else writes.
LEMMA RestKeeps ==
  ASSUME Inv, \/ \E o \in Op, n, m \in Names : Invoke(o, n, m)
              \/ ServerForgets \/ Others
  PROVE  Inv'
<1>1. ASSUME NEW o \in Op, NEW n \in Names, NEW m \in Names, Invoke(o, n, m) PROVE Inv'
  <2>1. /\ call' = [op |-> o, name |-> n, to |-> m] /\ effect' = FALSE /\ resp' = "none"
        /\ UNCHANGED <<item, answer, stored, exact, offset, chunk_index, chunk_start, resume_attempts>>
    BY <1>1 DEF Invoke, session, cursor
  <2>2. \/ o = "upload" /\ pc' \in {"small", "create"}
        \/ o = "mkdir" /\ pc' = "post"
        \/ o = "delete" /\ pc' = "delete"
        \/ o = "rename" /\ pc' = "patch"
    BY <1>1 DEF Invoke, Op
  <2>3. call'.op = o /\ call' # NoCall
    <3>1. call'.op = o /\ NoCall.op = "none" /\ o # "none"
      BY <2>1 DEF NoCall, Op
    <3> QED
      BY <3>1
  <2>4. TypeOK'
    <3>1. call' \in {[op |-> x, name |-> y, to |-> z] : x \in Op, y \in Names, z \in Names} \cup {NoCall}
      BY <2>1
    <3>2. effect' \in BOOLEAN /\ exact' \in BOOLEAN
      BY <2>1 DEF Inv
    <3>3. pc' \in {"small", "create", "post", "delete", "patch"}
      BY <2>2
    <3> QED
      BY <2>1, <2>3, <3>1, <3>2, <3>3 DEF Inv, TypeOK
  <2> QED
    BY <2>1, <2>2, <2>3, <2>4 DEF Inv, CursorOK, AnswerOK, OpOK, RespOK
<1>2. CASE ServerForgets
  <2>1. stored' \in 0..total_size
    BY <1>2, ChunkBounds DEF ServerForgets, Inv, TypeOK
  <2>2. UNCHANGED <<item, call, effect, answer, pc, resp, exact, offset, chunk_index, chunk_start,
                    resume_attempts>>
    BY <1>2 DEF ServerForgets, drive, cursor
  <2> QED
    BY <2>1, <2>2 DEF Inv, TypeOK, CursorOK, AnswerOK, OpOK, RespOK
<1>3. CASE Others
  <2>1. PICK n \in Names, v \in {"none", "folder", "old"} : item' = [item EXCEPT ![n] = v]
    BY <1>3 DEF Others
  <2>2. UNCHANGED <<call, effect, answer, pc, resp, stored, exact, offset, chunk_index, chunk_start,
                    resume_attempts>>
    BY <1>3 DEF Others, session, cursor
  <2>3. /\ item' \in [Names -> {"none", "folder", "old", "new", "torn"}]
        /\ \A x \in Names : item'[x] # "torn"
    BY <2>1 DEF Inv, TypeOK
  <2> QED
    BY <2>2, <2>3 DEF Inv, TypeOK, CursorOK, AnswerOK, OpOK, RespOK
<1> QED
  BY <1>1, <1>2, <1>3

\* The invariant holds before the first call.
LEMMA InitInv == Init => Inv
<1> SUFFICES ASSUME Init PROVE Inv
  OBVIOUS
<1>1. 0 \in 0..total_size /\ 1 \in Chunks /\ 0 \in 0..MaxResumes
  BY ChunkBounds, ConstantsAssumption DEF Chunks
<1>2. effect \in BOOLEAN /\ exact \in BOOLEAN
  BY DEF Init
<1>3. TypeOK
  BY <1>1, <1>2 DEF Init, TypeOK
<1>4. CursorOK
  BY <1>1, ChunkBounds, ConstantsAssumption DEF Init, CursorOK
<1> QED
  BY <1>3, <1>4 DEF Inv, Init, AnswerOK, OpOK, RespOK

\* Every step keeps the invariant.
LEMMA NextInv == Inv /\ [Next]_vars => Inv'
<1> SUFFICES ASSUME Inv, [Next]_vars PROVE Inv'
  OBVIOUS
<1>1. CASE Next
  BY <1>1, ServeKeeps, ClientKeeps, RestKeeps DEF Next
<1>2. CASE UNCHANGED vars
  BY <1>2 DEF vars, drive, session, cursor, Inv, TypeOK, CursorOK, AnswerOK, OpOK, RespOK
<1> QED
  BY <1>1, <1>2

\* The inductive invariant holds in every state.
LEMMA Always == Spec => []Inv
BY InitInv, NextInv, PTL DEF Spec

\* A call, its answer and its cursor keep their types, and an upload resumes at most
\* RETRY_MAX_ATTEMPTS times.
THEOREM TypeCorrect == Spec => []TypeOK
BY Always, PTL DEF Inv

\* Whatever the chunks of an upload, the answers of the server and the bytes it
\* forgets, no slice of a chunk is out of its bounds.
THEOREM UploadInBounds == Spec => []SliceInBounds
<1>1. Inv => SliceInBounds
  <2> SUFFICES ASSUME Inv PROVE SliceInBounds
    OBVIOUS
  <2>1. chunk_start = Begin[chunk_index] /\ chunk_start <= offset
        /\ offset < Begin[chunk_index + 1]
    BY DEF Inv, CursorOK
  <2>2. offset \in Nat /\ Begin[chunk_index] \in Nat /\ Begin[chunk_index + 1] \in Nat
    BY ChunkBounds DEF Inv, TypeOK
  <2> QED
    BY <2>1, <2>2 DEF SliceInBounds
<1> QED
  BY <1>1, Always, PTL

-----------------------------------------------------------------------------
\* A call that answers Ok has taken effect.
LEMMA ReturnRefines ==
  ASSUME Inv, NEW a \in {"ok", "error"}, Return(a), a = "ok" => effect, pc # "idle"
  PROVE  Abstract!Next
<1>1. call \in Abstract!Call /\ Abstract!NoCall = NoCall
  BY DEF Inv, TypeOK, Abstract!Call, Abstract!NoCall, NoCall, Op, Abstract!Op
<1>2. answer' = a /\ call' = NoCall /\ effect' = FALSE /\ item' = item
  BY DEF Return
<1>3. answer' \in IF effect THEN {"ok", "error"} ELSE {"error"}
  BY <1>2
<1> QED
  BY <1>1, <1>2, <1>3 DEF Abstract!Next, Abstract!Return

\* The server's step is the effect of the call or nothing that its caller can see.
LEMMA ServeRefines ==
  ASSUME Inv, Serve
  PROVE  Abstract!Effect \/ UNCHANGED Abstract!vars
<1>1. resp = "none" => effect = FALSE
  BY DEF Inv, TypeOK, AnswerOK
<1>2. pc # "idle" => call \in Abstract!Call
  BY DEF Inv, TypeOK, Abstract!Call, Op, Abstract!Op
<1>3. CASE ServeSmall
  BY <1>1, <1>2, <1>3 DEF ServeSmall, Asked, Takes, Abstract!Effect, Inv, OpOK
<1>4. CASE ServeCreate \/ ServeRange \/ ServeQuery \/ Refuse
  BY <1>4 DEF ServeCreate, ServeRange, ServeQuery, Refuse, drive, Abstract!vars
<1>5. CASE ServePut
  <2>1. exact' = TRUE
    BY <1>5, SliceExact DEF ServePut, Inv
  <2>2. CASE resp' = "accepted"
    BY <1>5, <2>2 DEF ServePut, Abstract!vars
  <2>3. CASE resp' # "accepted"
    <3>1. /\ pc = "put" /\ resp = "none" /\ item[call.name] # "folder"
          /\ item' = [item EXCEPT ![call.name] = "new"]
          /\ effect' = TRUE /\ UNCHANGED <<call, answer>>
      BY <1>5, <2>1, <2>3 DEF ServePut, Asked
    <3> QED
      BY <1>1, <1>2, <3>1 DEF Abstract!Effect, Inv, OpOK
  <2> QED
    BY <2>2, <2>3
<1>6. CASE ServePost
  <2>1. CASE item[call.name] = "none"
    BY <1>1, <1>2, <1>6, <2>1 DEF ServePost, Asked, Takes, Abstract!Effect, Inv, OpOK
  <2>2. CASE item[call.name] # "none"
    BY <1>6, <2>2 DEF ServePost, drive, Abstract!vars
  <2> QED
    BY <2>1, <2>2
<1>7. CASE ServeExisting
  <2>1. CASE item[call.name] = "folder"
    <3>1. pc = "existing" /\ resp = "none" /\ effect' = TRUE /\ UNCHANGED <<item, call, answer>>
      BY <1>7, <2>1 DEF ServeExisting, Asked
    <3>2. [item EXCEPT ![call.name] = "folder"] = item
      BY <2>1 DEF Inv, TypeOK
    <3> QED
      BY <1>1, <1>2, <2>1, <3>1, <3>2 DEF Abstract!Effect, Inv, OpOK
  <2>2. CASE item[call.name] # "folder"
    <3>1. resp = "none" /\ effect' = FALSE /\ UNCHANGED <<item, call, answer>>
      BY <1>7, <2>2 DEF ServeExisting, Asked
    <3> QED
      BY <1>1, <3>1 DEF Abstract!vars
  <2> QED
    BY <2>1, <2>2
<1>8. CASE ServeDelete
  BY <1>1, <1>2, <1>8 DEF ServeDelete, Asked, Takes, Abstract!Effect, Inv, OpOK
<1>9. CASE ServePatch
  BY <1>1, <1>2, <1>9 DEF ServePatch, Asked, Takes, Abstract!Effect, Inv, OpOK
<1> QED
  BY <1>3, <1>4, <1>5, <1>6, <1>7, <1>8, <1>9 DEF Serve

\* What the client does with an answer is the return of the call or nothing.
LEMMA ClientRefines ==
  ASSUME Inv, Client
  PROVE  Abstract!Next \/ UNCHANGED Abstract!vars
<1>1. pc # "idle"
  BY DEF Client, Fails, Succeeds, mkdir, Created, Accepted, RangeRefused, Resume, Inv, AnswerOK
<1>2. ASSUME UNCHANGED drive PROVE UNCHANGED Abstract!vars
  BY <1>2 DEF drive, Abstract!vars
<1>3. ASSUME Return("error") PROVE Abstract!Next
  BY <1>1, <1>3, ReturnRefines
<1>4. CASE Fails
  BY <1>3, <1>4 DEF Fails
<1>5. CASE Succeeds
  BY <1>1, <1>5, ReturnRefines DEF Succeeds, Inv, AnswerOK
<1>6. CASE mkdir
  BY <1>2, <1>3, <1>6 DEF mkdir
<1>7. CASE Created
  BY <1>2, <1>7 DEF Created
<1>8. ASSUME NEW o, NEW i, NEW s, Loop(o, i, s) PROVE Abstract!Next \/ UNCHANGED Abstract!vars
  BY <1>2, <1>3, <1>8 DEF Loop
<1>9. CASE Accepted \/ Resume
  BY <1>8, <1>9 DEF Accepted, Resume
<1>10. CASE RangeRefused
  BY <1>2, <1>3, <1>10 DEF RangeRefused
<1> QED
  BY <1>4, <1>5, <1>6, <1>7, <1>9, <1>10 DEF Client

\* Every call of the adapter behaves as the atomic operation its caller sees.
THEOREM CallsAreAtomic == Spec => Atomic
<1>1. Init => Abstract!Init
  BY DEF Init, Abstract!Init, Abstract!Value, NoCall, Abstract!NoCall
<1>2. Inv /\ [Next]_vars => [Abstract!Next]_(Abstract!vars)
  <2> SUFFICES ASSUME Inv, [Next]_vars PROVE Abstract!Next \/ UNCHANGED Abstract!vars
    OBVIOUS
  <2>1. ASSUME NEW o \in Op, NEW n \in Names, NEW m \in Names, Invoke(o, n, m)
        PROVE  Abstract!Next
    <3>1. call = NoCall /\ NoCall = Abstract!NoCall
      BY <2>1 DEF Invoke, Inv, TypeOK, NoCall, Abstract!NoCall
    <3>2. call' \in Abstract!Call
      BY <2>1 DEF Invoke, Abstract!Call, Op, Abstract!Op
    <3> QED
      BY <2>1, <3>1, <3>2 DEF Invoke, Abstract!Next, Abstract!Invoke
  <2>2. CASE Serve
    BY <2>2, ServeRefines DEF Abstract!Next
  <2>3. CASE Client
    BY <2>3, ClientRefines
  <2>4. CASE ServerForgets
    BY <2>4 DEF ServerForgets, drive, Abstract!vars
  <2>5. CASE Others
    <3>1. Abstract!Others
      BY <2>5 DEF Others, Abstract!Others, Abstract!Value
    <3> QED
      BY <3>1 DEF Abstract!Next
  <2>6. CASE UNCHANGED vars
    BY <2>6 DEF vars, drive, Abstract!vars
  <2> QED
    BY <2>1, <2>2, <2>3, <2>4, <2>5, <2>6 DEF Next
<1> QED
  BY InitInv, NextInv, <1>1, <1>2, PTL DEF Spec, Atomic, Abstract!Spec

-----------------------------------------------------------------------------
\* An answer is the server's only step for a request; it may still get lost.
LEMMA ServeDescends ==
  ASSUME Inv, Serve, pc # "idle"
  PROVE  CallCloser
<1>1. /\ UNCHANGED <<pc, cursor>>
      /\ (resp = "none" /\ resp' # "none") \/ (resp # "error" /\ resp' = "error")
  <2>1. CASE ServePut
    BY <2>1 DEF ServePut, Asked
  <2>2. CASE Refuse
    BY <2>2 DEF Refuse
  <2>3. CASE ServeSmall \/ ServeCreate \/ ServeRange \/ ServeQuery
    BY <2>3 DEF ServeSmall, ServeCreate, ServeRange, ServeQuery, Asked, Takes
  <2>4. CASE ServePost \/ ServeExisting \/ ServeDelete \/ ServePatch
    BY <2>4 DEF ServePost, ServeExisting, ServeDelete, ServePatch, Asked, Takes
  <2> QED
    BY <2>1, <2>2, <2>3, <2>4 DEF Serve
<1>2. Follows' = Follows
  BY <1>1 DEF Follows
<1>3. Turn' < Turn
  BY <1>1 DEF Turn
<1> QED
  BY <1>1, <1>2, <1>3 DEF CallCloser, cursor

\* The client goes on to a request that is closer to the end, or returns.
LEMMA ClientDescends ==
  ASSUME Inv, Client, pc # "idle"
  PROVE  CallCloser
<1>0. TypeOK /\ RespOK
  BY DEF Inv
<1>1. CASE Fails \/ Succeeds \/ (\E a \in {"error"} : Return(a))
  BY <1>1 DEF Fails, Succeeds, Return, CallCloser
<1>2. CASE mkdir
  <2>1. CASE resp = "conflict" /\ pc' = "existing" /\ UNCHANGED cursor
    <3>1. pc = "post"
      BY <1>0, <2>1 DEF RespOK
    <3>2. Follows' < Follows
      BY <2>1, <3>1 DEF Follows
    <3> QED
      BY <2>1, <3>2 DEF CallCloser, cursor
  <2> QED
    BY <1>1, <1>2, <2>1 DEF mkdir
<1>3. CASE Created
  <2>1. pc = "create" /\ pc' = "put" /\ UNCHANGED cursor
    BY <1>0, <1>3 DEF Created, RespOK
  <2>2. Follows' < Follows
    BY <2>1 DEF Follows
  <2> QED
    BY <2>1, <2>2 DEF CallCloser, cursor
<1>4. CASE Accepted
  <2>1. \/ Return("error")
        \/ pc' = "put" /\ chunk_index' = chunk_index + 1 /\ UNCHANGED resume_attempts
    BY <1>4 DEF Accepted, Loop
  <2>2. CASE pc' = "put" /\ chunk_index' = chunk_index + 1 /\ UNCHANGED resume_attempts
    <3>1. pc = "put"
      BY <1>0, <1>4 DEF Accepted, RespOK
    <3>2. Follows' = Follows
      BY <2>2, <3>1 DEF Follows
    <3>3. chunk_index' > chunk_index
      BY <1>0, <2>2, ConstantsAssumption DEF TypeOK, Chunks
    <3> QED
      BY <2>2, <3>2, <3>3 DEF CallCloser
  <2> QED
    BY <1>1, <2>1, <2>2
<1>5. CASE RangeRefused
  <2>1. Return("error") \/ resume_attempts' = resume_attempts + 1
    BY <1>5 DEF RangeRefused
  <2>2. CASE resume_attempts' = resume_attempts + 1
    <3>1. resume_attempts' > resume_attempts
      BY <1>0, <2>2, ConstantsAssumption DEF TypeOK
    <3> QED
      BY <3>1 DEF CallCloser
  <2> QED
    BY <1>1, <2>1, <2>2
<1>6. CASE Resume
  <2>1. Return("error") \/ (pc' = "put" /\ UNCHANGED resume_attempts)
    BY <1>6 DEF Resume, Loop
  <2>2. CASE pc' = "put" /\ UNCHANGED resume_attempts
    <3>1. pc = "query"
      BY <1>0, <1>6 DEF Resume, RespOK
    <3>2. Follows' < Follows
      BY <2>2, <3>1 DEF Follows
    <3> QED
      BY <2>2, <3>2 DEF CallCloser
  <2> QED
    BY <1>1, <2>1, <2>2
<1> QED
  BY <1>1, <1>2, <1>3, <1>4, <1>5, <1>6 DEF Client

\* No call goes on for ever: for any chunking and any limit of resumes, each
\* answer and each step of the adapter comes after the one before in an order
\* that the limit, the number of chunks and the kinds of request bound.
THEOREM CallsAreBounded == Spec => CallDescends
<1>1. Inv /\ [Next]_vars =>
        [pc # "idle" =>
           CallCloser \/ ((ServerForgets \/ Others) /\ UNCHANGED <<pc, resp, cursor>>)]_vars
  <2> SUFFICES ASSUME Inv, Next, pc # "idle"
               PROVE  CallCloser \/ ((ServerForgets \/ Others) /\ UNCHANGED <<pc, resp, cursor>>)
    OBVIOUS
  <2>1. CASE Serve
    BY <2>1, ServeDescends
  <2>2. CASE Client
    BY <2>2, ClientDescends
  <2>3. CASE ServerForgets \/ Others
    BY <2>3 DEF ServerForgets, Others
  <2>4. ~\E o \in Op, n, m \in Names : Invoke(o, n, m)
    BY DEF Invoke
  <2> QED
    BY <2>1, <2>2, <2>3, <2>4 DEF Next
<1> QED
  BY <1>1, Always, PTL DEF Spec, CallDescends
=============================================================================
