----------------------- MODULE NativeServerCallProofs -----------------------
(***************************************************************************)
(* CallInv is an invariant of NativeServerCall, for calls of every kind    *)
(* with any number of requests and responses and handlers that answer as   *)
(* often as they like.  It follows that the core refuses nothing but a     *)
(* second answer, that OK is sent only when nothing went wrong and         *)
(* everything written is out, and that the requests arrive in order.       *)
(***************************************************************************)
EXTENDS NativeServerCall, SequenceTheorems, TLAPS

-----------------------------------------------------------------------------
(* The inductive invariant.                                                *)

(* The operations the core has had.  Initial metadata that goes out with   *)
(* the status of handleError leaves metadataSent unset.                    *)
OpsInv ==
    /\ metaOp => metadataSent \/ statusOp # NULL
    /\ "meta" \in pend => metadataSent
    /\ finalDone \/ "status" \in pend => statusOp # NULL
    /\ errored => Responds /\ statusOp # NULL
    /\ threw # "overlap" /\ (threw = "again" => Responds /\ statusOp # NULL)

(* No handler is at work on a unary call before its request has arrived,   *)
(* nor ever on a method without one.                                       *)
RespondInv ==
    /\ kind = "unary" /\ "recv" \in pend =>
          handler = "none" /\ statusOp = NULL /\ ~metadataSent
    /\ kind = "unknown" => handler = "none" /\ statusOp # NULL

(* A stream of responses sends its status at the end, after the writes.    *)
WriteInv ==
    /\ Writes /\ statusOp # NULL => finish
    /\ ~Writes => ~terminated /\ ~wEnd /\ wq = 0 /\ "write" \notin pend
    /\ "write" \in pend => writing
    /\ writing => wq > 0
    /\ finish => wEnd /\ wq = 0 /\ metadataSent
    /\ terminated => wStatus # "OK"
    /\ Writes /\ ~terminated /\ writing => msgs + wq = written + 1
    /\ Writes /\ ~terminated /\ ~writing => msgs + wq = written

(* A request that is read is the next one.  The exception is a read that   *)
(* failed to parse, after which there is no other.                         *)
ReadInv ==
    /\ Reads /\ "recv" \in pend => reading
    /\ Reads /\ "recv" \in pend /\ ~finished => ~rEnded
    /\ Reads /\ ~finished /\ ~rEnded /\ (reading => "recv" \in pend) =>
          got = Len(delivered) + Len(rbuf)
    /\ ~Reads => rbuf = <<>>

CallInv == TypeOK /\ OpsInv /\ RespondInv /\ WriteInv /\ ReadInv

-----------------------------------------------------------------------------
(* Kinds of calls, the start and the frames.                               *)

(* The kinds exclude one another.                                          *)
LEMMA KindFacts ==
    ASSUME TypeOK
    PROVE  /\ N \in Nat /\ W \in Nat
           /\ Responds => ~Writes
           /\ kind = "unary" => Responds /\ ~Reads
           /\ kind = "client_stream" => Responds /\ Reads
           /\ kind = "server_stream" => Writes /\ ~Reads
           /\ Responds \/ Writes \/ kind = "unknown"
           /\ Reads => kind # "unary" /\ kind # "unknown"
           /\ Responds \/ Writes => kind # "unknown"
  <1>1. scenario \in [kind : Kinds, n : Nat, w : Nat]
    BY ServerCallAssumption DEF TypeOK
  <1> QED BY <1>1 DEF kind, N, W, Kinds, Responds, Reads, Writes

(* A call keeps its kind.                                                  *)
LEMMA RigidKind ==
    ASSUME UNCHANGED rigid
    PROVE  /\ kind' = kind /\ N' = N /\ W' = W /\ scenario' = scenario
           /\ (Reads' <=> Reads) /\ (Writes' <=> Writes)
           /\ (Responds' <=> Responds)
  BY DEF rigid, kind, N, W, Reads, Writes, Responds

(* The call as handleNewCall hands it over.                                *)
LEMMA InitInv == Init => CallInv
  <1> SUFFICES ASSUME Init PROVE CallInv
    OBVIOUS
  <1>1. scenario \in Scenarios /\ scenario \in [kind : Kinds, n : Nat, w : Nat]
    BY ServerCallAssumption DEF Init
  <1>2. kind \in Kinds /\ N \in Nat /\ W \in Nat
    BY <1>1 DEF kind, N, W
  <1>3. /\ pend \subseteq Batches /\ "write" \notin pend /\ "meta" \notin pend
        /\ "status" \in pend => kind = "unknown"
        /\ Reads => "recv" \notin pend
    BY <1>2 DEF Init, streamHandlers, Kinds, Batches, Reads
  <1>4. /\ metaOp \in BOOLEAN /\ (metaOp => statusOp # NULL)
        /\ statusOp \in {NULL, "ERROR"}
        /\ (statusOp # NULL <=> kind = "unknown")
    BY ServerCallAssumption DEF Init
  <1>5. /\ handler \in {"none", "running"} /\ (handler = "running" => Reads)
    BY DEF Init, ServerUnaryCall
  <1>6. /\ msgs = 0 /\ ~finalDone /\ ~gone /\ got = 0 /\ ~metadataSent
        /\ ~cancelled /\ threw = "no" /\ ~errored
        /\ written = 0 /\ wq = 0 /\ ~writing /\ ~wEnd /\ wStatus = "OK"
        /\ ~finish /\ ~terminated /\ ~reading /\ ~finished /\ ~nodeReading
        /\ rbuf = <<>> /\ ~rEnded /\ consumer = "none" /\ delivered = <<>>
        /\ ~endEmitted
    BY DEF Init, ServerUnaryCall, ServerWritableStream, ServerReadableStream
  <1>7. TypeOK
    <2>1. /\ finalDone \in BOOLEAN /\ gone \in BOOLEAN /\ metadataSent \in BOOLEAN
          /\ cancelled \in BOOLEAN /\ errored \in BOOLEAN /\ writing \in BOOLEAN
          /\ finish \in BOOLEAN /\ wEnd \in BOOLEAN /\ terminated \in BOOLEAN
          /\ reading \in BOOLEAN /\ finished \in BOOLEAN
          /\ nodeReading \in BOOLEAN /\ rEnded \in BOOLEAN
          /\ endEmitted \in BOOLEAN
      BY DEF Init, ServerUnaryCall, ServerWritableStream, ServerReadableStream
    <2>2. rbuf \in Seq(1..N) /\ delivered \in Seq(1..N)
      BY <1>6, EmptySeq
    <2>3. msgs \in Nat /\ got \in 0..N /\ written \in 0..W /\ wq \in 0..written
      BY <1>2, <1>6
    <2>4. /\ statusOp \in {NULL, "OK", "ERROR"} /\ threw \in Exceptions
          /\ handler \in {"none", "running", "done"} /\ metaOp \in BOOLEAN
          /\ wStatus \in {"OK", "ERROR", "NOT_A_NUMBER"}
          /\ consumer \in {"none", "paused", "flowing"}
      BY <1>4, <1>5, <1>6 DEF Exceptions
    <2> QED BY <1>1, <1>3, <2>1, <2>2, <2>3, <2>4 DEF TypeOK, Exceptions
  <1>8. OpsInv
    BY <1>3, <1>4, <1>6 DEF OpsInv
  <1>9. RespondInv
    BY <1>4, <1>5, <1>6, <1>7, KindFacts DEF RespondInv
  <1>10. WriteInv
    BY <1>3, <1>4, <1>6, <1>7, KindFacts DEF WriteInv
  <1>11. ReadInv
    BY <1>3, <1>6 DEF ReadInv
  <1> QED BY <1>7, <1>8, <1>9, <1>10, <1>11 DEF CallInv

(* What is sent is not disturbed by batches that complete.                 *)
LEMMA SendFrame ==
    ASSUME OpsInv, RespondInv, WriteInv,
           UNCHANGED <<rigid, metaOp, msgs, statusOp, threw, finalDone,
                       metadataSent, handler, errored, written, wq, writing,
                       finish, wEnd, wStatus, terminated>>,
           \A b \in {"meta", "status", "write"} : b \in pend' => b \in pend,
           kind = "unary" /\ "recv" \in pend' => "recv" \in pend
    PROVE  OpsInv' /\ RespondInv' /\ WriteInv'
  BY RigidKind DEF OpsInv, RespondInv, WriteInv

(* What is read is not disturbed by the end of a read, or of all reads.    *)
LEMMA ReadFrame ==
    ASSUME ReadInv, UNCHANGED <<rigid, reading, rEnded, rbuf, delivered>>,
           finished => finished', Reads /\ "recv" \in pend' => "recv" \in pend,
           got' = got \/ ("recv" \in pend /\ "recv" \notin pend')
    PROVE  ReadInv'
  BY RigidKind DEF ReadInv

-----------------------------------------------------------------------------
(* The status.                                                             *)

(* What a status batch may do: its operation is taken unless there was one *)
(* before, and the batches under way in the core go on.                    *)
StatusTaken(p, code) ==
    /\ p \subseteq pend' /\ pend' \subseteq p \cup {"status"}
    /\ metaOp' \in BOOLEAN /\ msgs' \in Nat
    /\ statusOp' \in {NULL, "OK", "ERROR"}
    /\ threw' \in Exceptions /\ threw' # "overlap"
    /\ threw' = "again" => Responds /\ statusOp # NULL
    /\ metaOp' => metaOp \/ statusOp' # NULL
    /\ statusOp # NULL => statusOp' # NULL
    /\ finalDone \/ "status" \in pend' => statusOp' # NULL
    /\ statusOp' = statusOp \/ statusOp' = code

(* A status that the core does not refuse, or refuses because the call was *)
(* answered before.                                                        *)
LEMMA StatusBatchInv ==
    ASSUME CallInv, NEW p, p \subseteq pend,
           NEW ops \in SUBSET {"meta", "msg"},
           NEW code \in {"OK", "ERROR", "NOT_A_NUMBER"},
           statusBatch(p, ops, code),
           \/ Responds /\ statusOp # NULL
           \/ statusOp = NULL /\ ~("meta" \in ops /\ metaOp),
           "msg" \in ops => "write" \notin p
    PROVE  StatusTaken(p, code)
  <1>1. TypeOK /\ OpsInv /\ code # NULL
    BY ServerCallAssumption DEF CallInv
  <1>2. CASE Destroyed
    <2>1. UNCHANGED <<pend, metaOp, msgs, statusOp, threw>> /\ pend = {}
      BY <1>2 DEF statusBatch, batchVars, Destroyed
    <2> QED BY <1>1, <2>1 DEF TypeOK, OpsInv, StatusTaken, Exceptions
  <1>3. CASE ~Destroyed /\ (code = "NOT_A_NUMBER" \/ Refused(p, ops \cup {"status"}))
    <2>1. ~Overlaps(p, ops \cup {"status"})
      BY DEF Overlaps
    <2>2. /\ threw' = "type" \/ (threw' = "again" /\ Again(ops \cup {"status"}))
          /\ pend' = p /\ UNCHANGED <<metaOp, msgs, statusOp>>
      BY <1>3, <2>1 DEF statusBatch, startBatch, Refused
    <2>3. threw' = "again" => Responds /\ statusOp # NULL
      BY <2>2 DEF Again
    <2> QED BY <1>1, <2>2, <2>3 DEF TypeOK, OpsInv, StatusTaken, Exceptions
  <1>4. CASE ~Destroyed /\ ~(code = "NOT_A_NUMBER" \/ Refused(p, ops \cup {"status"}))
    <2>1. /\ pend' = p \cup {"status"}
          /\ metaOp' = (metaOp \/ "meta" \in ops \cup {"status"})
          /\ msgs' = IF "msg" \in ops \cup {"status"} THEN msgs + 1 ELSE msgs
          /\ statusOp' = code /\ UNCHANGED threw
      BY <1>4 DEF statusBatch, startBatch
    <2>2. metaOp' \in BOOLEAN
      BY <1>1, <2>1 DEF TypeOK
    <2> QED BY <1>1, <1>4, <2>1, <2>2
        DEF TypeOK, OpsInv, StatusTaken, Exceptions
  <1> QED BY <1>2, <1>3, <1>4

(* What emit('error') leaves behind.                                       *)
ErrorEmitted(p) ==
    /\ pend' \subseteq Batches /\ metaOp' \in BOOLEAN /\ msgs' \in Nat
    /\ statusOp' \in {NULL, "OK", "ERROR"}
    /\ threw' \in Exceptions /\ errored' \in BOOLEAN
    /\ wEnd' \in BOOLEAN /\ terminated' \in BOOLEAN
    /\ wStatus' \in {"OK", "ERROR", "NOT_A_NUMBER"}
    /\ p \subseteq pend' /\ pend' \subseteq p \cup {"status"}
    /\ OpsInv' /\ RespondInv' /\ WriteInv'
    /\ statusOp' = statusOp \/ statusOp' = "ERROR"

(* emit('error') answers the call, or sets the status of the stream.       *)
LEMMA EmitErrorInv ==
    ASSUME CallInv, NEW p, p \subseteq pend, emitError(p),
           kind = "unary" => "recv" \notin p,
           "meta" \in p => metadataSent',
           metadataSent => metadataSent', ~metadataSent' => ~metadataSent,
           UNCHANGED <<rigid, finalDone, handler, written, wq, writing, finish>>
    PROVE  ErrorEmitted(p)
  <1>1. TypeOK /\ OpsInv /\ RespondInv /\ WriteInv
    BY DEF CallInv
  <1>2. CASE Responds
    <2>1. /\ statusBatch(p, Meta, "ERROR") /\ errored' = TRUE
          /\ UNCHANGED <<wEnd, wStatus, terminated>>
      BY <1>1, <1>2, KindFacts DEF emitError, handleError, endVars
    <2>2. Meta \in SUBSET {"meta", "msg"} /\ "msg" \notin Meta
      BY DEF Meta
    <2>3. StatusTaken(p, "ERROR")
      <3>1. metaOp /\ "meta" \in Meta => statusOp # NULL
        BY <1>1 DEF OpsInv, Meta
      <3> QED BY <1>2, <2>1, <2>2, <3>1, StatusBatchInv
    <2>4. statusOp' # NULL
      <3>1. CASE Destroyed
        BY <1>1, <2>3, <3>1 DEF Destroyed, OpsInv, StatusTaken
      <3>2. CASE Refused(p, Meta \cup {"status"})
        BY <1>1, <2>2, <2>3, <3>2
        DEF Refused, Again, Overlaps, Meta, OpsInv, StatusTaken
      <3>3. CASE ~Destroyed /\ ~Refused(p, Meta \cup {"status"})
        BY <2>1, <3>3, ServerCallAssumption DEF statusBatch, startBatch
      <3> QED BY <3>1, <3>2, <3>3
    <2>5. OpsInv'
      BY <1>1, <1>2, <2>1, <2>3, <2>4, RigidKind DEF OpsInv, StatusTaken
    <2>6. RespondInv'
      BY <1>1, <1>2, <2>1, <2>3, RigidKind, KindFacts
      DEF RespondInv, StatusTaken
    <2>7. WriteInv'
      BY <1>1, <1>2, <2>1, <2>3, RigidKind, KindFacts
      DEF WriteInv, StatusTaken
    <2>8. pend' \subseteq Batches
      BY <1>1, <2>3 DEF TypeOK, Batches, StatusTaken
    <2> QED BY <1>1, <2>1, <2>3, <2>5, <2>6, <2>7, <2>8
        DEF TypeOK, StatusTaken, ErrorEmitted
  <1>3. CASE Writes
    <2>1. /\ terminateCall("ERROR") /\ pend' = p
          /\ UNCHANGED <<metaOp, msgs, statusOp, threw, errored>>
      BY <1>1, <1>3, KindFacts DEF emitError
    <2>2. wStatus' = "ERROR" /\ wEnd' = TRUE /\ terminated' = TRUE
      BY <2>1 DEF terminateCall
    <2>3. OpsInv' /\ RespondInv'
      BY <1>1, <1>3, <2>1, RigidKind, KindFacts DEF OpsInv, RespondInv
    <2>4. WriteInv'
      BY <1>1, <1>3, <2>1, <2>2, RigidKind DEF WriteInv
    <2> QED BY <1>1, <2>1, <2>2, <2>3, <2>4 DEF TypeOK, ErrorEmitted
  <1> QED BY <1>2, <1>3 DEF emitError

-----------------------------------------------------------------------------
(* The client and the core.                                                *)

(* The client goes away, or the status batch completes.                    *)
LEMMA CoreInv == ASSUME CallInv, ClientGone \/ StatusDone PROVE CallInv'
  <1>1. /\ TypeOK /\ OpsInv /\ RespondInv /\ WriteInv /\ ReadInv
        /\ UNCHANGED <<rigid, got, metadataSent, cancelled, handler, errored,
                       writeVars, endVars, readVars>>
    BY DEF CallInv, ClientGone, StatusDone
  <1> USE RigidKind
  <1>2. CASE ClientGone
    <2>1. gone' = TRUE /\ UNCHANGED <<batchVars, finalDone>>
      BY <1>2 DEF ClientGone
    <2>2. TypeOK'
      BY <1>1, <2>1
      DEF TypeOK, batchVars, writeVars, endVars, readVars, nodeVars
    <2>3. OpsInv' /\ RespondInv' /\ WriteInv'
      BY <1>1, <2>1, SendFrame DEF batchVars, writeVars, endVars
    <2>4. ReadInv'
      BY <1>1, <2>1, ReadFrame DEF batchVars, readVars, nodeVars
    <2> QED BY <2>2, <2>3, <2>4 DEF CallInv
  <1>3. CASE StatusDone
    <2>1. /\ "status" \in pend /\ finalDone' = TRUE /\ UNCHANGED gone
          /\ pend' = pend \ {"status"}
          /\ UNCHANGED <<metaOp, msgs, statusOp, threw>>
      BY <1>3 DEF StatusDone, Completes
    <2>2. TypeOK'
      BY <1>1, <2>1 DEF TypeOK, writeVars, endVars, readVars, nodeVars
    <2>3. OpsInv'
      BY <1>1, <2>1 DEF OpsInv
    <2>4. RespondInv' /\ WriteInv'
      BY <1>1, <2>1 DEF RespondInv, WriteInv, writeVars, endVars
    <2>5. ReadInv'
      BY <1>1, <2>1, ReadFrame DEF readVars, nodeVars
    <2> QED BY <2>2, <2>3, <2>4, <2>5 DEF CallInv
  <1> QED BY <1>2, <1>3

(* The call is closed; a cancelled reader is terminated.                   *)
LEMMA CloseInv == ASSUME CallInv, CloseDone PROVE CallInv'
  <1>1. /\ TypeOK /\ OpsInv /\ RespondInv /\ WriteInv /\ ReadInv
        /\ pend' = pend \ {"close"} /\ cancelled' = gone
        /\ UNCHANGED <<metaOp, msgs, statusOp, threw, rigid, coreVars,
                       metadataSent, handler, errored, writeVars, endVars,
                       reading, nodeVars, endEmitted>>
    BY DEF CallInv, CloseDone, Completes
  <1>2. /\ finished' \in BOOLEAN /\ (finished => finished')
        /\ consumer' \in {"none", "paused", "flowing"}
    BY <1>1 DEF CloseDone, terminate, TypeOK
  <1>3. TypeOK'
    BY <1>1, <1>2, RigidKind
    DEF TypeOK, coreVars, writeVars, endVars, nodeVars
  <1>4. OpsInv' /\ RespondInv' /\ WriteInv'
    BY <1>1, SendFrame DEF coreVars, writeVars, endVars
  <1>5. ReadInv'
    BY <1>1, <1>2, ReadFrame DEF coreVars, nodeVars
  <1> QED BY <1>3, <1>4, <1>5 DEF CallInv

(* sendMetadata() has completed, or failed.                                *)
LEMMA MetaDoneInv == ASSUME CallInv, MetaDone PROVE CallInv'
  <1>1. /\ TypeOK /\ OpsInv /\ RespondInv /\ WriteInv /\ ReadInv
        /\ "meta" \in pend
        /\ UNCHANGED <<rigid, coreVars, metadataSent, cancelled, handler,
                       writeVars, readVars>>
    BY DEF CallInv, MetaDone
  <1>2. CASE Completes("meta") /\ UNCHANGED <<errored, endVars>>
    <2>1. pend' = pend \ {"meta"} /\ UNCHANGED <<metaOp, msgs, statusOp, threw>>
      BY <1>2 DEF Completes
    <2>2. TypeOK'
      BY <1>1, <1>2, <2>1, RigidKind
      DEF TypeOK, coreVars, writeVars, endVars, readVars, nodeVars
    <2>3. OpsInv' /\ RespondInv' /\ WriteInv'
      BY <1>1, <1>2, <2>1, SendFrame DEF coreVars, writeVars, endVars
    <2>4. ReadInv'
      BY <1>1, <2>1, ReadFrame DEF coreVars, readVars, nodeVars
    <2> QED BY <2>2, <2>3, <2>4 DEF CallInv
  <1>3. CASE emitError(pend \ {"meta"})
    <2> DEFINE p == pend \ {"meta"}
    <2>1. kind = "unary" => "recv" \notin p
      BY <1>1 DEF OpsInv, RespondInv
    <2>2. ErrorEmitted(p)
      BY <1>1, <1>3, <2>1, EmitErrorInv DEF coreVars, writeVars
    <2>3. TypeOK'
      BY <1>1, <2>2, RigidKind
      DEF TypeOK, ErrorEmitted, coreVars, writeVars, readVars, nodeVars
    <2>4. ReadInv'
      BY <1>1, <2>2, ReadFrame DEF ErrorEmitted, coreVars, readVars, nodeVars
    <2> QED BY <2>2, <2>3, <2>4 DEF CallInv, ErrorEmitted
  <1> QED BY <1>2, <1>3 DEF MetaDone

-----------------------------------------------------------------------------
(* The handler.                                                            *)

(* The request of a unary call has arrived.                                *)
LEMMA UnaryInv == ASSUME CallInv, handleUnary PROVE CallInv'
  <1>1. /\ TypeOK /\ OpsInv /\ RespondInv /\ WriteInv /\ ReadInv
        /\ kind = "unary" /\ "recv" \in pend
        /\ UNCHANGED <<rigid, coreVars, metadataSent, cancelled, errored,
                       endVars, writeVars, readVars>>
    BY DEF CallInv, handleUnary
  <1>2. /\ handler = "none" /\ statusOp = NULL /\ ~metadataSent /\ ~metaOp
        /\ ~errored /\ Responds /\ ~Writes /\ ~Reads
    BY <1>1, KindFacts DEF OpsInv, RespondInv
  <1>3. ReadInv'
    BY <1>1, <1>2, RigidKind DEF ReadInv, readVars, nodeVars
  <1>4. CASE Completes("recv") /\ handler' = IF cancelled THEN "none" ELSE "running"
    <2>1. /\ pend' = pend \ {"recv"} /\ handler' \in {"none", "running"}
          /\ UNCHANGED <<metaOp, msgs, statusOp, threw>>
      BY <1>4 DEF Completes
    <2>2. TypeOK'
      BY <1>1, <2>1, RigidKind
      DEF TypeOK, coreVars, writeVars, endVars, readVars, nodeVars
    <2>3. OpsInv'
      BY <1>1, <2>1, RigidKind DEF OpsInv, coreVars
    <2>4. RespondInv' /\ WriteInv'
      BY <1>1, <1>2, <2>1, RigidKind
      DEF RespondInv, WriteInv, endVars, writeVars
    <2> QED BY <1>3, <2>2, <2>3, <2>4 DEF CallInv
  <1>5. CASE handleError(pend \ {"recv"}, "ERROR") /\ UNCHANGED handler
    <2> DEFINE p == pend \ {"recv"}
    <2>1. /\ statusBatch(p, Meta, "ERROR") /\ Meta \in SUBSET {"meta", "msg"}
          /\ "msg" \notin Meta /\ p \subseteq pend
      BY <1>5 DEF handleError, Meta
    <2>2. StatusTaken(p, "ERROR")
      <3> HIDE DEF p
      <3> QED BY <1>2, <2>1, StatusBatchInv
    <2>3. TypeOK'
      BY <1>1, <1>5, <2>2, RigidKind
      DEF TypeOK, Batches, StatusTaken, coreVars, writeVars, endVars, readVars,
          nodeVars
    <2>4. OpsInv'
      BY <1>1, <1>2, <2>2, RigidKind DEF OpsInv, StatusTaken, coreVars
    <2>5. RespondInv'
      BY <1>1, <1>2, <1>5, <2>2, RigidKind DEF RespondInv, StatusTaken
    <2>6. WriteInv'
      BY <1>1, <1>2, <2>2, RigidKind
      DEF WriteInv, StatusTaken, endVars, writeVars
    <2> QED BY <1>3, <2>3, <2>4, <2>5, <2>6 DEF CallInv
  <1> QED BY <1>4, <1>5 DEF handleUnary

(* The request of a call with a stream of responses has arrived.           *)
LEMMA ServerStreamingInv ==
    ASSUME CallInv, handleServerStreaming
    PROVE  CallInv'
  <1>1. /\ TypeOK /\ OpsInv /\ RespondInv /\ WriteInv /\ ReadInv
        /\ Writes /\ ~Reads /\ ~Responds /\ kind = "server_stream"
        /\ pend' = pend \ {"recv"}
        /\ UNCHANGED <<metaOp, msgs, statusOp, threw, rigid, coreVars,
                       metadataSent, cancelled, errored, writeVars, readVars>>
    BY KindFacts DEF CallInv, handleServerStreaming, Completes
  <1>2. \/ handler' = "running" /\ UNCHANGED <<wEnd, wStatus, terminated>>
        \/ /\ wStatus' = "ERROR" /\ wEnd' = TRUE /\ terminated' = TRUE
           /\ UNCHANGED handler
    BY DEF handleServerStreaming, terminateCall, endVars
  <1>3. TypeOK'
    <2>1. /\ handler' \in {"none", "running", "done"} /\ wEnd' \in BOOLEAN
          /\ wStatus' \in {"OK", "ERROR", "NOT_A_NUMBER"}
          /\ terminated' \in BOOLEAN
      BY <1>1, <1>2 DEF TypeOK
    <2> QED BY <1>1, <2>1, RigidKind
        DEF TypeOK, coreVars, writeVars, readVars, nodeVars
  <1>4. OpsInv'
    BY <1>1, RigidKind DEF OpsInv, coreVars
  <1>5. RespondInv'
    BY <1>1, RigidKind DEF RespondInv
  <1>6. WriteInv'
    BY <1>1, <1>2, RigidKind DEF WriteInv, writeVars
  <1>7. ReadInv'
    BY <1>1, RigidKind DEF ReadInv, readVars, nodeVars
  <1> QED BY <1>3, <1>4, <1>5, <1>6, <1>7 DEF CallInv

(* The handler of a call with one response answers.                        *)
LEMMA RespondStepInv == ASSUME CallInv, Respond PROVE CallInv'
  <1>1. /\ TypeOK /\ OpsInv /\ RespondInv /\ WriteInv /\ ReadInv
        /\ Responds /\ ~Writes /\ handler # "none" /\ handler' = "done"
        /\ UNCHANGED <<rigid, coreVars, cancelled, errored, writeVars, endVars,
                       reading, nodeVars, endEmitted>>
    BY KindFacts DEF CallInv, Respond
  <1>2. /\ finished' \in BOOLEAN /\ (finished => finished')
        /\ consumer' \in {"none", "paused", "flowing"}
    BY <1>1 DEF Respond, terminate, TypeOK
  <1>3. (metaOp => metadataSent \/ statusOp # NULL) /\ "write" \notin pend
    BY <1>1 DEF OpsInv, WriteInv
  <1>4. PICK ops \in SUBSET {"meta", "msg"},
             code \in {"OK", "ERROR", "NOT_A_NUMBER"} :
          /\ statusBatch(pend, ops, code)
          /\ "meta" \in ops => ~metadataSent
          /\ metadataSent' = metadataSent \/ metadataSent' = TRUE
    <2>1. /\ Meta \in SUBSET {"meta", "msg"}
          /\ Meta \cup {"msg"} \in SUBSET {"meta", "msg"}
          /\ "meta" \in Meta \cup {"msg"} => ~metadataSent
          /\ "meta" \in Meta => ~metadataSent
      BY DEF Meta
    <2>2. CASE /\ \E code \in AppCodes : handleError(pend, code)
               /\ UNCHANGED metadataSent
      BY <2>1, <2>2 DEF handleError, AppCodes
    <2>3. CASE handleError(pend, "ERROR") /\ UNCHANGED metadataSent
      BY <2>1, <2>3 DEF handleError
    <2>4. CASE /\ statusBatch(pend, Meta \cup {"msg"}, "OK")
               /\ metadataSent' = TRUE
      BY <2>1, <2>4
    <2> QED BY <2>2, <2>3, <2>4 DEF Respond, sendUnaryResponse
  <1>5. StatusTaken(pend, code)
    <2>1. statusOp = NULL => ~("meta" \in ops /\ metaOp)
      BY <1>3, <1>4
    <2> QED BY <1>1, <1>3, <1>4, <2>1, StatusBatchInv
  <1>6. metadataSent' \in BOOLEAN /\ (metadataSent => metadataSent')
    <2>1. metadataSent \in BOOLEAN
      BY <1>1 DEF TypeOK
    <2>2. metadataSent' = metadataSent \/ metadataSent' = TRUE
      BY ONLY <1>4
    <2>3. CASE metadataSent' = metadataSent
      BY ONLY <2>1, <2>3
    <2>4. CASE metadataSent' = TRUE
      BY ONLY <2>4
    <2> QED BY ONLY <2>2, <2>3, <2>4
  <1>7. TypeOK'
    BY <1>1, <1>2, <1>5, <1>6, RigidKind
    DEF TypeOK, Batches, StatusTaken, coreVars, writeVars, endVars, nodeVars
  <1>8. OpsInv'
    BY <1>1, <1>5, <1>6, RigidKind DEF OpsInv, StatusTaken, coreVars
  <1>9. RespondInv'
    BY <1>1, <1>5, RigidKind, KindFacts DEF RespondInv, StatusTaken
  <1>10. WriteInv'
    BY <1>1, <1>5, <1>6, RigidKind
    DEF WriteInv, StatusTaken, writeVars, endVars
  <1>11. ReadInv'
    BY <1>1, <1>2, <1>5, ReadFrame DEF StatusTaken, coreVars, nodeVars
  <1> QED BY <1>7, <1>8, <1>9, <1>10, <1>11 DEF CallInv

(* The handler sends the initial metadata.                                 *)
LEMMA SendMetadataInv == ASSUME CallInv, sendMetadata PROVE CallInv'
  <1>1. /\ TypeOK /\ OpsInv /\ RespondInv /\ WriteInv /\ ReadInv
        /\ handler # "none" /\ ~metadataSent
        /\ metadataSent' = TRUE /\ metadataSent' \in BOOLEAN
        /\ UNCHANGED <<rigid, coreVars, cancelled, handler, writeVars,
                       readVars>>
    BY DEF CallInv, sendMetadata
  <1>2. kind = "unary" => "recv" \notin pend
    BY <1>1 DEF RespondInv
  <1>3. CASE Destroyed
    <2>1. emitError(pend)
      BY <1>3 DEF sendMetadata
    <2>2. ErrorEmitted(pend)
      BY <1>1, <1>2, <2>1, EmitErrorInv DEF coreVars, writeVars
    <2>3. TypeOK'
      BY <1>1, <2>2, RigidKind
      DEF TypeOK, ErrorEmitted, coreVars, writeVars, readVars, nodeVars
    <2>4. ReadInv'
      BY <1>1, <2>2, ReadFrame DEF ErrorEmitted, coreVars, readVars, nodeVars
    <2> QED BY <2>2, <2>3, <2>4 DEF CallInv, ErrorEmitted
  <1>4. CASE ~Destroyed
    <2>1. startBatch(pend, "meta", {"meta"}, NULL) /\ UNCHANGED <<errored, endVars>>
      BY <1>4 DEF sendMetadata
    <2>2. metaOp => Responds /\ statusOp # NULL
      <3> SUFFICES ASSUME metaOp PROVE Responds /\ statusOp # NULL
        OBVIOUS
      <3>1. statusOp # NULL
        BY <1>1 DEF OpsInv
      <3> QED BY <1>1, <3>1, KindFacts DEF RespondInv, WriteInv
    <2>3. \/ /\ threw' = "again" /\ pend' = pend /\ metaOp
             /\ UNCHANGED <<metaOp, msgs, statusOp>>
          \/ /\ pend' = pend \cup {"meta"} /\ metaOp' = TRUE
             /\ UNCHANGED <<msgs, statusOp, threw>>
      BY <2>1, ServerCallAssumption DEF startBatch, Refused, Again, Overlaps
    <2>4. /\ pend' \subseteq Batches /\ metaOp' \in BOOLEAN
          /\ threw' \in Exceptions /\ threw' # "overlap"
          /\ (threw' = "again" => Responds /\ statusOp # NULL)
          /\ pend \subseteq pend' /\ pend' \subseteq pend \cup {"meta"}
          /\ UNCHANGED <<msgs, statusOp>>
      BY <1>1, <2>2, <2>3 DEF TypeOK, OpsInv, Batches, Exceptions
    <2>5. TypeOK'
      BY <1>1, <2>1, <2>4, RigidKind
      DEF TypeOK, Exceptions, coreVars, writeVars, endVars, readVars, nodeVars
    <2>6. OpsInv'
      BY <1>1, <2>1, <2>4, RigidKind DEF OpsInv, coreVars
    <2>7. RespondInv' /\ WriteInv'
      BY <1>1, <1>2, <2>1, <2>4, RigidKind
      DEF RespondInv, WriteInv, writeVars, endVars
    <2>8. ReadInv'
      BY <1>1, <2>4, ReadFrame DEF coreVars, readVars, nodeVars
    <2> QED BY <2>5, <2>6, <2>7, <2>8 DEF CallInv
  <1> QED BY <1>3, <1>4

-----------------------------------------------------------------------------
(* The writable side.                                                      *)

(* The application writes, ends its stream, or emits an error on it.       *)
LEMMA ApplicationWritesInv == ASSUME CallInv, Write \/ EndStream PROVE CallInv'
  <1>1. /\ TypeOK /\ OpsInv /\ RespondInv /\ WriteInv /\ ReadInv
        /\ Writes /\ ~Responds /\ kind # "unknown" /\ kind # "unary"
        /\ W \in Nat
        /\ UNCHANGED <<rigid, batchVars, coreVars, metadataSent, cancelled,
                       errored, writing, finish, readVars>>
    BY KindFacts DEF CallInv, Write, EndStream, writeVars
  <1>2. OpsInv' /\ ReadInv'
    BY <1>1, ReadFrame, RigidKind
    DEF OpsInv, batchVars, coreVars, readVars, nodeVars
  <1>3. CASE Write /\ ~wEnd
    <2>1. /\ ~wEnd /\ written < W /\ written' = written + 1 /\ wq' = wq + 1
          /\ UNCHANGED <<handler, wEnd, wStatus, terminated>>
      BY <1>3 DEF Write, endVars
    <2>2. written' \in 0..W /\ wq' \in 0..written' /\ wq \in Nat /\ written \in Nat
      BY <1>1, <2>1 DEF TypeOK
    <2>3. TypeOK'
      BY <1>1, <2>1, <2>2, RigidKind
      DEF TypeOK, batchVars, coreVars, readVars, nodeVars
    <2>4. RespondInv'
      BY <1>1, <2>1, RigidKind DEF RespondInv, batchVars
    <2>5. WriteInv'
      <3>1. ~finish /\ msgs \in Nat
        BY <1>1, <2>1 DEF WriteInv, TypeOK
      <3>2. /\ Writes /\ ~terminated /\ writing => msgs + wq' = written' + 1
            /\ Writes /\ ~terminated /\ ~writing => msgs + wq' = written'
        BY <1>1, <2>1, <2>2, <3>1 DEF WriteInv
      <3>3. wq' > 0
        BY <2>1, <2>2
      <3> QED BY <1>1, <2>1, <3>1, <3>2, <3>3, RigidKind DEF WriteInv, batchVars
    <2> QED BY <1>2, <2>3, <2>4, <2>5 DEF CallInv
  <1>4. CASE EndStream \/ (Write /\ wEnd)
    <2>1. /\ handler' \in {handler, "done"} /\ UNCHANGED <<written, wq>>
          /\ wEnd' = TRUE
          /\ \/ UNCHANGED <<wStatus, terminated>>
             \/ wStatus' \in AppCodes /\ terminated' = TRUE
      BY <1>4 DEF EndStream, Write, terminateCall, writeVars
    <2>2. /\ wStatus' \in {"OK", "ERROR", "NOT_A_NUMBER"}
          /\ terminated' \in BOOLEAN /\ (terminated' => wStatus' # "OK")
          /\ (terminated => terminated')
      <3>1. CASE UNCHANGED <<wStatus, terminated>>
        BY <1>1, <3>1 DEF TypeOK, WriteInv
      <3>2. CASE wStatus' \in AppCodes /\ terminated' = TRUE
        BY <3>2 DEF AppCodes
      <3> QED BY <2>1, <3>1, <3>2
    <2>3. TypeOK'
      BY <1>1, <2>1, <2>2, RigidKind
      DEF TypeOK, batchVars, coreVars, readVars, nodeVars
    <2>4. RespondInv'
      BY <1>1, <2>1, RigidKind DEF RespondInv, batchVars
    <2>5. WriteInv'
      BY <1>1, <2>1, <2>2, RigidKind DEF WriteInv, batchVars
    <2> QED BY <1>2, <2>3, <2>4, <2>5 DEF CallInv
  <1> QED BY <1>3, <1>4

(* _write() gives a message to the core, which takes it, or fails to       *)
(* serialize it.                                                           *)
LEMMA WriteBatchInv == ASSUME CallInv, _write PROVE CallInv'
  <1>1. /\ TypeOK /\ OpsInv /\ RespondInv /\ WriteInv /\ ReadInv
        /\ wq > 0 /\ ~writing
        /\ UNCHANGED <<rigid, coreVars, cancelled, handler, written, finish,
                       readVars>>
    BY DEF CallInv, _write
  <1>2. /\ Writes /\ ~Responds /\ kind # "unknown" /\ kind # "unary"
        /\ ~finish /\ statusOp = NULL
        /\ "write" \notin pend /\ (metaOp => metadataSent) /\ wq \in Nat
        /\ written \in Nat /\ msgs \in Nat
    <2>1. wq # 0 /\ wq \in Nat /\ written \in Nat /\ msgs \in Nat
      BY <1>1, KindFacts DEF TypeOK
    <2>2. Writes /\ ~finish
      BY <1>1, <2>1 DEF WriteInv
    <2>3. statusOp = NULL
      BY <1>1, <2>2 DEF WriteInv
    <2> QED BY <1>1, <2>1, <2>2, <2>3, KindFacts DEF WriteInv, OpsInv
  <1>3. CASE /\ wq' = wq - 1 /\ terminateCall("ERROR")
             /\ UNCHANGED <<batchVars, metadataSent, errored, writing>>
    <2>1. /\ wStatus' = "ERROR" /\ wEnd' = TRUE /\ terminated' = TRUE
          /\ wq' \in 0..written
      BY <1>1, <1>2, <1>3 DEF terminateCall, TypeOK
    <2>2. TypeOK'
      BY <1>1, <1>3, <2>1, RigidKind
      DEF TypeOK, batchVars, coreVars, readVars, nodeVars
    <2>3. OpsInv' /\ RespondInv'
      BY <1>1, <1>3, RigidKind DEF OpsInv, RespondInv, batchVars, coreVars
    <2>4. WriteInv'
      BY <1>1, <1>2, <1>3, <2>1, RigidKind DEF WriteInv, batchVars
    <2>5. ReadInv'
      BY <1>1, <1>3, ReadFrame DEF batchVars, coreVars, readVars, nodeVars
    <2> QED BY <2>2, <2>3, <2>4, <2>5 DEF CallInv
  <1>4. CASE /\ startBatch(pend, "write", Meta \cup {"msg"}, NULL)
             /\ metadataSent' = TRUE /\ writing' = TRUE
             /\ UNCHANGED <<wq, errored, endVars>>
    <2>1. ~(NULL = "NOT_A_NUMBER" \/ Refused(pend, Meta \cup {"msg"}))
      BY <1>2, ServerCallAssumption DEF Refused, Again, Overlaps, Meta
    <2>2. /\ pend' = pend \cup {"write"} /\ msgs' = msgs + 1
          /\ metaOp' = (metaOp \/ "meta" \in Meta \cup {"msg"})
          /\ statusOp' = statusOp /\ threw' = threw
      BY <1>4, <2>1 DEF startBatch, Meta
    <2>3. /\ metaOp' \in BOOLEAN /\ msgs' \in Nat /\ pend' \subseteq Batches
          /\ metadataSent' \in BOOLEAN /\ writing' \in BOOLEAN
      BY <1>1, <1>2, <1>4, <2>2 DEF TypeOK, Batches
    <2>4. TypeOK'
      BY <1>1, <1>4, <2>2, <2>3, RigidKind
      DEF TypeOK, coreVars, endVars, readVars, nodeVars
    <2>5. OpsInv' /\ RespondInv'
      BY <1>1, <1>2, <1>4, <2>2, RigidKind DEF OpsInv, RespondInv, coreVars
    <2>6. ~terminated => msgs' + wq = written + 1
      BY <1>1, <1>2, <2>2 DEF WriteInv
    <2>7. WriteInv'
      BY <1>1, <1>2, <1>4, <2>2, <2>6, RigidKind DEF WriteInv, endVars
    <2>8. ReadInv'
      BY <1>1, <2>2, ReadFrame DEF coreVars, readVars, nodeVars
    <2> QED BY <2>4, <2>5, <2>7, <2>8 DEF CallInv
  <1> QED BY <1>3, <1>4 DEF _write

(* A write has completed, or failed, in which case Node never hears of it. *)
LEMMA WriteDoneInv == ASSUME CallInv, WriteDone PROVE CallInv'
  <1>1. /\ TypeOK /\ OpsInv /\ RespondInv /\ WriteInv /\ ReadInv
        /\ "write" \in pend /\ writing /\ Writes /\ wq > 0
        /\ pend' = pend \ {"write"}
        /\ UNCHANGED <<metaOp, msgs, statusOp, threw, rigid, coreVars,
                       metadataSent, cancelled, handler, errored, written,
                       finish, readVars>>
    BY DEF CallInv, WriteDone, Completes, WriteInv
  <1>2. wq \in Nat /\ written \in Nat /\ msgs \in Nat /\ ~finish
        /\ wq - 1 \in 0..written /\ wq \in 0..written
    BY <1>1, KindFacts DEF TypeOK, WriteInv
  <1>3. OpsInv' /\ RespondInv'
    BY <1>1, RigidKind DEF OpsInv, RespondInv, coreVars
  <1>4. ReadInv'
    BY <1>1, ReadFrame DEF coreVars, readVars, nodeVars
  <1>5. CASE wq' = wq - 1 /\ writing' = FALSE /\ UNCHANGED endVars
    <2>1. TypeOK'
      <3>1. writing' \in BOOLEAN /\ wq' \in 0..written
        BY <1>2, <1>5
      <3> QED BY <1>1, <1>5, <3>1, RigidKind
          DEF TypeOK, coreVars, endVars, readVars, nodeVars
    <2>2. ~terminated => msgs + wq' = written
      BY <1>1, <1>2, <1>5 DEF WriteInv
    <2>3. WriteInv'
      BY <1>1, <1>2, <1>5, <2>2, RigidKind DEF WriteInv, endVars
    <2> QED BY <1>3, <1>4, <2>1, <2>3 DEF CallInv
  <1>6. CASE terminateCall("ERROR") /\ UNCHANGED <<wq, writing>>
    <2>1. wStatus' = "ERROR" /\ wEnd' = TRUE /\ terminated' = TRUE
      BY <1>6 DEF terminateCall
    <2>2. TypeOK'
      BY <1>1, <1>6, <2>1, RigidKind
      DEF TypeOK, coreVars, readVars, nodeVars
    <2>3. WriteInv'
      BY <1>1, <1>2, <1>6, <2>1, RigidKind DEF WriteInv
    <2> QED BY <1>3, <1>4, <2>2, <2>3 DEF CallInv
  <1> QED BY <1>5, <1>6 DEF WriteDone

(* 'finish': the pending status is sent, which the core does not refuse.   *)
LEMMA FinishInv == ASSUME CallInv, Finish PROVE CallInv'
  <1>1. /\ TypeOK /\ OpsInv /\ RespondInv /\ WriteInv /\ ReadInv
        /\ wEnd /\ wq = 0 /\ ~writing /\ ~finish /\ finish' = TRUE
        /\ metadataSent' = TRUE /\ statusBatch(pend, Meta, wStatus)
        /\ UNCHANGED <<rigid, coreVars, cancelled, handler, errored, written,
                       wq, writing, endVars, readVars>>
    BY DEF CallInv, Finish
  <1>2. /\ Writes /\ ~Responds /\ kind # "unknown" /\ kind # "unary"
        /\ statusOp = NULL /\ (metaOp => metadataSent)
    <2>1. Writes
      BY <1>1 DEF WriteInv
    <2>2. statusOp = NULL
      BY <1>1, <2>1 DEF WriteInv
    <2> QED BY <1>1, <2>1, <2>2, KindFacts DEF OpsInv
  <1>3. StatusTaken(pend, wStatus)
    <2>1. /\ Meta \in SUBSET {"meta", "msg"} /\ "msg" \notin Meta
          /\ "meta" \in Meta => ~metadataSent
      BY DEF Meta
    <2>2. wStatus \in {"OK", "ERROR", "NOT_A_NUMBER"}
      BY <1>1 DEF TypeOK
    <2> QED BY <1>1, <1>2, <2>1, <2>2, StatusBatchInv
  <1>4. UNCHANGED msgs
    BY <1>1 DEF statusBatch, startBatch, batchVars, Meta
  <1>5. TypeOK'
    <2>1. finish' \in BOOLEAN /\ metadataSent' \in BOOLEAN
          /\ pend' \subseteq Batches
      BY <1>1, <1>3 DEF TypeOK, Batches, StatusTaken
    <2> QED BY <1>1, <1>3, <2>1, RigidKind
        DEF TypeOK, StatusTaken, coreVars, endVars, readVars, nodeVars
  <1>6. OpsInv'
    BY <1>1, <1>3, RigidKind DEF OpsInv, StatusTaken, coreVars
  <1>7. RespondInv'
    BY <1>1, <1>2, RigidKind DEF RespondInv
  <1>8. WriteInv'
    BY <1>1, <1>2, <1>3, <1>4, RigidKind DEF WriteInv, StatusTaken, endVars
  <1>9. ReadInv'
    BY <1>1, <1>3, ReadFrame DEF StatusTaken, coreVars, readVars, nodeVars
  <1> QED BY <1>5, <1>6, <1>7, <1>8, <1>9 DEF CallInv

-----------------------------------------------------------------------------
(* The readable side.                                                      *)

(* A read that is started while none is under way is not refused.          *)
LEMMA ReadBatch ==
    ASSUME TypeOK, NEW p, "recv" \notin p,
           startBatch(p, "recv", {"recv"}, NULL)
    PROVE  pend' = p \cup {"recv"} /\ UNCHANGED <<metaOp, msgs, statusOp, threw>>
  <1>1. ~(NULL = "NOT_A_NUMBER" \/ Refused(p, {"recv"}))
    BY ServerCallAssumption DEF Refused, Again, Overlaps
  <1>2. metaOp' = (metaOp \/ FALSE) /\ metaOp \in BOOLEAN
    BY <1>1 DEF startBatch, TypeOK
  <1> QED BY <1>1, <1>2 DEF startBatch

(* Node asks for more, in whatever state the reads are.                    *)
LEMMA NodeReadInv == ASSUME CallInv, NodeRead PROVE CallInv'
  <1>1. /\ TypeOK /\ OpsInv /\ RespondInv /\ WriteInv /\ ReadInv
        /\ Reads /\ kind # "unary" /\ ~rEnded
        /\ UNCHANGED <<rigid, coreVars, metadataSent, cancelled, handler,
                       errored, writeVars, endVars, rbuf, delivered,
                       endEmitted>>
    BY KindFacts DEF CallInv, NodeRead
  <1>2. /\ \/ /\ finished /\ rEnded' = TRUE /\ nodeReading' = FALSE
              /\ UNCHANGED <<reading, finished, consumer, pend>>
           \/ /\ ~finished /\ reading /\ nodeReading' = TRUE
              /\ UNCHANGED <<reading, finished, consumer, rEnded, pend>>
           \/ /\ ~finished /\ ~reading /\ nodeReading' = TRUE
              /\ reading' = TRUE /\ terminate /\ UNCHANGED <<pend, rEnded>>
           \/ /\ ~finished /\ ~reading /\ nodeReading' = TRUE
              /\ reading' = TRUE /\ pend' = pend \cup {"recv"}
              /\ UNCHANGED <<finished, consumer, rEnded>>
        /\ UNCHANGED <<metaOp, msgs, statusOp, threw>>
    <2>1. CASE finished \/ reading \/ Destroyed
      BY <2>1 DEF NodeRead, _read, batchVars
    <2>2. CASE /\ ~finished /\ ~reading /\ nodeReading' = TRUE
               /\ reading' = TRUE /\ startBatch(pend, "recv", {"recv"}, NULL)
               /\ UNCHANGED <<finished, consumer, rEnded>>
      <3>1. "recv" \notin pend
        BY <1>1, <2>2 DEF ReadInv
      <3> QED BY <1>1, <2>2, <3>1, ReadBatch
    <2> QED BY <2>1, <2>2 DEF NodeRead, _read
  <1>3. /\ pend' \in {pend, pend \cup {"recv"}}
        /\ nodeReading' \in BOOLEAN /\ reading' \in BOOLEAN
        /\ finished' \in BOOLEAN /\ rEnded' \in BOOLEAN
        /\ consumer' \in {"none", "paused", "flowing"}
    BY <1>1, <1>2 DEF TypeOK, terminate
  <1>4. TypeOK'
    BY <1>1, <1>2, <1>3, RigidKind
    DEF TypeOK, Batches, coreVars, writeVars, endVars
  <1>5. OpsInv' /\ RespondInv' /\ WriteInv'
    <2>1. /\ \A b \in {"meta", "status", "write"} : b \in pend' => b \in pend
          /\ kind = "unary" /\ "recv" \in pend' => "recv" \in pend
      BY <1>1, <1>3
    <2> QED BY <1>1, <1>2, <2>1, SendFrame DEF coreVars, writeVars, endVars
  <1>6. ReadInv'
    BY <1>1, <1>2, RigidKind DEF ReadInv, terminate, coreVars
  <1> QED BY <1>4, <1>5, <1>6 DEF CallInv

(* The next request is pushed.                                             *)
LEMMA ReadMessageInv == ASSUME CallInv, ReadMessage PROVE CallInv'
  <1>1. /\ TypeOK /\ OpsInv /\ RespondInv /\ WriteInv /\ ReadInv
        /\ Reads /\ kind # "unary" /\ N \in Nat /\ "recv" \in pend /\ ~finished
        /\ got < N /\ got' = got + 1 /\ push(got + 1)
        /\ readAgain \/ readNoMore
        /\ UNCHANGED <<rigid, finalDone, gone, metadataSent, cancelled,
                       handler, errored, writeVars, endVars, finished, rEnded,
                       consumer, endEmitted>>
    BY KindFacts DEF CallInv, ReadMessage
  <1>2. /\ got \in Nat /\ got + 1 \in 1..N /\ got' \in 0..N
        /\ Len(delivered) \in Nat /\ Len(rbuf) \in Nat
        /\ got = Len(delivered) + Len(rbuf)
    BY <1>1, LenProperties DEF TypeOK, ReadInv
  <1>3. /\ rbuf' \in Seq(1..N) /\ delivered' \in Seq(1..N)
        /\ nodeReading' = FALSE
        /\ Len(delivered') + Len(rbuf') = Len(delivered) + Len(rbuf) + 1
    <2>1. CASE delivered' = Append(delivered, got + 1) /\ UNCHANGED rbuf
      BY <1>1, <1>2, <2>1, AppendProperties DEF TypeOK, push
    <2>2. CASE rbuf' = Append(rbuf, got + 1) /\ UNCHANGED delivered
      BY <1>1, <1>2, <2>2, AppendProperties DEF TypeOK, push
    <2> QED BY <1>1, <2>1, <2>2 DEF push
  <1>4. /\ \/ UNCHANGED <<pend, reading>>
           \/ pend' = pend \ {"recv"} /\ reading' = FALSE
        /\ UNCHANGED <<metaOp, msgs, statusOp, threw>>
    <2>1. CASE readAgain
      <3>1. "recv" \notin pend \ {"recv"} /\ (pend \ {"recv"}) \cup {"recv"} = pend
        BY <1>1
      <3> QED BY <1>1, <2>1, <3>1, ReadBatch DEF readAgain
    <2>2. CASE readNoMore
      BY <2>2 DEF readNoMore, Completes
    <2> QED BY <1>1, <2>1, <2>2
  <1>5. TypeOK'
    <2>1. nodeReading' \in BOOLEAN /\ reading' \in BOOLEAN /\ pend' \subseteq Batches
      BY <1>1, <1>3, <1>4 DEF TypeOK
    <2> QED BY <1>1, <1>2, <1>3, <1>4, <2>1, RigidKind
        DEF TypeOK, writeVars, endVars
  <1>6. OpsInv' /\ RespondInv' /\ WriteInv'
    BY <1>1, <1>4, SendFrame DEF writeVars, endVars
  <1>7. ReadInv'
    <2>1. got' = Len(delivered') + Len(rbuf')
      BY <1>1, <1>2, <1>3
    <2> QED BY <1>1, <1>4, <2>1, RigidKind DEF ReadInv
  <1> QED BY <1>5, <1>6, <1>7 DEF CallInv

(* The reads end, or the one under way fails.                              *)
LEMMA ReadEndsInv == ASSUME CallInv, ReadNull \/ ReadFails PROVE CallInv'
  <1>1. /\ TypeOK /\ OpsInv /\ RespondInv /\ WriteInv /\ ReadInv
        /\ Reads /\ kind # "unary" /\ "recv" \in pend
        /\ pend' = pend \ {"recv"}
        /\ UNCHANGED <<metaOp, msgs, statusOp, threw, rigid, coreVars,
                       metadataSent, cancelled, handler, errored, writeVars,
                       endVars, rbuf, delivered, endEmitted>>
    BY KindFacts DEF CallInv, ReadNull, ReadFails, Completes, nodeVars
  <1>2. \/ /\ rEnded' = TRUE /\ nodeReading' = FALSE
           /\ reading' = (reading /\ finished) /\ UNCHANGED <<finished, consumer>>
        \/ finished' = TRUE /\ UNCHANGED <<rEnded, nodeReading, reading>>
           /\ consumer' \in {consumer, "flowing"}
    BY DEF ReadNull, ReadFails, terminate, nodeVars
  <1>3. /\ nodeReading' \in BOOLEAN /\ reading' \in BOOLEAN
        /\ finished' \in BOOLEAN /\ rEnded' \in BOOLEAN
        /\ consumer' \in {"none", "paused", "flowing"}
    BY <1>1, <1>2 DEF TypeOK
  <1>4. TypeOK'
    BY <1>1, <1>3, RigidKind DEF TypeOK, coreVars, writeVars, endVars
  <1>5. OpsInv' /\ RespondInv' /\ WriteInv'
    BY <1>1, SendFrame DEF coreVars, writeVars, endVars
  <1>6. ReadInv'
    BY <1>1, <1>2, RigidKind DEF ReadInv, coreVars
  <1> QED BY <1>4, <1>5, <1>6 DEF CallInv

(* A request does not parse: an 'error' event, and no read after it.       *)
LEMMA ReadUnparsedInv == ASSUME CallInv, ReadUnparsed PROVE CallInv'
  <1> DEFINE p == pend \ {"recv"}
  <1>1. /\ TypeOK /\ OpsInv /\ RespondInv /\ WriteInv /\ ReadInv
        /\ Reads /\ kind # "unary" /\ N \in Nat /\ "recv" \in pend
        /\ got < N /\ got' = got + 1 /\ emitError(p) /\ p \subseteq pend
        /\ UNCHANGED <<rigid, finalDone, gone, metadataSent, cancelled,
                       handler, writeVars, readVars>>
    BY KindFacts DEF CallInv, ReadUnparsed
  <1>2. "meta" \in p => metadataSent
    BY <1>1 DEF OpsInv
  <1>3. ErrorEmitted(p)
    <2> HIDE DEF p
    <2> QED BY <1>1, <1>2, EmitErrorInv DEF writeVars
  <1>4. TypeOK'
    <2>1. got' \in 0..N
      BY <1>1 DEF TypeOK
    <2> QED BY <1>1, <1>3, <2>1, RigidKind
        DEF TypeOK, ErrorEmitted, writeVars, readVars, nodeVars
  <1>5. ReadInv'
    BY <1>1, <1>3, ReadFrame DEF ErrorEmitted, readVars, nodeVars
  <1> QED BY <1>3, <1>4, <1>5 DEF CallInv, ErrorEmitted

(* The consumer starts, stops, and takes what is in the buffer.            *)
LEMMA ConsumerInv == ASSUME CallInv, Consume \/ Flow \/ FlowEnd PROVE CallInv'
  <1>1. /\ TypeOK /\ OpsInv /\ RespondInv /\ WriteInv /\ ReadInv
        /\ UNCHANGED <<rigid, batchVars, metadataSent, errored, endVars,
                       coreVars, cancelled, handler, writeVars, reading,
                       finished, nodeReading, rEnded>>
    BY DEF CallInv, Consume, Flow, FlowEnd, NoBatch, nodeVars
  <1>2. OpsInv' /\ RespondInv' /\ WriteInv'
    BY <1>1, SendFrame DEF batchVars, coreVars, writeVars, endVars
  <1>3. CASE Consume \/ FlowEnd
    <2>1. /\ consumer' \in {"none", "paused", "flowing"}
          /\ endEmitted' \in BOOLEAN /\ UNCHANGED <<rbuf, delivered>>
      BY <1>1, <1>3 DEF Consume, FlowEnd, nodeVars, TypeOK
    <2>2. TypeOK'
      BY <1>1, <2>1, RigidKind
      DEF TypeOK, batchVars, coreVars, writeVars, endVars
    <2>3. ReadInv'
      BY <1>1, <2>1, ReadFrame DEF batchVars, coreVars
    <2> QED BY <1>2, <2>2, <2>3 DEF CallInv
  <1>4. CASE Flow
    <2>1. /\ rbuf # <<>> /\ delivered' = Append(delivered, Head(rbuf))
          /\ rbuf' = Tail(rbuf) /\ UNCHANGED <<consumer, endEmitted>>
      BY <1>4 DEF Flow
    <2>2. /\ rbuf' \in Seq(1..N) /\ Head(rbuf) \in 1..N
          /\ Len(rbuf') = Len(rbuf) - 1 /\ Len(rbuf) \in Nat \ {0}
          /\ Len(delivered) \in Nat
      BY <1>1, <2>1, HeadTailProperties, EmptySeq, LenProperties DEF TypeOK
    <2>3. delivered' \in Seq(1..N) /\ Len(delivered') = Len(delivered) + 1
      BY <1>1, <2>1, <2>2, AppendProperties DEF TypeOK
    <2>4. TypeOK'
      BY <1>1, <2>1, <2>2, <2>3, RigidKind
      DEF TypeOK, batchVars, coreVars, writeVars, endVars
    <2>5. Len(delivered') + Len(rbuf') = Len(delivered) + Len(rbuf)
      BY <2>2, <2>3
    <2>6. ReadInv'
      BY <1>1, <2>1, <2>5, RigidKind DEF ReadInv, batchVars, coreVars
    <2> QED BY <1>2, <2>4, <2>6 DEF CallInv
  <1> QED BY <1>3, <1>4

-----------------------------------------------------------------------------
(* The theorems.                                                           *)

(* Every step keeps the invariant.                                         *)
LEMMA NextInv == CallInv /\ [Next]_vars => CallInv'
  <1> SUFFICES ASSUME CallInv, [Next]_vars PROVE CallInv'
    OBVIOUS
  <1>1. CASE UNCHANGED vars
    <2> USE <1>1 DEF CallInv, vars, batchVars, coreVars, writeVars, endVars,
        readVars, nodeVars
    <2>1. TypeOK'
      BY RigidKind DEF TypeOK
    <2>2. OpsInv' /\ RespondInv' /\ WriteInv'
      BY SendFrame
    <2>3. ReadInv'
      BY ReadFrame
    <2> QED BY <2>1, <2>2, <2>3
  <1> QED BY <1>1, CoreInv, CloseInv, MetaDoneInv, UnaryInv,
             ServerStreamingInv, RespondStepInv, SendMetadataInv,
             ApplicationWritesInv, WriteBatchInv, WriteDoneInv, FinishInv,
             NodeReadInv, ReadMessageInv, ReadEndsInv, ReadUnparsedInv,
             ConsumerInv DEF Next

(* The inductive invariant holds in every reachable state.                 *)
THEOREM CallInvariant == Spec => []CallInv
  BY InitInv, NextInv, PTL DEF Spec

(* The variables keep their types.                                         *)
THEOREM TypeCorrect == Spec => []TypeOK
  <1>1. CallInv => TypeOK
    BY DEF CallInv
  <1> QED BY <1>1, CallInvariant, PTL

(* The core accepts every batch of every call but a second answer: reads   *)
(* and writes never overlap, and nothing is refused before a call with one *)
(* response has its status (server.js 46-113, 122-175, 304-333, 387-420,   *)
(* 592-600, 672-680).                                                      *)
THEOREM BatchesAccepted == Spec => []AcceptedByCore
  <1>1. CallInv => AcceptedByCore
    BY DEF CallInv, OpsInv, AcceptedByCore
  <1> QED BY <1>1, CallInvariant, PTL

-----------------------------------------------------------------------------
(* Action properties.                                                      *)

(* A status batch leaves the status of the call alone, or sets it.         *)
LEMMA StatusStep ==
    ASSUME NEW p, NEW ops, NEW code, statusBatch(p, ops, code)
    PROVE  statusOp' = statusOp \/ statusOp' = code
  BY DEF statusBatch, startBatch, batchVars

(* emit('error') never makes the status OK.                                *)
LEMMA ErrorStep ==
    ASSUME NEW p, emitError(p) PROVE statusOp' = statusOp \/ statusOp' = "ERROR"
  BY StatusStep DEF emitError, handleError

(* The status becomes OK where a response is sent and at the end of a      *)
(* stream, nowhere else.                                                   *)
LEMMA OKSteps ==
    ASSUME [Next]_vars, statusOp = NULL, statusOp' = "OK"
    PROVE  Respond \/ (Finish /\ wStatus = "OK")
  <1>1. statusOp' # statusOp /\ statusOp' # "ERROR"
    BY ServerCallAssumption
  <1>2. ~UNCHANGED vars
    BY <1>1 DEF vars, batchVars
  <1>3. ~(ClientGone \/ StatusDone \/ CloseDone)
    BY <1>1 DEF ClientGone, StatusDone, CloseDone, Completes, batchVars
  <1>4. ~MetaDone
    BY <1>1, ErrorStep DEF MetaDone, Completes
  <1>5. ~handleUnary
    BY <1>1, StatusStep DEF handleUnary, handleError, Completes
  <1>6. ~(handleServerStreaming \/ Write \/ WriteDone \/ EndStream)
    BY <1>1 DEF handleServerStreaming, Write, WriteDone, EndStream, Completes,
       batchVars
  <1>7. ~sendMetadata
    BY <1>1, ErrorStep DEF sendMetadata, startBatch
  <1>8. ~_write
    BY <1>1 DEF _write, startBatch, batchVars, Meta
  <1>9. Finish => wStatus = "OK"
    BY <1>1, StatusStep DEF Finish
  <1>10. ~(NodeRead \/ ReadMessage \/ ReadNull \/ ReadFails)
    BY <1>1 DEF NodeRead, _read, ReadMessage, readAgain, readNoMore, ReadNull,
       ReadFails, Completes, startBatch, batchVars
  <1>11. ~ReadUnparsed
    BY <1>1, ErrorStep DEF ReadUnparsed
  <1>12. ~(Consume \/ Flow \/ FlowEnd)
    BY <1>1 DEF Consume, Flow, FlowEnd, NoBatch, batchVars
  <1> QED BY <1>2, <1>3, <1>4, <1>5, <1>6, <1>7, <1>8, <1>9, <1>10, <1>11,
             <1>12 DEF Next

(* A call gets OK only if no 'error' event came before and, on a stream,   *)
(* everything written has gone out (server.js 85-113, 122-175).            *)
THEOREM OKEarned == Spec => OKIsEarned
  <1> DEFINE Earned == statusOp = NULL /\ statusOp' = "OK" =>
                          /\ ~errored /\ ~terminated
                          /\ Writes => msgs = written /\ wq = 0
  <1>1. CallInv /\ [Next]_vars => [Earned]_vars
    <2> SUFFICES ASSUME CallInv, [Next]_vars, statusOp = NULL,
                        statusOp' = "OK"
                 PROVE  /\ ~errored /\ ~terminated
                        /\ Writes => msgs = written /\ wq = 0
      OBVIOUS
    <2>1. TypeOK /\ OpsInv /\ WriteInv /\ ~errored
      BY DEF CallInv, OpsInv
    <2>2. CASE Respond
      BY <2>1, <2>2, KindFacts DEF Respond, WriteInv
    <2>3. CASE Finish /\ wStatus = "OK"
      <3>1. ~terminated /\ wq = 0 /\ ~writing
        BY <2>1, <2>3 DEF WriteInv, Finish
      <3>2. Writes => msgs + wq = written
        BY <2>1, <3>1 DEF WriteInv
      <3>3. msgs \in Nat
        BY <2>1 DEF TypeOK
      <3> QED BY <2>1, <3>1, <3>2, <3>3
    <2> QED BY <2>2, <2>3, OKSteps
  <1>2. OKIsEarned <=> [][Earned]_vars
    BY DEF OKIsEarned
  <1> HIDE DEF Earned
  <1> QED BY <1>1, <1>2, CallInvariant, PTL DEF Spec

(* The head of the buffer moves to the end of what was delivered: the      *)
(* requests handed over and buffered stay the same.                        *)
LEMMA FlowKeepsOrder ==
    ASSUME NEW S, NEW s \in Seq(S), NEW t \in Seq(S), t # <<>>
    PROVE  Append(s, Head(t)) \o Tail(t) = s \o t
  <1>1. Head(t) \in S /\ Tail(t) \in Seq(S) /\ <<Head(t)>> \in Seq(S)
    BY EmptySeq
  <1>2. Append(s, Head(t)) = s \o <<Head(t)>>
    BY <1>1, AppendIsConcat
  <1>3. t = <<Head(t)>> \o Tail(t)
    <2> DEFINE u == <<Head(t)>> \o Tail(t)
    <2>1. /\ u \in Seq(S) /\ Len(u) = 1 + Len(Tail(t))
          /\ \A i \in 1..Len(u) : u[i] = IF i <= 1 THEN <<Head(t)>>[i]
                                         ELSE Tail(t)[i - 1]
      BY <1>1, ConcatProperties
    <2>2. /\ Len(Tail(t)) = Len(t) - 1 /\ Len(t) \in Nat \ {0}
          /\ \A i \in 1..Len(Tail(t)) : Tail(t)[i] = t[i + 1]
      BY HeadTailProperties, EmptySeq, LenProperties
    <2>3. Len(u) = Len(t)
      BY <2>1, <2>2
    <2>4. ASSUME NEW i \in 1..Len(t) PROVE t[i] = u[i]
      <3> HIDE DEF u
      <3>1. CASE i = 1
        BY <2>1, <2>2, <2>3, <3>1
      <3>2. CASE i # 1
        <4>1. i - 1 \in 1..Len(Tail(t)) /\ (i - 1) + 1 = i
          BY <2>2, <3>2
        <4> QED BY <2>1, <2>2, <2>3, <3>2, <4>1
      <3> QED BY <3>1, <3>2
    <2> HIDE DEF u
    <2>5. t = u
      BY <2>1, <2>3, <2>4, SeqEqual
    <2> QED BY <2>5 DEF u
  <1>4. (s \o <<Head(t)>>) \o Tail(t) = s \o (<<Head(t)>> \o Tail(t))
    BY <1>1, ConcatAssociative
  <1> QED BY <1>2, <1>3, <1>4

(* A request at the end of the buffer is one at the end of all of them.    *)
LEMMA BufferKeepsOrder ==
    ASSUME NEW S, NEW s \in Seq(S), NEW t \in Seq(S), NEW e \in S
    PROVE  s \o Append(t, e) = Append(s \o t, e)
  <1>1. <<e>> \in Seq(S) /\ s \o t \in Seq(S)
    BY ConcatProperties
  <1>2. Append(t, e) = t \o <<e>> /\ Append(s \o t, e) = (s \o t) \o <<e>>
    BY <1>1, AppendIsConcat
  <1> QED BY <1>1, <1>2, ConcatAssociative

(* The requests are handed over and buffered by ReadMessage and moved by   *)
(* Flow, nowhere else.                                                     *)
LEMMA RequestSteps ==
    ASSUME [Next]_vars
    PROVE  ReadMessage \/ Flow \/ UNCHANGED <<delivered, rbuf>>
  <1> USE DEF readVars, nodeVars
  <1>1. ASSUME UNCHANGED vars PROVE UNCHANGED <<delivered, rbuf>>
    BY <1>1 DEF vars
  <1>2. ASSUME ClientGone \/ StatusDone \/ CloseDone \/ MetaDone
        PROVE  UNCHANGED <<delivered, rbuf>>
    BY <1>2 DEF ClientGone, StatusDone, CloseDone, MetaDone
  <1>3. ASSUME handleUnary \/ handleServerStreaming \/ Respond \/ sendMetadata
        PROVE  UNCHANGED <<delivered, rbuf>>
    BY <1>3 DEF handleUnary, handleServerStreaming, Respond, sendMetadata
  <1>4. ASSUME Write \/ _write \/ WriteDone \/ EndStream \/ Finish
        PROVE  UNCHANGED <<delivered, rbuf>>
    BY <1>4 DEF Write, _write, WriteDone, EndStream, Finish
  <1>5. ASSUME NodeRead \/ ReadNull \/ ReadFails \/ ReadUnparsed
        PROVE  UNCHANGED <<delivered, rbuf>>
    BY <1>5 DEF NodeRead, ReadNull, ReadFails, ReadUnparsed
  <1>6. ASSUME Consume \/ FlowEnd PROVE UNCHANGED <<delivered, rbuf>>
    BY <1>6 DEF Consume, FlowEnd
  <1> QED BY <1>1, <1>2, <1>3, <1>4, <1>5, <1>6 DEF Next

(* The handler is given the requests in order with none left out, and      *)
(* nothing after the end (server.js readCallback, _read).                  *)
THEOREM RequestsOrdered == Spec => RequestsInOrder
  <1> DEFINE old == delivered \o rbuf
             new == delivered' \o rbuf'
             Ordered == \/ new = old
                        \/ ~rEnded /\ new = Append(old, Len(old) + 1)
  <1>1. CallInv /\ [Next]_vars => [Ordered]_vars
    <2> SUFFICES ASSUME CallInv, [Next]_vars PROVE Ordered
      OBVIOUS
    <2>1. TypeOK /\ ReadInv /\ N \in Nat /\ delivered \in Seq(1..N)
          /\ rbuf \in Seq(1..N)
      BY KindFacts DEF CallInv, TypeOK
    <2>2. CASE UNCHANGED <<delivered, rbuf>>
      BY <2>2
    <2>3. CASE Flow
      BY <2>1, <2>3, FlowKeepsOrder DEF Flow
    <2>4. CASE ReadMessage
      <3>1. ~rEnded /\ got < N /\ got = Len(delivered) + Len(rbuf)
        BY <2>1, <2>4 DEF ReadMessage, ReadInv
      <3>2. got \in Nat /\ got + 1 \in 1..N
        BY <2>1, <3>1 DEF TypeOK
      <3>3. Len(old) = got
        BY <2>1, <3>1, ConcatProperties
      <3>4. CASE delivered' = Append(delivered, got + 1) /\ rbuf' = rbuf
                 /\ rbuf = <<>>
        <4>1. delivered' \in Seq(1..N)
          BY <2>1, <3>2, <3>4, AppendProperties
        <4>2. old = delivered /\ new = delivered'
          BY <2>1, <3>4, <4>1, ConcatEmptySeq
        <4> QED BY <3>1, <3>3, <3>4, <4>2
      <3>5. CASE rbuf' = Append(rbuf, got + 1) /\ delivered' = delivered
        <4>1. new = Append(old, got + 1)
          BY <2>1, <3>2, <3>5, BufferKeepsOrder
        <4> QED BY <3>1, <3>3, <4>1
      <3> QED BY <2>4, <3>4, <3>5 DEF ReadMessage, push
    <2> HIDE DEF Ordered
    <2> QED BY <2>2, <2>3, <2>4, RequestSteps
  <1>2. RequestsInOrder <=> [][Ordered]_vars
    BY DEF RequestsInOrder
  <1> HIDE DEF Ordered
  <1> QED BY <1>1, <1>2, CallInvariant, PTL DEF Spec
=============================================================================
