---------------------- MODULE NativeClientStreamProofs ----------------------
(***************************************************************************)
(* CallInv is an invariant of NativeClientStream, for calls of every kind  *)
(* with any number of messages and any buffer size.  It follows that no    *)
(* batch is started while one of its kind is with the core, that messages  *)
(* arrive in order, and that the status is reported once and correctly.    *)
(***************************************************************************)
EXTENDS NativeClientStream, SequenceTheorems, TLAPS

-----------------------------------------------------------------------------
(* The inductive invariant.                                                *)

(* A flag guards each batch that a stream starts.                          *)
BatchInv ==
    /\ \A b \in Batches : batch[b] # "double"
    /\ batch["read"] # "idle" => reading /\ ~finished /\ Reads
    /\ batch["write"] # "idle" => writing = "batch"
    /\ writing # "no" => flushed < written
    /\ batch["close"] # "idle" => closed

(* The messages are numbered as they arrived; those taken from the core    *)
(* are delivered, buffered, in the completed read, or did not parse.       *)
Numbered ==
    /\ \A i \in 1..Len(delivered) : delivered[i] = i
    /\ \A i \in 1..Len(rbuf) : rbuf[i] = Len(delivered) + i

TakenInv ==
    /\ ~Reads => rbuf = <<>> /\ delivered = <<>>
    /\ batch["read"] = "ok" /\ readValue # 0 =>
          readValue = taken /\ taken = Len(delivered) + Len(rbuf) + 1
    /\ Reads /\ read_status # "INTERNAL"
             /\ ~(batch["read"] = "ok" /\ readValue # 0) =>
          taken = Len(delivered) + Len(rbuf)

(* A status of a reading call: the halves, and the event made of them, or  *)
(* the error of a status batch that failed.                                *)
BatchError == <<[code |-> "BATCH_ERROR", value |-> 0]>>

HalvesInv ==
    /\ Reads => (finished <=> read_status # NULL)
    /\ Reads => (parseFailed <=> read_status = "INTERNAL")
    /\ Reads => (batch["status"] = "idle" <=>
                    received_status # NULL \/ callbacks = BatchError)
    /\ Reads /\ received_status = "OK" => taken = arrived
    /\ Reads => statuses =
          IF read_status = NULL \/ received_status = NULL THEN <<>>
          ELSE << IF read_status # "OK" THEN read_status ELSE received_status >>
    /\ Reads => callbacks \in {<<>>, BatchError}

(* The answer to a call without a response stream.                         *)
AnswerInv ==
    ~Reads =>
      /\ batch["status"] # "core" => taken = arrived
      /\ batch["status"] # "idle" =>
            statuses = <<>> /\ callbacks = <<>> /\ ~parseFailed
      /\ Len(statuses) <= 1 /\ Len(callbacks) <= 1
      /\ statuses = <<"OK">> => callbacks = <<[code |-> "OK", value |-> arrived]>>
      /\ parseFailed /\ statuses # <<>> => statuses = <<"INTERNAL">>

CallInv ==
    TypeOK /\ BatchInv /\ Numbered /\ TakenInv /\ HalvesInv /\ AnswerInv

-----------------------------------------------------------------------------
(* Kinds of calls, batches, and what a step leaves alone.                  *)

(* A call keeps its kind.                                                  *)
LEMMA RigidCall ==
    ASSUME UNCHANGED scenario
    PROVE  N' = N /\ M' = M /\ (Reads' <=> Reads) /\ (Writes' <=> Writes)
  BY DEF N, M, Reads, Writes

(* The error of a failed batch is one.                                     *)
LEMMA OneError == Len(BatchError) = 1 /\ BatchError # <<>>
  <1>1. ASSUME NEW x PROVE Len(<<x>>) = 1 /\ <<x>> # <<>>
    OBVIOUS
  <1> QED BY <1>1 DEF BatchError

(* The bounds of a call are natural numbers.                               *)
LEMMA CallBounds == ASSUME scenario \in Scenarios PROVE N \in Nat /\ M \in Nat
  <1>1. scenario \in [kind : Kinds, n : Nat, m : Nat]
    BY ClientStreamAssumption
  <1> QED BY <1>1 DEF N, M

(* Batch b gets result r, the others stay.                                 *)
Updated(b, r) ==
    /\ batch' \in [Batches -> {"idle", "core", "ok", "err", "double"}]
    /\ batch'[b] = r
    /\ \A c \in Batches : c # b => batch'[c] = batch[c]

(* A batch that is started or completes.                                   *)
LEMMA UpdateBatch ==
    ASSUME TypeOK, NEW b \in Batches, NEW r \in {"idle", "core", "ok", "err"},
           batch' = [batch EXCEPT ![b] = r]
    PROVE  Updated(b, r)
  BY DEF TypeOK, Updated

(* A batch that is started while it is idle.                               *)
LEMMA StartBatch ==
    ASSUME TypeOK, NEW b \in Batches, batch[b] = "idle", batch' = Started(b)
    PROVE  Updated(b, "core")
  <1>1. batch' = [batch EXCEPT ![b] = "core"]
    BY DEF Started, TypeOK
  <1> QED BY <1>1, UpdateBatch

(* The messages are not touched.                                           *)
LEMMA ReadFrame ==
    ASSUME Numbered, TakenInv, batch'["read"] = batch["read"],
           UNCHANGED <<scenario, rbuf, delivered, readValue, taken, read_status>>
    PROVE  Numbered' /\ TakenInv'
  BY RigidCall DEF Numbered, TakenInv

(* The status is not touched.                                              *)
LEMMA StatusFrame ==
    ASSUME HalvesInv, AnswerInv, batch'["status"] = batch["status"],
           UNCHANGED <<scenario, finished, read_status, parseFailed,
                       received_status, taken, arrived, statuses, callbacks>>
    PROVE  HalvesInv' /\ AnswerInv'
  BY RigidCall DEF HalvesInv, AnswerInv

(* A batch other than the read and the status completes.                   *)
LEMMA BatchFrame ==
    ASSUME BatchInv, NEW b \in Batches, NEW r \in {"idle", "core", "ok", "err"},
           Updated(b, r), batch[b] # "idle" \/ r = "idle",
           UNCHANGED <<scenario, reading, finished, writing, flushed, written,
                       closed>>
    PROVE  BatchInv'
  BY RigidCall DEF BatchInv, Updated, Batches

-----------------------------------------------------------------------------
(* The start.                                                              *)

(* The call as the request methods make it.                                *)
LEMMA InitInv == Init => CallInv
  <1> SUFFICES ASSUME Init PROVE CallInv
    OBVIOUS
  <1>1. scenario \in Scenarios /\ scenario \in [kind : Kinds, n : Nat, m : Nat]
    BY ClientStreamAssumption DEF Init
  <1>2. N \in Nat /\ M \in Nat /\ scenario.kind \in Kinds
    BY <1>1 DEF N, M
  <1>3. /\ callbacks = <<>> /\ readValue = 0 /\ ~destroyed /\ ~finished
        /\ ~reading /\ read_status = NULL /\ received_status = NULL
        /\ statuses = <<>> /\ ~parseFailed /\ rbuf = <<>> /\ ~nodeReading
        /\ ~rEnded /\ ~flowing /\ delivered = <<>> /\ written = 0
        /\ flushed = 0 /\ writing = "no" /\ ~writeFailed
        /\ arrived = 0 /\ taken = 0 /\ serverStatus = NULL /\ ~aborted
    BY DEF Init, ClientReadableStream, ClientWritableStream
  <1>4. /\ batch \in [Batches -> {"idle", "core", "ok", "err", "double"}]
        /\ \A b \in Batches : batch[b] # "double"
        /\ batch["read"] = "idle" /\ batch["write"] = "idle"
        /\ batch["close"] = "idle" /\ batch["status"] = "core"
    <2>1. batch = [b \in Batches |->
                     IF b \in requester_funcs[scenario.kind] THEN "core" ELSE "idle"]
      BY DEF Init
    <2>2. /\ "status" \in requester_funcs[scenario.kind]
          /\ \A b \in {"read", "write", "close"} :
                b \notin requester_funcs[scenario.kind]
      BY <1>2 DEF requester_funcs, makeUnaryRequest, makeClientStreamRequest,
         makeServerStreamRequest, makeBidiStreamRequest, Kinds
    <2> QED BY <2>1, <2>2 DEF Batches
  <1>5. TypeOK
    <2>1. /\ destroyed \in BOOLEAN /\ finished \in BOOLEAN /\ reading \in BOOLEAN
          /\ parseFailed \in BOOLEAN /\ nodeReading \in BOOLEAN
          /\ rEnded \in BOOLEAN /\ flowing \in BOOLEAN
          /\ writeFailed \in BOOLEAN
          /\ ending \in BOOLEAN /\ closed \in BOOLEAN /\ aborted \in BOOLEAN
      BY DEF Init, ClientReadableStream, ClientWritableStream
    <2>2. /\ rbuf \in Seq(1..N) /\ delivered \in Seq(1..N)
          /\ statuses \in Seq(ServerCodes \cup {"CANCELLED", "INTERNAL"})
          /\ callbacks \in Seq([code : ServerCodes \cup {"CANCELLED",
                                         "INTERNAL", "BATCH_ERROR"},
                                value : 0..N])
      BY <1>3, EmptySeq
    <2>3. /\ readValue \in 0..N /\ written \in 0..M /\ flushed \in 0..written
          /\ arrived \in 0..N /\ taken \in 0..arrived
      BY <1>2, <1>3
    <2> QED BY <1>1, <1>3, <1>4, <2>1, <2>2, <2>3 DEF TypeOK
  <1>6. BatchInv
    BY <1>3, <1>4 DEF BatchInv
  <1>7. Numbered /\ TakenInv
    BY <1>3, <1>4 DEF Numbered, TakenInv
  <1>8. HalvesInv /\ AnswerInv
    BY <1>3, <1>4, OneError, ClientStreamAssumption DEF HalvesInv, AnswerInv
  <1> QED BY <1>5, <1>6, <1>7, <1>8 DEF CallInv

-----------------------------------------------------------------------------
(* The two halves of the status.                                           *)

Event(rs, cs) ==
    IF rs = NULL \/ cs = NULL THEN <<>> ELSE << IF rs # "OK" THEN rs ELSE cs >>

(* What _emitStatusIfDone leaves behind.                                   *)
Emitted(rs, cs) ==
    /\ read_status' = rs /\ received_status' = cs /\ rEnded' \in BOOLEAN
    /\ statuses' = Event(rs, cs)
    /\ statuses' \in Seq(ServerCodes \cup {"CANCELLED", "INTERNAL"})

(* Nothing was emitted before: the event is the first.                     *)
LEMMA EmitsOnce ==
    ASSUME TypeOK, statuses = <<>>,
           NEW rs \in {NULL, "OK", "INTERNAL"},
           NEW cs \in ServerCodes \cup {NULL, "CANCELLED"},
           _emitStatusIfDone(rs, cs)
    PROVE  Emitted(rs, cs)
  <1> DEFINE status == IF rs # "OK" THEN rs ELSE cs
             S == ServerCodes \cup {"CANCELLED", "INTERNAL"}
  <1>1. CASE rs = NULL \/ cs = NULL
    BY <1>1 DEF _emitStatusIfDone, Emitted, Event, TypeOK
  <1>2. CASE ~(rs = NULL \/ cs = NULL)
    <2>1. /\ read_status' = rs /\ received_status' = cs
          /\ statuses' = Append(<<>>, status)
          /\ rEnded' = (rEnded \/ status = "OK")
      BY <1>2 DEF _emitStatusIfDone
    <2>2. status \in S
      BY <1>2
    <2>3. statuses' = <<status>> /\ <<status>> \in Seq(S)
      BY <2>1, <2>2
    <2>4. rEnded' \in BOOLEAN
      BY <2>1 DEF TypeOK
    <2> QED BY <1>2, <2>1, <2>3, <2>4 DEF Emitted, Event
  <1> QED BY <1>1, <1>2

(* The reads are over, which they were not before.                         *)
LEMMA ReadsDone ==
    ASSUME CallInv, Reads, ~finished, NEW code \in {"OK", "INTERNAL"},
           _readsDone(code), UNCHANGED <<scenario, callbacks, taken, arrived>>,
           batch'["status"] = batch["status"],
           parseFailed' <=> code = "INTERNAL"
    PROVE  /\ finished' = TRUE /\ aborted' \in BOOLEAN
           /\ Emitted(code, received_status) /\ HalvesInv' /\ AnswerInv'
  <1>1. TypeOK /\ HalvesInv /\ AnswerInv
    BY DEF CallInv
  <1>2. read_status = NULL /\ statuses = <<>>
    BY <1>1 DEF HalvesInv
  <1>3. /\ finished' = TRUE /\ aborted' = (aborted \/ code # "OK")
        /\ _emitStatusIfDone(code, received_status)
    BY DEF _readsDone
  <1>4. Emitted(code, received_status)
    BY <1>1, <1>2, <1>3, EmitsOnce DEF TypeOK
  <1>5. aborted' \in BOOLEAN
    BY <1>1, <1>3 DEF TypeOK
  <1>6. code # NULL
    BY ClientStreamAssumption
  <1>7. HalvesInv'
    BY <1>1, <1>2, <1>3, <1>4, <1>6, RigidCall DEF HalvesInv, Emitted, Event
  <1>8. AnswerInv'
    BY RigidCall DEF AnswerInv
  <1> QED BY <1>3, <1>4, <1>5, <1>7, <1>8

(* What _read leaves behind.                                               *)
ReadCalled ==
    /\ batch' \in [Batches -> {"idle", "core", "ok", "err", "double"}]
    /\ finished' \in BOOLEAN /\ reading' \in BOOLEAN /\ aborted' \in BOOLEAN
    /\ read_status' \in {NULL, "OK", "INTERNAL"}
    /\ received_status' \in ServerCodes \cup {NULL, "CANCELLED"}
    /\ statuses' \in Seq(ServerCodes \cup {"CANCELLED", "INTERNAL"})
    /\ nodeReading' \in BOOLEAN /\ rEnded' \in BOOLEAN
    /\ BatchInv' /\ HalvesInv' /\ AnswerInv'
    /\ batch'["read"] = "ok" <=> batch["read"] = "ok"
    /\ read_status' = "INTERNAL" <=> read_status = "INTERNAL"

(* _read starts a batch, does nothing, or ends the reads.                  *)
LEMMA ReadCalls ==
    ASSUME CallInv, Reads, _read,
           UNCHANGED <<scenario, parseFailed, writeVars, callbacks, arrived,
                       taken>>
    PROVE  ReadCalled
  <1>1. TypeOK /\ BatchInv /\ HalvesInv /\ AnswerInv
    BY DEF CallInv
  <1> USE DEF writeVars
  <1>2. CASE UNCHANGED <<batch, finished, reading, aborted, read_status,
                         received_status, statuses>>
             /\ rEnded' \in BOOLEAN /\ nodeReading' \in BOOLEAN
    <2>1. HalvesInv' /\ AnswerInv'
      BY <1>1, <1>2, StatusFrame
    <2>2. BatchInv'
      BY <1>1, <1>2, RigidCall DEF BatchInv
    <2> QED BY <1>1, <1>2, <2>1, <2>2 DEF TypeOK, ReadCalled
  <1>3. CASE /\ ~finished /\ ~reading /\ ~destroyed
             /\ reading' = TRUE /\ nodeReading' = TRUE
             /\ batch' = Started("read")
             /\ UNCHANGED <<finished, aborted, read_status, received_status,
                            statuses, rEnded>>
    <2>1. batch["read"] = "idle" /\ "read" \in Batches /\ "status" \in Batches
      BY <1>1, <1>3 DEF BatchInv, Batches
    <2>2. Updated("read", "core")
      BY <1>1, <1>3, <2>1, StartBatch
    <2>3. HalvesInv' /\ AnswerInv'
      BY <1>1, <1>3, <2>1, <2>2, StatusFrame DEF Updated
    <2>4. BatchInv'
      BY <1>1, <1>3, <2>2, RigidCall DEF BatchInv, Updated, Batches
    <2>5. reading' \in BOOLEAN /\ nodeReading' \in BOOLEAN
      BY <1>3
    <2> QED BY <1>1, <1>3, <2>1, <2>2, <2>3, <2>4, <2>5
        DEF TypeOK, ReadCalled, Updated
  <1>4. CASE /\ ~finished /\ ~reading /\ destroyed
             /\ reading' = TRUE /\ _readsDone("OK")
             /\ nodeReading' = ~rEnded' /\ UNCHANGED batch
    <2>1. batch["read"] = "idle" /\ ~parseFailed
      BY <1>1, <1>4, ClientStreamAssumption DEF BatchInv, HalvesInv
    <2>2. /\ finished' = TRUE /\ aborted' \in BOOLEAN
          /\ Emitted("OK", received_status) /\ HalvesInv' /\ AnswerInv'
      BY <1>4, <2>1, ReadsDone
    <2>3. BatchInv'
      BY <1>1, <1>4, <2>1, <2>2, RigidCall DEF BatchInv
    <2>4. reading' \in BOOLEAN /\ nodeReading' \in BOOLEAN /\ finished' \in BOOLEAN
      BY <1>4, <2>2 DEF Emitted
    <2>5. read_status # "INTERNAL" /\ read_status' = "OK"
      BY <1>1, <1>4, <2>2, ClientStreamAssumption DEF HalvesInv, Emitted
    <2> QED BY <1>1, <1>4, <2>2, <2>3, <2>4, <2>5 DEF TypeOK, ReadCalled, Emitted
  <1> QED BY <1>1, <1>2, <1>3, <1>4 DEF _read, TypeOK

-----------------------------------------------------------------------------
(* Reading.                                                                *)

(* The messages keep their numbers when the first one buffered is given to *)
(* the application.                                                        *)
LEMMA Delivers ==
    ASSUME TypeOK, Numbered, rbuf # <<>>,
           rbuf' = Tail(rbuf), delivered' = Append(delivered, Head(rbuf))
    PROVE  /\ rbuf' \in Seq(1..N) /\ delivered' \in Seq(1..N) /\ Numbered'
           /\ Len(delivered') + Len(rbuf') = Len(delivered) + Len(rbuf)
  <1>1. rbuf \in Seq(1..N) /\ delivered \in Seq(1..N)
    BY DEF TypeOK
  <1>2. /\ Head(rbuf) \in 1..N /\ Tail(rbuf) \in Seq(1..N)
        /\ Len(Tail(rbuf)) = Len(rbuf) - 1 /\ Len(rbuf) \in Nat \ {0}
        /\ Len(delivered) \in Nat
        /\ \A i \in 1..Len(Tail(rbuf)) : Tail(rbuf)[i] = rbuf[i + 1]
    BY <1>1, HeadTailProperties, EmptySeq, LenProperties
  <1>3. /\ delivered' \in Seq(1..N) /\ Len(delivered') = Len(delivered) + 1
        /\ \A i \in 1..Len(delivered) : delivered'[i] = delivered[i]
        /\ delivered'[Len(delivered) + 1] = Head(rbuf)
    BY <1>1, <1>2, AppendProperties
  <1>4. Head(rbuf) = Len(delivered) + 1
    BY <1>1, <1>2 DEF Numbered
  <1>5. ASSUME NEW i \in 1..Len(delivered') PROVE delivered'[i] = i
    BY <1>2, <1>3, <1>4, <1>5 DEF Numbered
  <1>6. ASSUME NEW i \in 1..Len(rbuf') PROVE rbuf'[i] = Len(delivered') + i
    <2>1. i + 1 \in 1..Len(rbuf) /\ rbuf'[i] = rbuf[i + 1]
      BY <1>2, <1>6
    <2> QED BY <1>2, <1>3, <2>1 DEF Numbered
  <1>7. Numbered'
    BY <1>5, <1>6 DEF Numbered
  <1> QED BY <1>2, <1>3, <1>7

(* The next message is delivered, or waits behind those in the buffer.     *)
LEMMA Pushes ==
    ASSUME TypeOK, Numbered, NEW m \in 1..N, push(m),
           m = Len(delivered) + Len(rbuf) + 1
    PROVE  /\ rbuf' \in Seq(1..N) /\ delivered' \in Seq(1..N) /\ Numbered'
           /\ nodeReading' \in BOOLEAN
           /\ Len(delivered') + Len(rbuf') = Len(delivered) + Len(rbuf) + 1
  <1>1. /\ rbuf \in Seq(1..N) /\ delivered \in Seq(1..N)
        /\ Len(rbuf) \in Nat /\ Len(delivered) \in Nat
    BY LenProperties DEF TypeOK
  <1>2. CASE flowing /\ rbuf = <<>>
    <2>1. /\ delivered' = Append(delivered, m) /\ nodeReading' = TRUE
          /\ rbuf' = rbuf /\ Len(rbuf) = 0 /\ Len(rbuf') = 0
      BY <1>2, EmptySeq DEF push
    <2>2. /\ delivered' \in Seq(1..N) /\ Len(delivered') = Len(delivered) + 1
          /\ \A i \in 1..Len(delivered) : delivered'[i] = delivered[i]
          /\ delivered'[Len(delivered) + 1] = m
      BY <1>1, <2>1, AppendProperties
    <2>3. \A i \in 1..Len(delivered') : delivered'[i] = i
      BY <1>1, <2>1, <2>2 DEF Numbered
    <2>4. Numbered'
      BY <2>1, <2>3 DEF Numbered
    <2>5. nodeReading' \in BOOLEAN /\ rbuf' \in Seq(1..N)
      BY <1>1, <2>1
    <2> QED BY <1>1, <2>1, <2>2, <2>4, <2>5
  <1>3. CASE ~(flowing /\ rbuf = <<>>)
    <2>1. /\ rbuf' = Append(rbuf, m) /\ nodeReading' = FALSE
          /\ delivered' = delivered
      BY <1>3 DEF push
    <2>2. /\ rbuf' \in Seq(1..N) /\ Len(rbuf') = Len(rbuf) + 1
          /\ \A i \in 1..Len(rbuf) : rbuf'[i] = rbuf[i]
          /\ rbuf'[Len(rbuf) + 1] = m
      BY <1>1, <2>1, AppendProperties
    <2>3. Len(delivered') = Len(delivered) /\ delivered' \in Seq(1..N)
      BY <1>1, <2>1
    <2>4. ASSUME NEW i \in 1..Len(rbuf') PROVE rbuf'[i] = Len(delivered) + i
      <3>1. CASE i = Len(rbuf) + 1
        BY <1>1, <2>2, <3>1
      <3>2. CASE i # Len(rbuf) + 1
        <4>1. i \in 1..Len(rbuf)
          BY ONLY <1>1, <2>2, <2>4, <3>2
        <4> QED BY <2>2, <4>1 DEF Numbered
      <3> QED BY <3>1, <3>2
    <2>5. Numbered'
      BY <2>1, <2>3, <2>4 DEF Numbered
    <2>6. nodeReading' \in BOOLEAN
      BY <2>1
    <2>7. Len(delivered') + Len(rbuf') = Len(delivered) + Len(rbuf) + 1
      BY ONLY <1>1, <2>2, <2>3
    <2> QED BY <2>2, <2>3, <2>5, <2>6, <2>7
  <1> QED BY <1>2, <1>3

(* A flowing application takes a message, and Node reads ahead.            *)
LEMMA FlowInv == ASSUME CallInv, Flow PROVE CallInv'
  <1>1. /\ TypeOK /\ BatchInv /\ Numbered /\ TakenInv /\ HalvesInv /\ AnswerInv
        /\ Reads
        /\ UNCHANGED <<readValue, destroyed, parseFailed, flowing, writeVars,
                       scenario, callbacks, arrived, taken, serverStatus>>
    BY DEF CallInv, Flow, call
  <1>2. ReadCalled
    <2>1. CASE _read
      BY <1>1, <2>1, ReadCalls
    <2>2. CASE UNCHANGED <<batch, finished, reading, aborted, read_status,
                           received_status, statuses, nodeReading, rEnded>>
      <3>1. HalvesInv' /\ AnswerInv'
        BY <1>1, <2>2, StatusFrame
      <3>2. BatchInv'
        BY <1>1, <2>2, RigidCall DEF BatchInv, writeVars
      <3> QED BY <1>1, <2>2, <3>1, <3>2 DEF TypeOK, ReadCalled
    <2> QED BY <2>1, <2>2 DEF Flow
  <1>3. /\ rbuf' \in Seq(1..N) /\ delivered' \in Seq(1..N) /\ Numbered'
        /\ Len(delivered') + Len(rbuf') = Len(delivered) + Len(rbuf)
    <2>1. CASE rbuf # <<>>
      BY <1>1, <2>1, Delivers DEF Flow
    <2>2. CASE rbuf = <<>>
      BY <1>1, <2>2 DEF Flow, TypeOK, Numbered
    <2> QED BY <2>1, <2>2
  <1>4. TypeOK'
    BY <1>1, <1>2, <1>3, RigidCall DEF TypeOK, ReadCalled, writeVars
  <1>5. TakenInv'
    BY <1>1, <1>2, <1>3, RigidCall DEF TakenInv, ReadCalled
  <1> QED BY <1>2, <1>3, <1>4, <1>5 DEF CallInv, ReadCalled

(* Node reads ahead for a paused one.                                      *)
LEMMA ReadMoreInv == ASSUME CallInv, ReadMore PROVE CallInv'
  <1>1. /\ TypeOK /\ BatchInv /\ Numbered /\ TakenInv /\ HalvesInv /\ AnswerInv
        /\ _read
        /\ UNCHANGED <<readValue, destroyed, parseFailed, rbuf, flowing,
                       delivered, writeVars, scenario, callbacks, arrived,
                       taken, serverStatus>>
    BY DEF CallInv, ReadMore, call
  <1>2. Reads
    BY <1>1 DEF ReadMore, TakenInv
  <1>3. ReadCalled
    BY <1>1, <1>2, ReadCalls
  <1>4. TypeOK'
    BY <1>1, <1>3, RigidCall DEF TypeOK, ReadCalled, writeVars
  <1>5. Numbered' /\ TakenInv'
    BY <1>1, <1>3, RigidCall DEF TakenInv, Numbered, ReadCalled
  <1> QED BY <1>3, <1>4, <1>5 DEF CallInv, ReadCalled

(* readCallback with a message.                                            *)
LEMMA ReadMessageInv == ASSUME CallInv, ReadMessage PROVE CallInv'
  <1>1. /\ TypeOK /\ BatchInv /\ Numbered /\ TakenInv /\ HalvesInv /\ AnswerInv
        /\ batch["read"] = "ok" /\ readValue # 0 /\ push(readValue)
        /\ reading' = pushSaysMore
        /\ batch' = [batch EXCEPT !["read"] =
                        IF pushSaysMore THEN "core" ELSE "idle"]
        /\ destroyed' \in BOOLEAN
        /\ UNCHANGED <<readValue, finished, read_status, received_status,
                       statuses, parseFailed, rEnded, flowing, writeVars,
                       scenario, callbacks, arrived, taken, serverStatus,
                       aborted>>
    BY DEF CallInv, ReadMessage, DestroyedAfter, coreVars, call
  <1>2. Reads /\ reading /\ ~finished /\ N \in Nat
    BY <1>1, CallBounds DEF BatchInv, TypeOK
  <1>3. /\ readValue \in 1..N /\ readValue = taken
        /\ readValue = Len(delivered) + Len(rbuf) + 1
    BY <1>1, <1>2 DEF TypeOK, TakenInv
  <1>4. /\ rbuf' \in Seq(1..N) /\ delivered' \in Seq(1..N) /\ Numbered'
        /\ nodeReading' \in BOOLEAN
        /\ Len(delivered') + Len(rbuf') = Len(delivered) + Len(rbuf) + 1
    BY <1>1, <1>3, Pushes
  <1>5. /\ Updated("read", IF pushSaysMore THEN "core" ELSE "idle")
        /\ "read" \in Batches /\ "status" \in Batches
    BY <1>1, UpdateBatch DEF Batches
  <1>6. reading' \in BOOLEAN
    BY <1>1 DEF pushSaysMore
  <1>7. TypeOK'
    BY <1>1, <1>4, <1>5, <1>6, RigidCall DEF TypeOK, Updated, writeVars
  <1>8. BatchInv'
    BY <1>1, <1>2, <1>5, RigidCall DEF BatchInv, Updated, Batches, writeVars
  <1>9. TakenInv'
    BY <1>1, <1>2, <1>3, <1>4, <1>5, RigidCall DEF TakenInv, Updated
  <1>10. HalvesInv' /\ AnswerInv'
    BY <1>1, <1>5, StatusFrame DEF Updated
  <1> QED BY <1>4, <1>7, <1>8, <1>9, <1>10 DEF CallInv

(* readCallback with anything else.                                        *)
LEMMA ReadEndsInv == ASSUME CallInv, ReadEnds PROVE CallInv'
  <1>1. /\ TypeOK /\ BatchInv /\ Numbered /\ TakenInv /\ HalvesInv /\ AnswerInv
        /\ batch["read"] \in {"ok", "err"}
        /\ batch' = [batch EXCEPT !["read"] = "idle"] /\ destroyed' \in BOOLEAN
        /\ UNCHANGED <<readValue, reading, rbuf, nodeReading, flowing,
                       delivered, writeVars, scenario, callbacks, arrived,
                       taken, serverStatus>>
    BY DEF CallInv, ReadEnds, DestroyedAfter, call
  <1>2. /\ Reads /\ reading /\ ~finished /\ read_status = NULL /\ ~parseFailed
        /\ read_status # "INTERNAL"
    BY <1>1, ClientStreamAssumption DEF BatchInv, HalvesInv
  <1>3. Updated("read", "idle") /\ "read" \in Batches /\ "status" \in Batches
    BY <1>1, UpdateBatch DEF Batches
  <1>4. PICK code \in {"OK", "INTERNAL"} :
          /\ _readsDone(code) /\ (parseFailed' <=> code = "INTERNAL")
          /\ code = "OK" => ~(batch["read"] = "ok" /\ readValue # 0)
    BY <1>1, <1>2 DEF ReadEnds
  <1>5. /\ finished' = TRUE /\ aborted' \in BOOLEAN
        /\ Emitted(code, received_status) /\ HalvesInv' /\ AnswerInv'
    BY <1>1, <1>2, <1>3, <1>4, ReadsDone DEF Updated
  <1>6. TypeOK'
    <2>1. parseFailed' \in BOOLEAN /\ finished' \in BOOLEAN
      BY <1>1, <1>2, <1>5 DEF ReadEnds, TypeOK
    <2> QED BY <1>1, <1>3, <1>5, <2>1, RigidCall
        DEF TypeOK, Emitted, Updated, writeVars
  <1>7. BatchInv'
    BY <1>1, <1>3, RigidCall DEF BatchInv, Updated, Batches, writeVars
  <1>8. Numbered' /\ TakenInv'
    BY <1>1, <1>2, <1>3, <1>4, <1>5, RigidCall
    DEF Numbered, TakenInv, Emitted, Updated
  <1> QED BY <1>5, <1>6, <1>7, <1>8 DEF CallInv

(* The application stops and goes on.                                      *)
LEMMA PauseInv == ASSUME CallInv, PauseOrResume PROVE CallInv'
  <1>1. /\ TypeOK /\ BatchInv /\ Numbered /\ TakenInv /\ HalvesInv /\ AnswerInv
        /\ flowing' \in BOOLEAN
        /\ UNCHANGED <<batch, readValue, destroyed, readVars, rbuf,
                       nodeReading, rEnded, delivered, writeVars, coreVars>>
    BY DEF CallInv, PauseOrResume, TypeOK
  <1> USE DEF readVars, writeVars, coreVars, call
  <1>2. TypeOK'
    BY <1>1, RigidCall DEF TypeOK
  <1>3. Numbered' /\ TakenInv' /\ HalvesInv' /\ AnswerInv'
    BY <1>1, ReadFrame, StatusFrame
  <1>4. BatchInv'
    BY <1>1, RigidCall DEF BatchInv
  <1> QED BY <1>2, <1>3, <1>4 DEF CallInv

-----------------------------------------------------------------------------
(* The other callbacks.                                                    *)

(* The status of a call with a response stream.                            *)
LEMMA StatusCallbackInv == ASSUME CallInv, StatusCallback PROVE CallInv'
  <1>1. /\ TypeOK /\ BatchInv /\ Numbered /\ TakenInv /\ HalvesInv /\ AnswerInv
        /\ Reads /\ batch["status"] \in {"ok", "err"}
        /\ batch' = [batch EXCEPT !["status"] = "idle"] /\ destroyed' \in BOOLEAN
        /\ UNCHANGED <<readValue, finished, reading, parseFailed, rbuf,
                       nodeReading, flowing, delivered, writeVars, scenario,
                       arrived, taken, serverStatus, aborted>>
    BY DEF CallInv, StatusCallback, DestroyedAfter, TypeOK
  <1>2. received_status = NULL /\ statuses = <<>> /\ callbacks = <<>>
    BY <1>1 DEF HalvesInv
  <1>3. Updated("status", "idle") /\ \A b \in {"read", "status"} : b \in Batches
    BY <1>1, UpdateBatch DEF Batches
  <1>4. BatchInv'
    BY <1>1, <1>3, BatchFrame DEF writeVars
  <1>5. AnswerInv'
    BY <1>1, RigidCall DEF AnswerInv
  <1>6. CASE batch["status"] = "ok"
    <2>1. PICK cs \in ServerCodes \cup {"CANCELLED"} :
            /\ _emitStatusIfDone(read_status, cs)
            /\ cs = "OK" => taken = arrived
      BY <1>1, <1>6 DEF StatusCallback, TypeOK
    <2>2. UNCHANGED callbacks
      BY <1>6 DEF StatusCallback
    <2>3. Emitted(read_status, cs) /\ cs # NULL
      BY <1>1, <1>2, <2>1, EmitsOnce, ClientStreamAssumption DEF TypeOK
    <2>4. TypeOK'
      BY <1>1, <1>3, <2>2, <2>3, RigidCall DEF TypeOK, Emitted, Updated, writeVars
    <2>5. Numbered' /\ TakenInv'
      BY <1>1, <1>3, <2>3, ReadFrame DEF Updated, Emitted
    <2>6. HalvesInv'
      BY <1>1, <1>2, <1>3, <2>1, <2>2, <2>3, RigidCall
      DEF HalvesInv, Emitted, Event, Updated
    <2> QED BY <1>4, <1>5, <2>4, <2>5, <2>6 DEF CallInv
  <1>7. CASE batch["status"] = "err"
    <2>1. /\ callbacks' = Append(callbacks, [code |-> "BATCH_ERROR", value |-> 0])
          /\ UNCHANGED <<read_status, received_status, statuses, rEnded>>
      BY <1>7 DEF StatusCallback
    <2>2. callbacks' = BatchError
      BY <1>2, <2>1 DEF BatchError
    <2>3. TypeOK'
      <3>1. N \in Nat
        BY <1>1, CallBounds DEF TypeOK
      <3>2. callbacks' \in Seq([code : ServerCodes \cup {"CANCELLED", "INTERNAL",
                                                         "BATCH_ERROR"},
                                value : 0..N])
        BY <2>2, <3>1 DEF BatchError
      <3> QED BY <1>1, <1>3, <2>1, <3>2, RigidCall DEF TypeOK, Updated, writeVars
    <2>4. Numbered' /\ TakenInv'
      BY <1>1, <1>3, <2>1, ReadFrame DEF Updated
    <2>5. HalvesInv'
      BY <1>1, <1>2, <1>3, <2>1, <2>2, RigidCall DEF HalvesInv, Updated
    <2> QED BY <1>4, <1>5, <2>3, <2>4, <2>5 DEF CallInv
  <1> QED BY <1>1, <1>6, <1>7

(* The answer to a call without one.                                       *)
LEMMA ResponseCallbackInv == ASSUME CallInv, ResponseCallback PROVE CallInv'
  <1> DEFINE C == ServerCodes \cup {"CANCELLED", "INTERNAL"}
             D == [code : ServerCodes \cup {"CANCELLED", "INTERNAL",
                                            "BATCH_ERROR"}, value : 0..N]
  <1>1. /\ TypeOK /\ BatchInv /\ Numbered /\ TakenInv /\ HalvesInv /\ AnswerInv
        /\ ~Reads /\ batch["status"] \in {"ok", "err"}
        /\ batch' = [batch EXCEPT !["status"] = "idle"] /\ destroyed' \in BOOLEAN
        /\ UNCHANGED <<readValue, finished, reading, read_status,
                       received_status, nodeVars, writeVars, scenario, arrived,
                       taken, serverStatus, aborted>>
    BY DEF CallInv, ResponseCallback, DestroyedAfter, TypeOK
  <1>2. /\ statuses = <<>> /\ callbacks = <<>> /\ ~parseFailed
        /\ taken = arrived /\ taken \in 0..N /\ 0 \in 0..N
    BY <1>1, CallBounds DEF AnswerInv, TypeOK
  <1>3. Updated("status", "idle") /\ \A b \in {"read", "status"} : b \in Batches
    BY <1>1, UpdateBatch DEF Batches
  <1>4. ASSUME NEW code \in C, answer(code)
        PROVE  /\ statuses' = <<code>> /\ statuses' \in Seq(C)
               /\ \E v \in 0..N :
                    /\ callbacks' = <<[code |-> code, value |-> v]>>
                    /\ code = "OK" => v = arrived
               /\ callbacks' \in Seq(D)
    <2>1. /\ callbacks' = Append(<<>>, [code |-> code,
                                  value |-> IF code = "OK" THEN taken ELSE 0])
          /\ statuses' = Append(<<>>, code)
      BY <1>2, <1>4 DEF answer
    <2> DEFINE v == IF code = "OK" THEN taken ELSE 0
    <2>2. v \in 0..N /\ (code = "OK" => v = arrived)
      BY <1>2
    <2>3. callbacks' = <<[code |-> code, value |-> v]>> /\ statuses' = <<code>>
      BY <2>1
    <2>4. [code |-> code, value |-> v] \in D
      BY <1>4, <2>2
    <2> HIDE DEF v, D, C
    <2>5. callbacks' \in Seq(D) /\ statuses' \in Seq(C)
      BY <1>4, <2>3, <2>4
    <2> QED BY <2>2, <2>3, <2>5
  <1>5. \/ /\ statuses' = <<>> /\ UNCHANGED parseFailed
           /\ callbacks' = <<[code |-> "BATCH_ERROR", value |-> 0]>>
        \/ \E code \in C : /\ answer(code)
                           /\ parseFailed' => code = "INTERNAL"
                           /\ parseFailed' \in BOOLEAN
    <2>1. CASE /\ serverStatus = "OK" /\ batch["status"] = "err"
               /\ callbacks' = Append(callbacks, [code |-> "BATCH_ERROR",
                                                  value |-> 0])
               /\ UNCHANGED <<statuses, parseFailed>>
      BY <1>2, <2>1
    <2>2. CASE \E code \in C : answer(code) /\ UNCHANGED parseFailed
      BY <1>1, <1>2, <2>2 DEF TypeOK
    <2>3. CASE answer("INTERNAL") /\ parseFailed' = TRUE
      <3>1. "INTERNAL" \in C /\ parseFailed' \in BOOLEAN
        BY <2>3
      <3> QED BY <2>3, <3>1
    <2>4. serverStatus \in C \cup {NULL} /\ "CANCELLED" \in C
      BY <1>1 DEF TypeOK
    <2>5. serverStatus = "OK" => "OK" \in C
      BY <1>1, ClientStreamAssumption DEF TypeOK
    <2> HIDE DEF C, D
    <2> QED BY <2>1, <2>2, <2>3, <2>4, <2>5 DEF ResponseCallback
  <1>6. /\ statuses' \in Seq(C) /\ callbacks' \in Seq(D)
        /\ parseFailed' \in BOOLEAN
        /\ Len(statuses') <= 1 /\ Len(callbacks') <= 1
        /\ statuses' = <<"OK">> =>
              callbacks' = <<[code |-> "OK", value |-> arrived]>>
        /\ parseFailed' /\ statuses' # <<>> => statuses' = <<"INTERNAL">>
    <2>1. CASE /\ statuses' = <<>> /\ UNCHANGED parseFailed
               /\ callbacks' = <<[code |-> "BATCH_ERROR", value |-> 0]>>
      <3>1. [code |-> "BATCH_ERROR", value |-> 0] \in D
        BY <1>2
      <3> HIDE DEF C, D
      <3>2. callbacks' \in Seq(D) /\ statuses' \in Seq(C)
        BY <2>1, <3>1
      <3> QED BY <1>1, <2>1, <3>2 DEF TypeOK
    <2>2. ASSUME NEW code \in C, answer(code), parseFailed' => code = "INTERNAL",
                 parseFailed' \in BOOLEAN
          PROVE  <1>6!:
      <3> HIDE DEF C, D
      <3>1. PICK v \in 0..N : /\ callbacks' = <<[code |-> code, value |-> v]>>
                              /\ code = "OK" => v = arrived
        BY <1>4, <2>2
      <3>2. statuses' = <<code>>
        BY <1>4, <2>2
      <3>3. statuses' \in Seq(C) /\ callbacks' \in Seq(D)
        BY <1>4, <2>2
      <3>4. statuses' = <<"OK">> => code = "OK"
        BY <3>2
      <3> QED BY <2>2, <3>1, <3>2, <3>3, <3>4
    <2> HIDE DEF C, D
    <2> QED BY <1>5, <2>1, <2>2
  <1>7. TypeOK'
    BY <1>1, <1>3, <1>6, RigidCall DEF TypeOK, Updated, writeVars, nodeVars
  <1>8. BatchInv'
    BY <1>1, <1>3, BatchFrame DEF writeVars
  <1>9. Numbered' /\ TakenInv'
    BY <1>1, <1>3, ReadFrame DEF Updated, nodeVars
  <1>10. HalvesInv'
    BY <1>1, RigidCall DEF HalvesInv
  <1>11. AnswerInv'
    BY <1>1, <1>2, <1>3, <1>6, RigidCall DEF AnswerInv, Updated
  <1> QED BY <1>7, <1>8, <1>9, <1>10, <1>11 DEF CallInv

(* The callbacks of the first batch and of the half-close.                 *)
LEMMA OtherCallbacksInv ==
    ASSUME CallInv, StartCallback \/ CloseCallback PROVE CallInv'
  <1>1. /\ TypeOK /\ BatchInv /\ Numbered /\ TakenInv /\ HalvesInv /\ AnswerInv
        /\ destroyed' \in BOOLEAN
        /\ UNCHANGED <<readValue, readVars, nodeVars, writeVars, coreVars>>
    BY DEF CallInv, StartCallback, CloseCallback, DestroyedAfter
  <1>2. PICK b \in {"start", "close"} : batch' = [batch EXCEPT ![b] = "idle"]
    BY DEF StartCallback, CloseCallback
  <1>3. /\ Updated(b, "idle") /\ b \in Batches
        /\ batch'["read"] = batch["read"] /\ batch'["status"] = batch["status"]
    <2>1. /\ b \in Batches /\ "read" \in Batches /\ "status" \in Batches
          /\ b # "read" /\ b # "status"
      BY DEF Batches
    <2> QED BY <1>1, <1>2, <2>1, UpdateBatch DEF Updated
  <1> USE DEF readVars, nodeVars, writeVars, coreVars, call
  <1>4. TypeOK'
    BY <1>1, <1>3, RigidCall DEF TypeOK, Updated
  <1>5. BatchInv'
    BY <1>1, <1>3, BatchFrame
  <1>6. Numbered' /\ TakenInv' /\ HalvesInv' /\ AnswerInv'
    BY <1>1, <1>3, ReadFrame, StatusFrame
  <1> QED BY <1>4, <1>5, <1>6 DEF CallInv

-----------------------------------------------------------------------------
(* Writing.                                                                *)

(* The batches, but for the write and the half-close, stay as they are.    *)
LEMMA WriteFrame ==
    ASSUME Numbered, TakenInv, HalvesInv, AnswerInv,
           batch'["read"] = batch["read"], batch'["status"] = batch["status"],
           UNCHANGED <<readValue, readVars, nodeVars, call, arrived, taken>>
    PROVE  Numbered' /\ TakenInv' /\ HalvesInv' /\ AnswerInv'
  BY ReadFrame, StatusFrame DEF readVars, nodeVars, call

(* The application writes and ends.                                        *)
LEMMA ApplicationWritesInv ==
    ASSUME CallInv, Write \/ EndWrites PROVE CallInv'
  <1>1. /\ TypeOK /\ BatchInv /\ Numbered /\ TakenInv /\ HalvesInv /\ AnswerInv
        /\ UNCHANGED <<batch, readValue, destroyed, readVars, nodeVars, flushed,
                       writing, writeFailed, closed, coreVars>>
        /\ written' = written \/ (written < M /\ written' = written + 1)
        /\ ending' = ending \/ ending' = TRUE
    BY DEF CallInv, Write, EndWrites
  <1>2. /\ written \in Nat /\ flushed \in Nat /\ flushed <= written /\ M \in Nat
        /\ written <= M
    BY <1>1, CallBounds DEF TypeOK
  <1>3. written' \in 0..M /\ written' \in Nat /\ written <= written'
    BY <1>1, <1>2
  <1>4. flushed' \in 0..written' /\ ending' \in BOOLEAN
    <2>1. ending' \in BOOLEAN
      BY <1>1 DEF TypeOK
    <2>2. flushed' \in 0..written'
      <3>1. flushed' = flushed
        BY <1>1
      <3> QED BY ONLY <1>2, <1>3, <3>1
    <2> QED BY <2>1, <2>2
  <1>5. TypeOK'
    BY <1>1, <1>3, <1>4, RigidCall DEF TypeOK, readVars, nodeVars, coreVars, call
  <1>6. BatchInv'
    BY <1>1, <1>2, <1>3, RigidCall DEF BatchInv, readVars, coreVars, call
  <1>7. Numbered' /\ TakenInv' /\ HalvesInv' /\ AnswerInv'
    BY <1>1, WriteFrame DEF coreVars
  <1> QED BY <1>5, <1>6, <1>7 DEF CallInv

(* _write starts a batch if none is under way.                             *)
LEMMA WriteBatchInv == ASSUME CallInv, _write PROVE CallInv'
  <1>1. /\ TypeOK /\ BatchInv /\ Numbered /\ TakenInv /\ HalvesInv /\ AnswerInv
        /\ flushed < written /\ writing = "no"
        /\ UNCHANGED <<readValue, destroyed, readVars, nodeVars, written,
                       ending, closed, call, arrived, taken, serverStatus>>
    BY DEF CallInv, _write
  <1>2. /\ batch["write"] = "idle" /\ written \in Nat /\ flushed \in Nat
        /\ \A b \in {"read", "write", "close", "status"} : b \in Batches
    BY <1>1, CallBounds DEF TypeOK, BatchInv, Batches
  <1>3. CASE /\ writing' \in {"no", "immediate"} /\ UNCHANGED batch
             /\ \/ flushed' = flushed
                \/ flushed' = flushed + 1 /\ writing' = "no"
             /\ writeFailed' \in BOOLEAN
             /\ aborted' \in BOOLEAN
    <2>1. flushed' \in 0..written /\ (writing' # "no" => flushed' < written)
      BY <1>1, <1>2, <1>3
    <2>2. TypeOK'
      BY <1>1, <1>3, <2>1, RigidCall DEF TypeOK, readVars, nodeVars, call
    <2>3. BatchInv'
      BY <1>1, <1>2, <1>3, <2>1, RigidCall DEF BatchInv, readVars, call
    <2>4. Numbered' /\ TakenInv' /\ HalvesInv' /\ AnswerInv'
      BY <1>1, <1>3, WriteFrame
    <2> QED BY <2>2, <2>3, <2>4 DEF CallInv
  <1>4. CASE /\ writing' = "batch" /\ batch' = Started("write")
             /\ UNCHANGED <<flushed, writeFailed, aborted>>
    <2>1. Updated("write", "core")
      BY <1>1, <1>2, <1>4, StartBatch
    <2>2. TypeOK'
      BY <1>1, <1>4, <2>1, RigidCall
      DEF TypeOK, Updated, readVars, nodeVars, call
    <2>3. BatchInv'
      BY <1>1, <1>2, <1>4, <2>1, RigidCall
      DEF BatchInv, Updated, readVars, call
    <2>4. Numbered' /\ TakenInv' /\ HalvesInv' /\ AnswerInv'
      BY <1>1, <1>2, <2>1, WriteFrame DEF Updated
    <2> QED BY <2>2, <2>3, <2>4 DEF CallInv
  <1>5. \/ /\ writing' = "immediate"
           /\ UNCHANGED <<batch, flushed, writeFailed, aborted>>
        \/ /\ aborted' = TRUE /\ flushed' = flushed + 1
           /\ UNCHANGED <<batch, writing, writeFailed>>
        \/ /\ writing' = "batch" /\ batch' = Started("write")
           /\ UNCHANGED <<flushed, writeFailed, aborted>>
        \/ /\ writeFailed' = TRUE /\ flushed' = flushed + 1
           /\ UNCHANGED <<batch, writing, aborted>>
    BY DEF _write
  <1>6. /\ writeFailed' \in BOOLEAN
        /\ aborted' \in BOOLEAN
    BY <1>1, <1>5 DEF TypeOK
  <1> QED BY <1>1, <1>3, <1>4, <1>5, <1>6

(* Its callback is called, from a batch or from setImmediate.              *)
LEMMA WriteDoneInv ==
    ASSUME CallInv, WriteImmediate \/ WriteCallback PROVE CallInv'
  <1>1. /\ TypeOK /\ BatchInv /\ Numbered /\ TakenInv /\ HalvesInv /\ AnswerInv
        /\ writing' = "no" /\ flushed' = flushed + 1
        /\ destroyed' \in BOOLEAN /\ writeFailed' \in BOOLEAN
        /\ UNCHANGED <<readValue, readVars, nodeVars, written,
                       ending, closed, coreVars>>
    BY DEF CallInv, WriteImmediate, WriteCallback, DestroyedAfter, TypeOK
  <1>2. \A b \in {"read", "write", "close", "status"} : b \in Batches
    BY DEF Batches
  <1>3. CASE WriteImmediate
    <2>1. writing = "immediate" /\ UNCHANGED batch /\ batch["write"] = "idle"
      BY <1>1, <1>3 DEF WriteImmediate, BatchInv
    <2>2. flushed < written /\ flushed' \in 0..written
      BY <1>1, <2>1, CallBounds DEF BatchInv, TypeOK
    <2>3. TypeOK'
      BY <1>1, <2>1, <2>2, RigidCall DEF TypeOK, readVars, nodeVars, coreVars, call
    <2>4. BatchInv'
      BY <1>1, <2>1, RigidCall DEF BatchInv, readVars, coreVars, call
    <2>5. Numbered' /\ TakenInv' /\ HalvesInv' /\ AnswerInv'
      BY <1>1, <2>1, WriteFrame DEF coreVars
    <2> QED BY <2>3, <2>4, <2>5 DEF CallInv
  <1>4. CASE WriteCallback
    <2>1. batch["write"] # "idle" /\ Updated("write", "idle")
      BY <1>1, <1>2, <1>4, UpdateBatch DEF WriteCallback
    <2>2. flushed < written /\ flushed' \in 0..written
      BY <1>1, <2>1, CallBounds DEF BatchInv, TypeOK
    <2>3. TypeOK'
      BY <1>1, <2>1, <2>2, RigidCall
      DEF TypeOK, Updated, readVars, nodeVars, coreVars, call
    <2>4. BatchInv'
      BY <1>1, <1>2, <2>1, RigidCall
      DEF BatchInv, Updated, readVars, coreVars, call
    <2>5. Numbered' /\ TakenInv' /\ HalvesInv' /\ AnswerInv'
      BY <1>1, <1>2, <2>1, WriteFrame DEF Updated, coreVars
    <2> QED BY <2>3, <2>4, <2>5 DEF CallInv
  <1> QED BY <1>3, <1>4

(* The half-close, once.                                                   *)
LEMMA FinishInv == ASSUME CallInv, Finish PROVE CallInv'
  <1>1. /\ TypeOK /\ BatchInv /\ Numbered /\ TakenInv /\ HalvesInv /\ AnswerInv
        /\ ~closed /\ closed' = TRUE
        /\ batch' = IF destroyed THEN batch ELSE Started("close")
        /\ UNCHANGED <<readValue, destroyed, readVars, nodeVars, written,
                       flushed, writing, writeFailed, ending,
                       coreVars>>
    BY DEF CallInv, Finish
  <1>2. /\ batch["close"] = "idle"
        /\ \A b \in {"read", "write", "close", "status"} : b \in Batches
    BY <1>1 DEF BatchInv, Batches
  <1>3. UNCHANGED batch \/ Updated("close", "core")
    BY <1>1, <1>2, StartBatch
  <1>4. TypeOK'
    <2>1. closed' \in BOOLEAN /\ batch' \in [Batches -> {"idle", "core", "ok",
                                                        "err", "double"}]
      BY <1>1, <1>3 DEF TypeOK, Updated
    <2> QED BY <1>1, <2>1, RigidCall DEF TypeOK, readVars, nodeVars, coreVars, call
  <1>5. BatchInv'
    BY <1>1, <1>2, <1>3, RigidCall DEF BatchInv, Updated, readVars, coreVars, call
  <1>6. batch'["read"] = batch["read"] /\ batch'["status"] = batch["status"]
    BY <1>2, <1>3 DEF Updated
  <1>7. Numbered' /\ TakenInv' /\ HalvesInv' /\ AnswerInv'
    BY <1>1, <1>6, WriteFrame DEF coreVars
  <1> QED BY <1>4, <1>5, <1>7 DEF CallInv

-----------------------------------------------------------------------------
(* The core and the server.                                                *)

(* A cancellation, and the status the server sends.                        *)
LEMMA EnvironmentInv == ASSUME CallInv, Abort \/ ServerEnds PROVE CallInv'
  <1>1. /\ TypeOK /\ BatchInv /\ Numbered /\ TakenInv /\ HalvesInv /\ AnswerInv
        /\ UNCHANGED <<batch, readValue, destroyed, readVars, nodeVars,
                       writeVars, call, arrived, taken>>
    BY DEF CallInv, Abort, ServerEnds
  <1>2. aborted' \in BOOLEAN /\ serverStatus' \in ServerCodes \cup {NULL}
    BY <1>1 DEF Abort, ServerEnds, TypeOK
  <1>3. TypeOK'
    BY <1>1, <1>2, RigidCall DEF TypeOK, readVars, nodeVars, writeVars, call
  <1>4. BatchInv'
    BY <1>1, RigidCall DEF BatchInv, readVars, writeVars, call
  <1>5. Numbered' /\ TakenInv' /\ HalvesInv' /\ AnswerInv'
    BY <1>1, WriteFrame
  <1> QED BY <1>3, <1>4, <1>5 DEF CallInv

(* A message arrives: the status has not.                                  *)
LEMMA ServerSendsInv == ASSUME CallInv, ServerSends PROVE CallInv'
  <1>1. /\ TypeOK /\ BatchInv /\ Numbered /\ TakenInv /\ HalvesInv /\ AnswerInv
        /\ batch["status"] = "core" /\ arrived < N /\ arrived' = arrived + 1
        /\ UNCHANGED <<batch, readValue, destroyed, readVars, nodeVars,
                       writeVars, call, taken, serverStatus, aborted>>
    BY DEF CallInv, ServerSends
  <1>2. arrived' \in 0..N /\ taken' \in 0..arrived'
    <2>1. /\ N \in Nat /\ arrived \in Nat /\ taken \in Nat /\ taken <= arrived
          /\ taken' = taken
      BY <1>1, CallBounds DEF TypeOK
    <2> QED BY ONLY <1>1, <2>1
  <1>3. TypeOK'
    BY <1>1, <1>2, RigidCall DEF TypeOK, readVars, nodeVars, writeVars, call
  <1>4. BatchInv'
    BY <1>1, RigidCall DEF BatchInv, readVars, writeVars, call
  <1>5. Numbered' /\ TakenInv'
    BY <1>1, ReadFrame DEF readVars, nodeVars, call
  <1>6. HalvesInv'
    <2>1. Reads => received_status # "OK"
      BY <1>1, ClientStreamAssumption DEF HalvesInv
    <2> QED BY <1>1, <2>1, RigidCall DEF HalvesInv, readVars, call
  <1>7. AnswerInv'
    BY <1>1, RigidCall DEF AnswerInv, readVars, call
  <1> QED BY <1>3, <1>4, <1>5, <1>6, <1>7 DEF CallInv

(* A read completes with the next message, with null or with an error.     *)
LEMMA ReadCompletesInv == ASSUME CallInv, ReadCompletes PROVE CallInv'
  <1>1. /\ TypeOK /\ BatchInv /\ Numbered /\ TakenInv /\ HalvesInv /\ AnswerInv
        /\ batch["read"] = "core"
        /\ UNCHANGED <<destroyed, readVars, nodeVars, writeVars, call, arrived,
                       serverStatus, aborted>>
    BY DEF CallInv, ReadCompletes
  <1>2. /\ Reads /\ ~finished /\ read_status = NULL /\ read_status # "INTERNAL"
        /\ taken = Len(delivered) + Len(rbuf)
    BY <1>1, ClientStreamAssumption DEF BatchInv, HalvesInv, TakenInv
  <1>3. /\ N \in Nat /\ arrived \in Nat /\ taken \in Nat /\ taken <= arrived
        /\ arrived <= N /\ 0 \in 0..N
    BY <1>1, CallBounds DEF TypeOK
  <1>4. PICK r \in {"ok", "err"} :
          /\ batch' = [batch EXCEPT !["read"] = r]
          /\ \/ /\ r = "ok" /\ taken < arrived
                /\ taken' = taken + 1 /\ readValue' = taken + 1
             \/ r = "ok" /\ readValue' = 0 /\ taken' = taken
             \/ r = "err" /\ UNCHANGED <<taken, readValue>>
    BY DEF ReadCompletes
  <1>5. Updated("read", r) /\ \A b \in {"read", "status"} : b \in Batches
    BY <1>1, <1>4, UpdateBatch DEF Batches
  <1>6. taken' \in 0..arrived' /\ readValue' \in 0..N
    BY <1>1, <1>3, <1>4 DEF TypeOK
  <1>7. TypeOK'
    BY <1>1, <1>5, <1>6, RigidCall
    DEF TypeOK, Updated, readVars, nodeVars, writeVars, call
  <1>8. BatchInv'
    BY <1>1, <1>5, BatchFrame DEF readVars, writeVars, call
  <1>9. Numbered' /\ TakenInv'
    <2>1. UNCHANGED <<rbuf, delivered, read_status, scenario>>
      BY <1>1 DEF readVars, nodeVars, call
    <2>2. Numbered'
      BY <1>1, <2>1 DEF Numbered
    <2>3. batch'["read"] = "ok" /\ readValue' # 0 =>
             readValue' = taken' /\ taken' = Len(delivered') + Len(rbuf') + 1
      BY <1>2, <1>4, <1>5, <2>1 DEF Updated
    <2>4. ~(batch'["read"] = "ok" /\ readValue' # 0) => taken' = taken
      BY <1>3, <1>4, <1>5 DEF Updated
    <2> QED BY <1>2, <2>1, <2>2, <2>3, <2>4, RigidCall DEF TakenInv
  <1>10. HalvesInv'
    <2>1. taken' # taken => received_status # "OK"
      BY <1>1, <1>2, <1>3, <1>4 DEF HalvesInv
    <2> QED BY <1>1, <1>5, <2>1, RigidCall DEF HalvesInv, Updated, readVars, call
  <1>11. AnswerInv'
    BY <1>1, <1>2, RigidCall DEF AnswerInv, call
  <1> QED BY <1>7, <1>8, <1>9, <1>10, <1>11 DEF CallInv

(* Another batch completes.                                                *)
LEMMA CoreCompletesInv ==
    ASSUME CallInv, NEW b \in Batches, CoreCompletes(b) PROVE CallInv'
  <1>1. /\ TypeOK /\ BatchInv /\ Numbered /\ TakenInv /\ HalvesInv /\ AnswerInv
        /\ batch[b] = "core"
        /\ UNCHANGED <<readValue, destroyed, readVars, nodeVars, writeVars,
                       call, arrived, serverStatus, aborted>>
    BY DEF CallInv, CoreCompletes
  <1>2. /\ b \in {"start", "write", "close", "status"}
        /\ "read" \in Batches /\ "status" \in Batches
    BY DEF CoreCompletes, Batches
  <1>3. PICK r \in {"ok", "err"} :
          /\ batch' = [batch EXCEPT ![b] = r]
          /\ \/ taken' = taken /\ (b = "status" => Reads)
             \/ b = "status" /\ ~Reads /\ taken' = arrived
    BY DEF CoreCompletes
  <1>4. Updated(b, r) /\ batch'["read"] = batch["read"]
    BY <1>1, <1>2, <1>3, UpdateBatch DEF Updated
  <1>5. taken' \in 0..arrived'
    <2>1. arrived \in Nat /\ taken \in 0..arrived /\ arrived' = arrived
      BY <1>1, CallBounds DEF TypeOK
    <2> QED BY <1>3, <2>1
  <1>6. TypeOK'
    BY <1>1, <1>4, <1>5, RigidCall
    DEF TypeOK, Updated, readVars, nodeVars, writeVars, call
  <1>7. BatchInv'
    BY <1>1, <1>4, BatchFrame DEF readVars, writeVars, call
  <1>8. Numbered' /\ TakenInv'
    <2>1. CASE taken' = taken
      BY <1>1, <1>4, <2>1, ReadFrame DEF readVars, nodeVars, call
    <2>2. CASE ~Reads
      <3>1. batch["read"] = "idle"
        BY <1>1, <2>2 DEF BatchInv
      <3> QED BY <1>1, <1>4, <2>2, <3>1, RigidCall
          DEF Numbered, TakenInv, readVars, nodeVars, call
    <2> QED BY <1>3, <2>1, <2>2
  <1>9. HalvesInv' /\ AnswerInv'
    <2>1. CASE b # "status"
      BY <1>1, <1>2, <1>3, <1>4, <2>1, StatusFrame DEF Updated, readVars, call
    <2>2. CASE b = "status" /\ Reads
      BY <1>1, <1>3, <1>4, <2>2, RigidCall
      DEF HalvesInv, AnswerInv, Updated, readVars, call
    <2>3. CASE b = "status" /\ ~Reads
      BY <1>1, <1>3, <1>4, <2>3, RigidCall
      DEF HalvesInv, AnswerInv, Updated, readVars, call
    <2> QED BY <2>1, <2>2, <2>3
  <1> QED BY <1>6, <1>7, <1>8, <1>9 DEF CallInv

-----------------------------------------------------------------------------
(* The theorems.                                                           *)

(* Every step keeps the invariant.                                         *)
LEMMA NextInv == CallInv /\ [Next]_vars => CallInv'
  <1> SUFFICES ASSUME CallInv, [Next]_vars PROVE CallInv'
    OBVIOUS
  <1>1. CASE UNCHANGED vars
    <2>1. /\ TypeOK /\ BatchInv /\ Numbered /\ TakenInv /\ HalvesInv
          /\ AnswerInv
          /\ UNCHANGED <<batch, readValue, destroyed, readVars, nodeVars,
                         writeVars, call, arrived, taken, serverStatus, aborted>>
      BY <1>1 DEF CallInv, vars, coreVars
    <2>2. TypeOK'
      BY <2>1, RigidCall DEF TypeOK, readVars, nodeVars, writeVars, call
    <2>3. BatchInv'
      BY <2>1, RigidCall DEF BatchInv, readVars, writeVars, call
    <2>4. Numbered' /\ TakenInv' /\ HalvesInv' /\ AnswerInv'
      BY <2>1, WriteFrame
    <2> QED BY <2>2, <2>3, <2>4 DEF CallInv
  <1> QED BY <1>1, ReadMessageInv, ReadEndsInv, StatusCallbackInv,
             ResponseCallbackInv, OtherCallbacksInv, WriteDoneInv, FlowInv,
             ReadMoreInv, PauseInv, ApplicationWritesInv, WriteBatchInv,
             FinishInv, EnvironmentInv, ServerSendsInv, ReadCompletesInv,
             CoreCompletesInv DEF Next, Callback

(* The inductive invariant holds in every reachable state.                 *)
THEOREM CallInvariant == Spec => []CallInv
  BY InitInv, NextInv, PTL DEF Spec

(* The variables keep their types: no write is flushed that was not made,  *)
(* and no message taken that has not arrived.                              *)
THEOREM TypeCorrect == Spec => []TypeOK
  <1>1. CallInv => TypeOK
    BY DEF CallInv
  <1> QED BY <1>1, CallInvariant, PTL

(* The flag `reading' keeps reads from overlapping (client.js 271-317).    *)
THEOREM ReadsDoNotOverlap == Spec => []OneReadAtATime
  <1>1. CallInv => OneReadAtATime
    BY DEF CallInv, BatchInv, OneReadAtATime, Batches
  <1> QED BY <1>1, CallInvariant, PTL

(* Nor does any other batch: a write is started when the one before has    *)
(* called back, and the half-close once (client.js 105-107, 131-170).      *)
THEOREM NoBatchOverlaps == Spec => [](\A b \in Batches : batch[b] # "double")
  <1>1. CallInv => \A b \in Batches : batch[b] # "double"
    BY DEF CallInv, BatchInv
  <1> QED BY <1>1, CallInvariant, PTL

(* Numbered messages are the first ones, in order.                         *)
LEMMA NumberedIsUpto ==
    ASSUME TypeOK, Numbered
    PROVE  /\ delivered \o rbuf = Upto(Len(delivered \o rbuf))
           /\ Len(delivered \o rbuf) = Len(delivered) + Len(rbuf)
  <1> DEFINE got == delivered \o rbuf
  <1>1. /\ delivered \in Seq(1..N) /\ rbuf \in Seq(1..N)
        /\ Len(delivered) \in Nat /\ Len(rbuf) \in Nat
    BY LenProperties DEF TypeOK
  <1>2. /\ got \in Seq(1..N) /\ Len(got) = Len(delivered) + Len(rbuf)
        /\ \A i \in 1..Len(got) : got[i] = IF i <= Len(delivered)
                                           THEN delivered[i]
                                           ELSE rbuf[i - Len(delivered)]
    BY <1>1, ConcatProperties
  <1> HIDE DEF got
  <1>3. ASSUME NEW i \in 1..Len(got) PROVE got[i] = i
    <2>1. CASE i <= Len(delivered)
      BY <1>1, <1>2, <2>1 DEF Numbered
    <2>2. CASE ~(i <= Len(delivered))
      <3>1. /\ i - Len(delivered) \in 1..Len(rbuf)
            /\ Len(delivered) + (i - Len(delivered)) = i
        BY <1>1, <1>2, <2>2
      <3> QED BY <1>2, <2>2, <3>1 DEF Numbered
    <2> QED BY <2>1, <2>2
  <1>4. got = [i \in 1..Len(got) |-> got[i]]
    BY <1>2
  <1>5. got = Upto(Len(got))
    BY <1>3, <1>4 DEF Upto
  <1> QED BY <1>2, <1>5 DEF got

(* Messages reach the application in order, none lost or repeated          *)
(* (client.js 271-317).                                                    *)
THEOREM MessagesOrdered == Spec => []MessagesInOrder
  <1>1. CallInv => MessagesInOrder
    <2> SUFFICES ASSUME CallInv PROVE MessagesInOrder
      OBVIOUS
    <2>1. TypeOK /\ Numbered /\ TakenInv /\ HalvesInv
      BY DEF CallInv
    <2>2. Reads /\ ~finished => read_status # "INTERNAL"
      BY <2>1, ClientStreamAssumption DEF HalvesInv
    <2> QED BY <2>1, <2>2, NumberedIsUpto DEF TakenInv, MessagesInOrder
  <1> QED BY <1>1, CallInvariant, PTL

(* The status event, or the callback, comes at most once, OK only with     *)
(* everything the server sent, and never after a message that did not      *)
(* parse (client.js 211-262, 527-561, 612-644).                            *)
THEOREM StatusIsCorrect == Spec => []StatusCorrect
  <1>1. CallInv => StatusCorrect
    <2> SUFFICES ASSUME CallInv PROVE StatusCorrect
      OBVIOUS
    <2>1. TypeOK /\ BatchInv /\ Numbered /\ TakenInv /\ HalvesInv /\ AnswerInv
      BY DEF CallInv
    <2>2. CASE ~Reads
      BY <2>1, <2>2 DEF AnswerInv, StatusCorrect
    <2>3. CASE Reads
      <3>1. Len(callbacks) <= 1 /\ Len(statuses) <= 1
        <4>1. /\ callbacks = <<>> \/ callbacks = BatchError
              /\ statuses = <<>> \/ \E x : statuses = <<x>>
          BY <2>1, <2>3 DEF HalvesInv
        <4>2. Len(callbacks) <= 1
          <5>1. CASE callbacks = <<>>
            BY <5>1
          <5>2. CASE callbacks = BatchError
            BY <5>2, OneError
          <5> QED BY <4>1, <5>1, <5>2
        <4>3. ASSUME statuses = <<>> PROVE Len(statuses) <= 1
          BY <4>3
        <4>4. ASSUME NEW x, statuses = <<x>> PROVE Len(statuses) <= 1
          BY <4>4
        <4> QED BY <4>1, <4>2, <4>3, <4>4
      <3>2. parseFailed /\ statuses # <<>> => statuses = <<"INTERNAL">>
        BY <2>1, <2>3 DEF HalvesInv
      <3>3. ASSUME statuses = <<"OK">> PROVE delivered \o rbuf = Upto(arrived)
        <4>1. read_status = "OK" /\ received_status = "OK"
          BY <2>1, <2>3, <3>3 DEF HalvesInv, TypeOK
        <4>2. finished /\ batch["read"] = "idle" /\ taken = arrived
          BY <2>1, <2>3, <4>1, ClientStreamAssumption DEF HalvesInv, BatchInv
        <4>3. taken = Len(delivered) + Len(rbuf)
          BY <2>1, <2>3, <4>1, <4>2 DEF TakenInv
        <4> QED BY <2>1, <4>2, <4>3, NumberedIsUpto
      <3> QED BY <2>3, <3>1, <3>2, <3>3 DEF StatusCorrect
    <2> QED BY <2>2, <2>3
  <1> QED BY <1>1, CallInvariant, PTL
=============================================================================
