------------------------- MODULE NativeClientStream -------------------------
(***************************************************************************)
(* A call of the native client (grpc-native-core/src/client.js), on top of *)
(* a Call of the extension: the four make...Request methods and the        *)
(* streams they return, whose methods are shared: _write by the writable   *)
(* and the duplex stream, _read by the readable and the duplex stream.     *)
(*                                                                         *)
(* The status of a call that reads comes from two places, in either order: *)
(* the RECV_STATUS_ON_CLIENT batch, and the reads, which end with null,    *)
(* with an error or with a message that does not parse.                    *)
(*                                                                         *)
(* External, modelled from its use: the grpc core, which completes the     *)
(* batches (the rules are at CoreCompletes), and Node's Readable/Writable. *)
(* Module NativeCall models the Call object; what matters of it here is    *)
(* that a destroyed call answers startBatch at once, with an error.        *)
(***************************************************************************)
EXTENDS Naturals, Sequences, FiniteSets

CONSTANTS
    Scenarios,     \* [kind, n, m]: the kind of call, the messages the server
                   \* sends at most, and the application writes at most
    HighWaterMark, \* of the readable side
    ServerCodes,   \* the statuses the server may send
    MayFail,       \* messages may fail to parse or to serialize
    NULL

Kinds == {"unary", "client_stream", "server_stream", "bidi"}

ASSUME ClientStreamAssumption ==
    /\ Scenarios \subseteq [kind : Kinds, n : Nat, m : Nat]
    /\ HighWaterMark \in Nat \ {0}
    /\ MayFail \in BOOLEAN
    /\ NULL \notin ServerCodes \cup {"OK", "INTERNAL", "CANCELLED"}

Batches == {"start", "read", "write", "close", "status"}

VARIABLES
    batch,          \* each kind of batch: idle, with the core, or completed
    readValue,      \* event.read of a completed read: 0 is null
    destroyed,      \* Call::wrapped_call == NULL
    \* ClientReadableStream
    finished, reading, read_status, received_status,
    statuses,       \* the 'status' events emitted
    callbacks,      \* what a unary callback got: a code and a value, 0 is
                    \* null; and the 'error' event of a failed status batch
    parseFailed,    \* a message did not deserialize (history)
    \* Node's Readable
    rbuf, nodeReading, rEnded, flowing, delivered,
    \* ClientWritableStream and Node's Writable
    written,        \* write() calls
    flushed,        \* write callbacks called
    writing,        \* _write was called: its callback comes from a batch,
                    \* from setImmediate, or it is not under way
    writeFailed,
    ending, closed, \* end() was called; 'finish' was emitted
    \* the core and the server
    arrived,        \* messages that reached the client's core
    taken,          \* messages handed to read batches
    serverStatus,   \* the status the server sent
    scenario,       \* never changes
    aborted         \* cancelled here, by a deadline or by a lost connection

readVars == <<finished, reading, read_status, received_status, statuses,
              parseFailed>>
nodeVars == <<rbuf, nodeReading, rEnded, flowing, delivered>>
writeVars == <<written, flushed, writing, writeFailed, ending, closed>>
call == <<scenario, callbacks>>
coreVars == <<call, arrived, taken, serverStatus, aborted>>
vars == <<batch, readValue, destroyed, readVars, nodeVars, writeVars, coreVars>>

N == scenario.n
M == scenario.m
Reads == scenario.kind \in {"server_stream", "bidi"}
Writes == scenario.kind \in {"client_stream", "bidi"}

Upto(n) == [i \in 1..n |-> i]

TypeOK ==
    /\ scenario \in Scenarios
    /\ batch \in [Batches -> {"idle", "core", "ok", "err", "double"}]
    /\ readValue \in 0..N /\ destroyed \in BOOLEAN
    /\ finished \in BOOLEAN /\ reading \in BOOLEAN
    /\ read_status \in {NULL, "OK", "INTERNAL"}
    /\ received_status \in ServerCodes \cup {NULL, "CANCELLED"}
    /\ statuses \in Seq(ServerCodes \cup {"CANCELLED", "INTERNAL"})
    /\ callbacks \in Seq([code : ServerCodes \cup {"CANCELLED", "INTERNAL",
                                                   "BATCH_ERROR"},
                          value : 0..N])
    /\ parseFailed \in BOOLEAN
    /\ rbuf \in Seq(1..N) /\ delivered \in Seq(1..N)
    /\ nodeReading \in BOOLEAN /\ rEnded \in BOOLEAN /\ flowing \in BOOLEAN
    /\ written \in 0..M /\ flushed \in 0..written
    /\ writing \in {"no", "batch", "immediate"}
    /\ writeFailed \in BOOLEAN
    /\ ending \in BOOLEAN /\ closed \in BOOLEAN
    /\ arrived \in 0..N /\ taken \in 0..arrived
    /\ serverStatus \in ServerCodes \cup {NULL} /\ aborted \in BOOLEAN

(* The batches each kind of request starts: one for a unary call, else     *)
(* two, the second to receive the status and, if the server does not       *)
(* stream, its message.  Without a request stream the first sends the      *)
(* message and the half-close.                                             *)
makeUnaryRequest == {"status"}
makeClientStreamRequest == {"start", "status"}
makeServerStreamRequest == {"start", "status"}
makeBidiStreamRequest == {"start", "status"}

requester_funcs ==
    [unary |-> makeUnaryRequest, client_stream |-> makeClientStreamRequest,
     server_stream |-> makeServerStreamRequest, bidi |-> makeBidiStreamRequest]

ClientReadableStream ==
    /\ finished = FALSE /\ reading = FALSE
    /\ read_status = NULL /\ received_status = NULL
    /\ statuses = <<>> /\ parseFailed = FALSE
    /\ rbuf = <<>> /\ nodeReading = FALSE /\ rEnded = FALSE
    /\ flowing = FALSE /\ delivered = <<>>

ClientWritableStream ==
    /\ written = 0 /\ flushed = 0 /\ writing = "no"
    /\ writeFailed = FALSE
    /\ ending = ~Writes /\ closed = ~Writes

Init ==
    /\ scenario \in Scenarios /\ callbacks = <<>>
    /\ batch = [b \in Batches |->
                   IF b \in requester_funcs[scenario.kind] THEN "core" ELSE "idle"]
    /\ readValue = 0 /\ destroyed = FALSE
    /\ ClientReadableStream /\ ClientWritableStream
    /\ arrived = 0 /\ taken = 0 /\ serverStatus = NULL /\ aborted = FALSE

-----------------------------------------------------------------------------
(* The Call object.                                                        *)

Started(b) == [batch EXCEPT ![b] = IF @ = "idle" THEN "core" ELSE "double"]

(* A call is destroyed with the callback that leaves its status batch done *)
(* and nothing outstanding.                                                *)
DestroyedAfter(bs) == destroyed \/ \A b \in Batches : b = "status" \/ bs[b] = "idle"

-----------------------------------------------------------------------------
(* Reading: the status of a call is emitted when both halves are known.    *)

(* Bug: one half is enough.                                                *)
_emitEitherHalf(rs, cs) ==
    LET status == IF rs # "OK" THEN rs ELSE cs
    IN  /\ read_status' = rs /\ received_status' = cs
        /\ IF rs = NULL /\ cs = NULL
           THEN UNCHANGED <<statuses, rEnded>>
           ELSE /\ statuses' = Append(statuses, status)
                /\ rEnded' = (rEnded \/ status = "OK")

_emitStatusIfDone(rs, cs) ==
    LET status == IF rs # "OK" THEN rs ELSE cs
    IN  /\ read_status' = rs /\ received_status' = cs
        /\ IF rs = NULL \/ cs = NULL
           THEN UNCHANGED <<statuses, rEnded>>
           ELSE /\ statuses' = Append(statuses, status)
                /\ rEnded' = (rEnded \/ status = "OK")   \* push(null)

_readsDone(code) ==
    /\ finished' = TRUE
    /\ aborted' = (aborted \/ code # "OK")               \* cancelWithStatus
    /\ _emitStatusIfDone(code, received_status)

(* Bug: a read is started although one may be under way.                   *)
_readAlways ==
    /\ reading' = TRUE /\ nodeReading' = TRUE
    /\ IF finished
       THEN rEnded' = TRUE /\ UNCHANGED <<batch, finished, aborted,
                                read_status, received_status, statuses>>
       ELSE /\ batch' = Started("read")
            /\ UNCHANGED <<finished, aborted, read_status, received_status,
                           statuses, rEnded>>

(* _read() as Node calls it: nodeReading stays set until the next push().  *)
_read ==
    \/ /\ finished                                       \* push(null)
       /\ rEnded' = TRUE /\ nodeReading' = FALSE
       /\ UNCHANGED <<batch, finished, reading, aborted, read_status,
                      received_status, statuses>>
    \/ /\ ~finished /\ reading
       /\ nodeReading' = TRUE
       /\ UNCHANGED <<batch, finished, reading, aborted, read_status,
                      received_status, statuses, rEnded>>
    \/ /\ ~finished /\ ~reading /\ ~destroyed
       /\ reading' = TRUE /\ nodeReading' = TRUE
       /\ batch' = Started("read")
       /\ UNCHANGED <<finished, aborted, read_status, received_status,
                      statuses, rEnded>>
    \/ /\ ~finished /\ ~reading /\ destroyed             \* readCallback(err)
       /\ reading' = TRUE
       /\ _readsDone("OK")
       /\ nodeReading' = ~rEnded'
       /\ UNCHANGED batch

WantsRead == ~nodeReading /\ ~rEnded /\ Len(rbuf) <= HighWaterMark

(* Stream#read() of the flowing mode: _read() if due, then one message.    *)
Flow ==
    /\ Reads /\ flowing
    /\ rbuf # <<>> \/ WantsRead
    /\ IF WantsRead THEN _read
       ELSE UNCHANGED <<batch, finished, reading, aborted, read_status,
                        received_status, statuses, nodeReading, rEnded>>
    /\ IF rbuf # <<>>
       THEN rbuf' = Tail(rbuf) /\ delivered' = Append(delivered, Head(rbuf))
       ELSE UNCHANGED <<rbuf, delivered>>
    /\ UNCHANGED <<readValue, destroyed, parseFailed, flowing, writeVars,
                   call, arrived, taken, serverStatus>>

(* Node's maybeReadMore after a push to a paused stream.                   *)
ReadMore ==
    /\ ~flowing /\ rbuf # <<>>
    /\ WantsRead /\ Len(rbuf) < HighWaterMark
    /\ _read
    /\ UNCHANGED <<readValue, destroyed, parseFailed, rbuf, flowing,
                   delivered, writeVars, call, arrived, taken, serverStatus>>

PauseOrResume ==
    /\ Reads /\ flowing' = ~flowing
    /\ UNCHANGED <<batch, readValue, destroyed, readVars, rbuf, nodeReading,
                   rEnded, delivered, writeVars, coreVars>>

(* push(deserialized): at once to a flowing application, which then makes  *)
(* Node call _read() (a no-op: reading is set), or into the buffer.        *)
push(m) ==
    IF flowing /\ rbuf = <<>>
    THEN /\ delivered' = Append(delivered, m)
         /\ nodeReading' = TRUE
         /\ UNCHANGED rbuf
    ELSE /\ rbuf' = Append(rbuf, m)
         /\ nodeReading' = FALSE
         /\ UNCHANGED delivered
pushSaysMore == (flowing /\ rbuf = <<>>) \/ Len(rbuf) + 1 < HighWaterMark


(* Bug: the message that finds the buffer full is dropped.                 *)
ReadMessageDropsWhenFull ==
    /\ batch["read"] = "ok" /\ readValue # 0
    /\ IF pushSaysMore THEN push(readValue)
       ELSE nodeReading' = FALSE /\ UNCHANGED <<rbuf, delivered>>
    /\ reading' = pushSaysMore
    /\ batch' = [batch EXCEPT !["read"] = IF pushSaysMore THEN "core" ELSE "idle"]
    /\ destroyed' = (batch["status"] = "idle" /\ DestroyedAfter(batch'))
    /\ UNCHANGED <<readValue, finished, read_status, received_status, statuses,
                   parseFailed, rEnded, flowing, writeVars, coreVars>>

(* readCallback with a message: read on, or wait for the next _read().     *)
ReadMessage ==
    /\ batch["read"] = "ok" /\ readValue # 0
    /\ push(readValue)
    /\ reading' = pushSaysMore
    /\ batch' = [batch EXCEPT !["read"] = IF pushSaysMore THEN "core" ELSE "idle"]
    /\ destroyed' = (batch["status"] = "idle" /\ DestroyedAfter(batch'))
    /\ UNCHANGED <<readValue, finished, read_status, received_status, statuses,
                   parseFailed, rEnded, flowing, writeVars, coreVars>>

(* readCallback with an error, with null, or with a message that does not  *)
(* deserialize.                                                            *)
ReadEnds ==
    /\ \/ batch["read"] = "err" /\ _readsDone("OK") /\ UNCHANGED parseFailed
       \/ /\ batch["read"] = "ok" /\ readValue = 0
          /\ _readsDone("OK") /\ UNCHANGED parseFailed
       \/ /\ batch["read"] = "ok" /\ readValue # 0 /\ MayFail
          /\ _readsDone("INTERNAL") /\ parseFailed' = TRUE
    /\ batch' = [batch EXCEPT !["read"] = "idle"]
    /\ destroyed' = (batch["status"] = "idle" /\ DestroyedAfter(batch'))
    /\ UNCHANGED <<readValue, reading, rbuf, nodeReading, flowing, delivered,
                   writeVars, call, arrived, taken, serverStatus>>

(* The callback of the status batch: _receiveStatus, or, if the batch      *)
(* failed, an 'error' event and no status.                                 *)
StatusCallback ==
    /\ Reads /\ batch["status"] \in {"ok", "err"}
    /\ \/ /\ batch["status"] = "ok" /\ UNCHANGED callbacks
          /\ \/ /\ serverStatus # NULL /\ taken = arrived
                /\ _emitStatusIfDone(read_status, serverStatus)
             \/ aborted /\ _emitStatusIfDone(read_status, "CANCELLED")
       \/ /\ batch["status"] = "err"
          /\ callbacks' = Append(callbacks, [code |-> "BATCH_ERROR", value |-> 0])
          /\ UNCHANGED <<read_status, received_status, statuses, rEnded>>
    /\ batch' = [batch EXCEPT !["status"] = "idle"]
    /\ destroyed' = DestroyedAfter(batch')
    /\ UNCHANGED <<readValue, finished, reading, parseFailed, rbuf, nodeReading,
                   flowing, delivered, writeVars, scenario, arrived, taken,
                   serverStatus, aborted>>

answer(code) ==
    /\ callbacks' = Append(callbacks, [code |-> code,
                                       value |-> IF code = "OK" THEN taken ELSE 0])
    /\ statuses' = Append(statuses, code)

(* The callback of the batch that receives message and status: a failed    *)
(* batch with an OK goes to the application without a 'status' event; the  *)
(* deserializer also gets the null of an answer without a message.         *)
ResponseCallback ==
    /\ ~Reads /\ batch["status"] \in {"ok", "err"}
    /\ \/ /\ serverStatus = "OK" /\ batch["status"] = "err"
          /\ callbacks' = Append(callbacks, [code |-> "BATCH_ERROR", value |-> 0])
          /\ UNCHANGED <<statuses, parseFailed>>
       \/ /\ serverStatus = "OK" /\ batch["status"] = "ok"
          /\ \/ answer("OK") /\ UNCHANGED parseFailed
             \/ MayFail /\ answer("INTERNAL") /\ parseFailed' = TRUE
       \/ /\ serverStatus \notin {NULL, "OK"}
          /\ answer(serverStatus) /\ UNCHANGED parseFailed
       \/ aborted /\ answer("CANCELLED") /\ UNCHANGED parseFailed
    /\ batch' = [batch EXCEPT !["status"] = "idle"]
    /\ destroyed' = DestroyedAfter(batch')
    /\ UNCHANGED <<readValue, finished, reading, read_status, received_status,
                   nodeVars, writeVars, scenario, arrived, taken,
                   serverStatus, aborted>>

(* The callback of the first batch: 'metadata' is emitted unless it failed.*)
StartCallback ==
    /\ batch["start"] \in {"ok", "err"}
    /\ batch' = [batch EXCEPT !["start"] = "idle"]
    /\ destroyed' = (batch["status"] = "idle" /\ DestroyedAfter(batch'))
    /\ UNCHANGED <<readValue, readVars, nodeVars, writeVars, coreVars>>

-----------------------------------------------------------------------------
(* Writing.                                                                *)

Write ==
    /\ written < M /\ ~ending
    /\ written' = written + 1
    /\ UNCHANGED <<batch, readValue, destroyed, readVars, nodeVars, flushed,
                   writing, writeFailed, ending, closed, coreVars>>

EndWrites ==
    /\ ~ending
    /\ ending' = TRUE
    /\ UNCHANGED <<batch, readValue, destroyed, readVars, nodeVars, written,
                   flushed, writing, writeFailed, closed, coreVars>>

(* Bug: after a failed write the callback of the next is not called.       *)
_writeDropsAfterFailure ==
    /\ flushed < written /\ writing = "no"
    /\ ~writeFailed /\ ~destroyed
    /\ writing' = "batch"
    /\ batch' = Started("write")
    /\ UNCHANGED <<flushed, writeFailed, aborted, readValue, destroyed,
                   readVars, nodeVars, written, ending, closed, call, arrived,
                   taken, serverStatus>>

(* Node goes on with the writes it holds after one that failed.            *)
_write ==
    /\ flushed < written /\ writing = "no"
    /\ \/ /\ writeFailed
          /\ writing' = "immediate"
          /\ UNCHANGED <<batch, flushed, writeFailed, aborted>>
       \/ /\ ~writeFailed /\ MayFail                 \* serialize throws
          /\ aborted' = TRUE /\ flushed' = flushed + 1
          /\ UNCHANGED <<batch, writing, writeFailed>>
       \/ /\ ~writeFailed /\ ~destroyed
          /\ writing' = "batch"
          /\ batch' = Started("write")
          /\ UNCHANGED <<flushed, writeFailed, aborted>>
       \/ /\ ~writeFailed /\ destroyed               \* the error comes at once
          /\ writeFailed' = TRUE /\ flushed' = flushed + 1
          /\ UNCHANGED <<batch, writing, aborted>>
    /\ UNCHANGED <<readValue, destroyed, readVars, nodeVars, written, ending,
                   closed, call, arrived, taken, serverStatus>>

WriteImmediate ==
    /\ writing = "immediate"
    /\ writing' = "no" /\ flushed' = flushed + 1
    /\ UNCHANGED <<batch, readValue, destroyed, readVars, nodeVars, written,
                   writeFailed, ending, closed, coreVars>>

WriteCallback ==
    /\ batch["write"] \in {"ok", "err"}
    /\ writing' = "no" /\ flushed' = flushed + 1
    /\ writeFailed' = (writeFailed \/ batch["write"] = "err")
    /\ batch' = [batch EXCEPT !["write"] = "idle"]
    /\ destroyed' = (batch["status"] = "idle" /\ DestroyedAfter(batch'))
    /\ UNCHANGED <<readValue, readVars, nodeVars, written, ending, closed,
                   coreVars>>

(* 'finish': SEND_CLOSE_FROM_CLIENT, with a callback that does nothing.    *)
Finish ==
    /\ ending /\ ~closed /\ flushed = written
    /\ closed' = TRUE
    /\ batch' = IF destroyed THEN batch ELSE Started("close")
    /\ UNCHANGED <<readValue, destroyed, readVars, nodeVars, written, flushed,
                   writing, writeFailed, ending, coreVars>>

CloseCallback ==
    /\ batch["close"] \in {"ok", "err"}
    /\ batch' = [batch EXCEPT !["close"] = "idle"]
    /\ destroyed' = (batch["status"] = "idle" /\ DestroyedAfter(batch'))
    /\ UNCHANGED <<readValue, readVars, nodeVars, writeVars, coreVars>>

(* cancel(), a deadline, or a lost connection.                             *)
Abort ==
    /\ ~aborted
    /\ aborted' = TRUE
    /\ UNCHANGED <<batch, readValue, destroyed, readVars, nodeVars, writeVars,
                   call, arrived, taken, serverStatus>>

-----------------------------------------------------------------------------
(* The core and the server: external.  Nothing arrives after the status.   *)

ServerSends ==
    /\ batch["status"] = "core" /\ serverStatus = NULL /\ arrived < N
    /\ arrived' = arrived + 1
    /\ UNCHANGED <<batch, readValue, destroyed, readVars, nodeVars, writeVars,
                   call, taken, serverStatus, aborted>>

ServerEnds ==
    /\ batch["status"] = "core" /\ serverStatus = NULL
    /\ \E code \in ServerCodes : serverStatus' = code
    /\ UNCHANGED <<batch, readValue, destroyed, readVars, nodeVars, writeVars,
                   call, arrived, taken, aborted>>

Over == aborted \/ serverStatus # NULL

(* A read yields the next message, null at the end, and null or an error   *)
(* once the call was aborted.  The status arrives when every message was   *)
(* read, or the call aborted.  A send, and a batch with one, fails only on *)
(* a call that is over, a first batch without one only if aborted.         *)
ReadCompletes ==
    /\ batch["read"] = "core"
    /\ \/ /\ taken < arrived
          /\ taken' = taken + 1 /\ readValue' = taken + 1
          /\ batch' = [batch EXCEPT !["read"] = "ok"]
       \/ /\ aborted \/ (serverStatus # NULL /\ taken = arrived)
          /\ readValue' = 0
          /\ batch' = [batch EXCEPT !["read"] = "ok"]
          /\ UNCHANGED taken
       \/ /\ aborted
          /\ batch' = [batch EXCEPT !["read"] = "err"]
          /\ UNCHANGED <<taken, readValue>>
    /\ UNCHANGED <<destroyed, readVars, nodeVars, writeVars, call,
                   arrived, serverStatus, aborted>>

CoreCompletes(b) ==
    /\ batch[b] = "core"
    /\ \/ /\ b = "status" /\ Reads
          /\ aborted \/ (serverStatus # NULL /\ taken = arrived)
          /\ batch' \in {[batch EXCEPT ![b] = r] : r \in {"ok", "err"}}
          /\ UNCHANGED taken
       \/ /\ b = "status" /\ ~Reads /\ Over
          /\ taken' = arrived
          /\ batch' \in {[batch EXCEPT ![b] = r] : r \in {"ok", "err"}}
       \/ /\ b \in {"start", "write", "close"}
          /\ \/ batch' = [batch EXCEPT ![b] = "ok"]
             \/ /\ aborted \/ (Over /\ (b # "start" \/ ~Writes))
                /\ batch' = [batch EXCEPT ![b] = "err"]
          /\ UNCHANGED taken
    /\ UNCHANGED <<readValue, destroyed, readVars, nodeVars, writeVars,
                   call, arrived, serverStatus, aborted>>

-----------------------------------------------------------------------------
Callback ==
    \/ ReadMessage \/ ReadEnds \/ StatusCallback \/ ResponseCallback
    \/ StartCallback
    \/ WriteCallback \/ CloseCallback

Next ==
    \/ Callback
    \/ Flow \/ ReadMore \/ PauseOrResume
    \/ Write \/ EndWrites \/ _write \/ WriteImmediate \/ Finish
    \/ Abort \/ ServerSends \/ ServerEnds
    \/ ReadCompletes \/ \E b \in Batches : CoreCompletes(b)

(* The event loop runs what is due, the core completes the batches of a    *)
(* call that is over, and the application does not stay paused for ever.   *)
(* Nobody owes a server's answer, a cancellation, or a write.              *)
Fairness ==
    /\ WF_vars(ReadMessage \/ ReadEnds) /\ WF_vars(StatusCallback)
    /\ WF_vars(ResponseCallback)
    /\ WF_vars(StartCallback) /\ WF_vars(WriteCallback)
    /\ WF_vars(CloseCallback)
    /\ SF_vars(Flow) /\ WF_vars(~flowing /\ PauseOrResume)
    /\ WF_vars(_write) /\ WF_vars(WriteImmediate) /\ WF_vars(Finish)
    /\ WF_vars(Over /\ ReadCompletes)
    /\ \A b \in Batches : WF_vars(Over /\ CoreCompletes(b))

Spec == Init /\ [][Next]_vars

FairSpec == Spec /\ Fairness

-----------------------------------------------------------------------------
(* Safety.                                                                 *)

(* One read at a time: the flag `reading', set and cleared across _read()  *)
(* and readCallback(), never lets a second RECV_MESSAGE start, which the   *)
(* core would refuse (client.js 299-315).                                  *)
OneReadAtATime == batch["read"] # "double" /\ (batch["read"] # "idle" => reading)

(* Messages reach the application in order, none lost or repeated, however *)
(* pauses and reads interleave; only a call that has ended its reads may   *)
(* have taken one it does not deliver.                                     *)
MessagesInOrder ==
    LET got == delivered \o rbuf
    IN  /\ got = Upto(Len(got))
        /\ Reads /\ ~finished /\ batch["read"] # "ok" => Len(got) = taken

(* A status event, or the callback of a call that answers with one         *)
(* message, comes at most once, although two batches lead to the event in  *)
(* either order; it is OK only after every message that the server sent    *)
(* was given to the application; and a message that did not parse is never *)
(* reported as a success: read_status "overrides the status from the       *)
(* server if not OK" (client.js 197-198, 211-262, 527-561, 612-644).       *)
StatusCorrect ==
    /\ Len(statuses) <= 1 /\ Len(callbacks) <= 1
    /\ statuses = <<"OK">> =>
          IF Reads THEN delivered \o rbuf = Upto(arrived)
          ELSE callbacks = <<[code |-> "OK", value |-> arrived]>>
    /\ parseFailed /\ statuses # <<>> => statuses = <<"INTERNAL">>

-----------------------------------------------------------------------------
(* Liveness, for an application that keeps reading.                        *)


(* The writes of a call that is over are flushed, those after a failed one *)
(* too, so that the writer is not left with a full buffer (client.js       *)
(* 136-140, 162-168).                                                      *)
WritesFlushed == Over ~> flushed = written
=============================================================================
