-------------------------- MODULE NativeServerCall --------------------------
(***************************************************************************)
(* One call on the native server, from the moment handleNewCall gives it   *)
(* to streamHandlers until its core call is destroyed: the handlers of the *)
(* four kinds of methods and the streams they hand to the application      *)
(* (grpc-native-core/src/server.js).                                       *)
(*                                                                         *)
(* External, modelled from its use: the application's handler; Node's      *)
(* Readable and Writable; and the core, which takes batches of operations, *)
(* refuses one it has had or still has under way (startBatch then throws,  *)
(* and the application may go on), fails what is sent on a cancelled call, *)
(* and completes RECV_CLOSE always with success.  A call is destroyed when *)
(* its status batch and every other batch has completed (NativeCall); from *)
(* then on startBatch calls its callback at once with an error (call.cc    *)
(* 662-671).                                                               *)
(***************************************************************************)
EXTENDS Naturals, Sequences

CONSTANTS
    Scenarios,   \* [kind, n, w]: a kind of method, requests, responses
    HighWaterMark,
    NULL

Kinds == {"unary", "server_stream", "client_stream", "bidi", "unknown"}

ASSUME ServerCallAssumption ==
    /\ Scenarios \subseteq [kind : Kinds, n : Nat, w : Nat]
    /\ HighWaterMark \in Nat \ {0}
    /\ NULL \notin {"OK", "ERROR", "NOT_A_NUMBER"}

VARIABLES
    scenario,      \* which call this is; it never changes
    \* the core
    pend,          \* batches under way, by what their callback is for
    metaOp,        \* SEND_INITIAL_METADATA was accepted
    msgs,          \* SEND_MESSAGE operations accepted
    statusOp,      \* the status of the accepted SEND_STATUS_FROM_SERVER
    finalDone,     \* it has completed
    gone,          \* the client cancelled, or its connection is lost
    got,           \* requests the core has handed over
    \* the call object
    metadataSent,  \* call.metadataSent
    cancelled,     \* the cancelled property and event
    handler,       \* the application: not called, at work, or finished
    threw,         \* why a startBatch threw an exception
    errored,       \* an 'error' event was answered by handleError
    \* the writable side
    written, wq,   \* messages written; those Node still buffers
    writing,       \* _write was called and its callback was not
    wEnd,          \* end() was called
    wStatus,       \* stream.status.code
    finish,        \* 'finish' was emitted
    terminated,    \* terminateCall ran
    \* the readable side
    reading, finished,     \* the flags of that name
    nodeReading,   \* _read was called and push was not, since
    rbuf, rEnded,  \* Node's buffer; push(null)
    consumer,      \* no listener yet, paused, or flowing
    delivered, endEmitted

rigid == <<scenario>>
batchVars == <<pend, metaOp, msgs, statusOp, threw>>
coreVars == <<finalDone, gone, got>>
writeVars == <<written, wq, writing, finish>>
endVars == <<wEnd, wStatus, terminated>>
nodeVars == <<nodeReading, rbuf, rEnded, delivered>>
readVars == <<reading, finished, nodeVars, consumer, endEmitted>>
vars == <<rigid, batchVars, coreVars, metadataSent, cancelled, handler, errored,
          writeVars, endVars, readVars>>

kind == scenario.kind
N == scenario.n
W == scenario.w
Reads == kind \in {"client_stream", "bidi"}
Writes == kind \in {"server_stream", "bidi"}
Responds == kind \in {"unary", "client_stream"}

Upto(n) == [i \in 1..n |-> i]

Batches == {"close", "recv", "meta", "write", "status"}
Exceptions == {"no", "type", "again", "overlap"}

TypeOK ==
    /\ scenario \in Scenarios
    /\ pend \subseteq Batches /\ metaOp \in BOOLEAN /\ msgs \in Nat
    /\ statusOp \in {NULL, "OK", "ERROR"}
    /\ threw \in Exceptions
    /\ finalDone \in BOOLEAN /\ gone \in BOOLEAN /\ got \in 0..N
    /\ metadataSent \in BOOLEAN /\ cancelled \in BOOLEAN
    /\ handler \in {"none", "running", "done"} /\ errored \in BOOLEAN
    /\ written \in 0..W /\ wq \in 0..written
    /\ writing \in BOOLEAN /\ finish \in BOOLEAN
    /\ wEnd \in BOOLEAN /\ terminated \in BOOLEAN
    /\ wStatus \in {"OK", "ERROR", "NOT_A_NUMBER"}
    /\ reading \in BOOLEAN /\ finished \in BOOLEAN
    /\ nodeReading \in BOOLEAN /\ rEnded \in BOOLEAN
    /\ rbuf \in Seq(1..N) /\ delivered \in Seq(1..N)
    /\ consumer \in {"none", "paused", "flowing"} /\ endEmitted \in BOOLEAN

-----------------------------------------------------------------------------
ServerUnaryCall ==
    /\ metadataSent = FALSE /\ cancelled = FALSE
    /\ handler = IF Reads THEN "running" ELSE "none"
    /\ threw = "no" /\ errored = FALSE

ServerWritableStream ==
    /\ written = 0 /\ wq = 0 /\ writing = FALSE /\ wEnd = FALSE
    /\ wStatus = "OK" /\ finish = FALSE /\ terminated = FALSE

ServerReadableStream ==
    /\ reading = FALSE /\ finished = FALSE /\ nodeReading = FALSE
    /\ rbuf = <<>> /\ rEnded = FALSE /\ consumer = "none"
    /\ delivered = <<>> /\ endEmitted = FALSE

(* streamHandlers[handler.type](call, handler, metadata): every kind waits *)
(* for the close.  The unary and server streaming ones wait for a request; *)
(* the others call the application at once.  A method without a handler is *)
(* answered with UNIMPLEMENTED by handleNewCall itself.                    *)
streamHandlers ==
    [unary |-> {"close", "recv"}, server_stream |-> {"close", "recv"},
     client_stream |-> {"close"}, bidi |-> {"close"}, unknown |-> {"status"}]

Init ==
    /\ scenario \in Scenarios
    /\ pend = streamHandlers[kind]
    /\ metaOp = (kind = "unknown")
    /\ statusOp = IF kind = "unknown" THEN "ERROR" ELSE NULL
    /\ msgs = 0 /\ finalDone = FALSE /\ gone = FALSE /\ got = 0
    /\ ServerUnaryCall /\ ServerWritableStream /\ ServerReadableStream

-----------------------------------------------------------------------------
(* Batches.                                                                *)
Destroyed == finalDone /\ pend = {}

(* What the core refuses: a second metadata or status operation, and a     *)
(* write or a read while one is under way (p: the batches under way).      *)
Again(ops) ==
    \/ "meta" \in ops /\ metaOp
    \/ "status" \in ops /\ statusOp # NULL

Overlaps(p, ops) ==
    \/ "msg" \in ops /\ "write" \in p
    \/ "recv" \in ops /\ "recv" \in p

Refused(p, ops) == Again(ops) \/ Overlaps(p, ops)

(* call.startBatch on a call that is not destroyed: p are the batches      *)
(* under way in the core, b names the callback.  A status whose code is    *)
(* not a number throws before the core sees it (call.cc 295).              *)
startBatch(p, b, ops, code) ==
    IF code = "NOT_A_NUMBER" \/ Refused(p, ops)
    THEN /\ threw' = CASE code = "NOT_A_NUMBER" -> "type"
                       [] code # "NOT_A_NUMBER" /\ Again(ops) -> "again"
                       [] OTHER -> "overlap"
         /\ pend' = p
         /\ UNCHANGED <<metaOp, msgs, statusOp>>
    ELSE /\ pend' = p \cup {b}
         /\ metaOp' = (metaOp \/ "meta" \in ops)
         /\ msgs' = IF "msg" \in ops THEN msgs + 1 ELSE msgs
         /\ statusOp' = IF "status" \in ops THEN code ELSE statusOp
         /\ UNCHANGED threw

(* A status batch: on a destroyed call its empty callback gets the error.  *)
statusBatch(p, ops, code) ==
    IF Destroyed THEN UNCHANGED batchVars
    ELSE startBatch(p, "status", ops \cup {"status"}, code)

Meta == IF metadataSent THEN {} ELSE {"meta"}

(* handleError(call, error): it does not set metadataSent.                 *)
handleError(p, code) == statusBatch(p, Meta, code)

(* Bug: a response that does not serialize is dropped.                     *)
sendUnaryResponseSilent ==
    \/ UNCHANGED <<batchVars, metadataSent>>
    \/ statusBatch(pend, Meta \cup {"msg"}, "OK") /\ metadataSent' = TRUE

(* Bug: the metadata is sent again although sendMetadata sent it.          *)
sendUnaryResponseAgain ==
    \/ handleError(pend, "ERROR") /\ UNCHANGED metadataSent
    \/ statusBatch(pend, {"meta", "msg"}, "OK") /\ metadataSent' = TRUE

(* sendUnaryResponse: the value may not serialize.                         *)
sendUnaryResponse ==
    \/ handleError(pend, "ERROR") /\ UNCHANGED metadataSent
    \/ statusBatch(pend, Meta \cup {"msg"}, "OK") /\ metadataSent' = TRUE

(* Bug: the pending status is not set.                                     *)
terminateCallKeepsStatus(code) ==
    /\ wEnd' = TRUE /\ terminated' = TRUE
    /\ UNCHANGED wStatus

(* The 'error' listener of a writable stream: setStatus, then end().       *)
terminateCall(code) ==
    /\ wStatus' = code
    /\ wEnd' = TRUE /\ terminated' = TRUE

(* emit('error', err), by the kind of object.                              *)
emitError(p) ==
    \/ /\ Responds
       /\ handleError(p, "ERROR") /\ errored' = TRUE
       /\ UNCHANGED endVars
    \/ /\ Writes
       /\ terminateCall("ERROR") /\ pend' = p
       /\ UNCHANGED <<metaOp, msgs, statusOp, threw, errored>>

Completes(b) ==
    /\ pend' = pend \ {b}
    /\ UNCHANGED <<metaOp, msgs, statusOp, threw>>

NoBatch == UNCHANGED <<batchVars, metadataSent, errored, endVars>>

(* Codes of an error the application reports: Node's own errors have a     *)
(* string for a code.                                                      *)
AppCodes == {"ERROR", "NOT_A_NUMBER"}

-----------------------------------------------------------------------------
(* The client and the core.                                                *)

ClientGone ==
    /\ ~gone /\ ~finalDone
    /\ gone' = TRUE
    /\ UNCHANGED <<rigid, batchVars, finalDone, got, metadataSent, cancelled,
                   handler, errored, writeVars, endVars, readVars>>

StatusDone ==
    /\ "status" \in pend
    /\ Completes("status")
    /\ finalDone' = TRUE
    /\ UNCHANGED <<rigid, gone, got, metadataSent, cancelled, handler, errored,
                   writeVars, endVars, readVars>>

(* stream.terminate(): reads are over, and a 'data' listener makes what is *)
(* left flow unless the application paused it.                             *)
terminate ==
    /\ finished' = TRUE
    /\ consumer' = IF consumer = "paused" THEN "paused" ELSE "flowing"

(* waitForCancel's callback.                                               *)
CloseDone ==
    /\ "close" \in pend /\ (gone \/ finalDone)
    /\ Completes("close")
    /\ cancelled' = gone
    /\ IF gone /\ Reads THEN terminate ELSE UNCHANGED <<finished, consumer>>
    /\ UNCHANGED <<rigid, coreVars, metadataSent, handler, errored, writeVars,
                   endVars, reading, nodeVars, endEmitted>>

(* sendMetadata's callback; its error is emitted.                          *)
MetaDone ==
    /\ "meta" \in pend
    /\ \/ Completes("meta") /\ UNCHANGED <<errored, endVars>>
       \/ gone /\ emitError(pend \ {"meta"})
    /\ UNCHANGED <<rigid, coreVars, metadataSent, cancelled, handler,
                   writeVars, readVars>>

-----------------------------------------------------------------------------
(* The request has arrived.  It may not parse, or be missing; or the batch *)
(* fails since the client is gone.  A cancelled unary call ends here.      *)
handleUnary ==
    /\ kind = "unary" /\ "recv" \in pend
    /\ \/ /\ Completes("recv")
          /\ handler' = IF cancelled THEN "none" ELSE "running"
       \/ handleError(pend \ {"recv"}, "ERROR") /\ UNCHANGED handler
    /\ UNCHANGED <<rigid, coreVars, metadataSent, cancelled, errored, endVars,
                   writeVars, readVars>>

handleServerStreaming ==
    /\ kind = "server_stream" /\ "recv" \in pend
    /\ Completes("recv")
    /\ \/ handler' = "running" /\ UNCHANGED endVars
       \/ terminateCall("ERROR") /\ UNCHANGED handler
    /\ UNCHANGED <<rigid, coreVars, metadataSent, cancelled, errored,
                   writeVars, readVars>>

(* The callback given to a handler with one response: an error, or a       *)
(* value.  Nothing keeps the handler from calling it again.                *)
Respond ==
    /\ Responds /\ handler # "none"
    /\ handler' = "done"
    /\ IF kind = "client_stream" THEN terminate
       ELSE UNCHANGED <<finished, consumer>>
    /\ \/ /\ \E code \in AppCodes : handleError(pend, code)
          /\ UNCHANGED metadataSent
       \/ sendUnaryResponse
    /\ UNCHANGED <<rigid, coreVars, cancelled, errored, writeVars, endVars,
                   reading, nodeVars, endEmitted>>

(* sendMetadata, on any of the objects.  On a destroyed call the callback  *)
(* gets its error at once.                                                 *)
sendMetadata ==
    /\ handler # "none" /\ ~metadataSent
    /\ metadataSent' = TRUE
    /\ IF Destroyed THEN emitError(pend)
       ELSE /\ startBatch(pend, "meta", {"meta"}, NULL)
            /\ UNCHANGED <<errored, endVars>>
    /\ UNCHANGED <<rigid, coreVars, cancelled, handler, writeVars, readVars>>

-----------------------------------------------------------------------------
(* The writable side.                                                      *)

(* write(): Node answers one that comes after end() with an 'error' event. *)
Write ==
    /\ Writes /\ handler # "none"
    /\ \/ /\ ~wEnd /\ written < W
          /\ written' = written + 1 /\ wq' = wq + 1
          /\ UNCHANGED endVars
       \/ /\ wEnd
          /\ \E code \in AppCodes : terminateCall(code)
          /\ UNCHANGED <<written, wq>>
    /\ UNCHANGED <<rigid, batchVars, coreVars, metadataSent, cancelled,
                   handler, errored, writing, finish, readVars>>

(* _write: the message does not serialize, or goes to the core.            *)
_write ==
    /\ wq > 0 /\ ~writing
    /\ \/ /\ wq' = wq - 1 /\ terminateCall("ERROR")
          /\ UNCHANGED <<batchVars, metadataSent, errored, writing>>
       \/ /\ startBatch(pend, "write", Meta \cup {"msg"}, NULL)
          /\ metadataSent' = TRUE /\ writing' = TRUE
          /\ UNCHANGED <<wq, errored, endVars>>
    /\ UNCHANGED <<rigid, coreVars, cancelled, handler, written, finish, readVars>>

(* The write's callback: an error is emitted and Node is never told.       *)
WriteDone ==
    /\ "write" \in pend
    /\ Completes("write")
    /\ \/ wq' = wq - 1 /\ writing' = FALSE /\ UNCHANGED endVars
       \/ gone /\ terminateCall("ERROR") /\ UNCHANGED <<wq, writing>>
    /\ UNCHANGED <<rigid, coreVars, metadataSent, cancelled, handler, errored,
                   written, finish, readVars>>

(* The application ends its stream, or emits an error on it.               *)
EndStream ==
    /\ Writes /\ handler # "none"
    /\ handler' = "done"
    /\ \/ wEnd' = TRUE /\ UNCHANGED <<wStatus, terminated>>
       \/ \E code \in AppCodes : terminateCall(code)
    /\ UNCHANGED <<rigid, batchVars, coreVars, metadataSent, cancelled,
                   errored, writeVars, readVars>>

(* 'finish', when every write has called back: sendStatus.                 *)
Finish ==
    /\ wEnd /\ wq = 0 /\ ~writing /\ ~finish
    /\ finish' = TRUE
    /\ statusBatch(pend, Meta, wStatus)
    /\ metadataSent' = TRUE
    /\ UNCHANGED <<rigid, coreVars, cancelled, handler, errored, written, wq,
                   writing, endVars, readVars>>

-----------------------------------------------------------------------------
(* The readable side.                                                      *)

(* _read: on a destroyed call readCallback gets its error at once.         *)
_read ==
    \/ /\ finished
       /\ rEnded' = TRUE /\ nodeReading' = FALSE
       /\ UNCHANGED <<reading, finished, consumer, batchVars>>
    \/ /\ ~finished /\ reading
       /\ nodeReading' = TRUE
       /\ UNCHANGED <<reading, finished, consumer, rEnded, batchVars>>
    \/ /\ ~finished /\ ~reading
       /\ nodeReading' = TRUE /\ reading' = TRUE
       /\ IF Destroyed THEN terminate /\ UNCHANGED batchVars
          ELSE /\ startBatch(pend, "recv", {"recv"}, NULL)
               /\ UNCHANGED <<finished, consumer>>
       /\ UNCHANGED rEnded

(* Node calls _read for a consumer, and ahead of it below highWaterMark.   *)
NodeRead ==
    /\ Reads /\ consumer # "none"
    /\ ~nodeReading /\ ~rEnded /\ Len(rbuf) < HighWaterMark
    /\ _read
    /\ UNCHANGED <<rigid, coreVars, metadataSent, cancelled, handler, errored,
                   writeVars, endVars, rbuf, delivered, endEmitted>>

(* push(m): handed over at once to a flowing consumer, else buffered.      *)
push(m) ==
    /\ nodeReading' = FALSE
    /\ IF consumer = "flowing" /\ rbuf = <<>>
       THEN delivered' = Append(delivered, m) /\ UNCHANGED rbuf
       ELSE rbuf' = Append(rbuf, m) /\ UNCHANGED delivered

pushReturns == Len(rbuf') < HighWaterMark

(* Bug: the flag is reset although the next read is started.               *)
readAgainUnflagged ==
    startBatch(pend \ {"recv"}, "recv", {"recv"}, NULL) /\ reading' = FALSE

(* Once a read has completed: the next one, with the flag still set.       *)
readAgain ==
    startBatch(pend \ {"recv"}, "recv", {"recv"}, NULL) /\ UNCHANGED reading

readNoMore == Completes("recv") /\ reading' = FALSE

(* Bug: the flag stays set although no read was started.                   *)
ReadMessageStaysReading ==
    /\ Reads /\ "recv" \in pend /\ ~finished
    /\ got < N
    /\ got' = got + 1
    /\ push(got + 1)
    /\ IF pushReturns THEN readAgain ELSE Completes("recv") /\ UNCHANGED reading
    /\ UNCHANGED <<rigid, finalDone, gone, metadataSent, cancelled, handler,
                   errored, writeVars, endVars, finished, rEnded, consumer,
                   endEmitted>>

(* Bug: readCallback does not look at whether the reads are over.          *)
ReadMessageThoughFinished ==
    /\ Reads /\ "recv" \in pend
    /\ got < N
    /\ got' = got + 1
    /\ push(got + 1)
    /\ IF pushReturns THEN readAgain ELSE readNoMore
    /\ UNCHANGED <<rigid, finalDone, gone, metadataSent, cancelled, handler,
                   errored, writeVars, endVars, finished, rEnded, consumer,
                   endEmitted>>

(* readCallback with the next request: read on if push() allows it.        *)
ReadMessage ==
    /\ Reads /\ "recv" \in pend /\ ~finished
    /\ got < N
    /\ got' = got + 1
    /\ push(got + 1)
    /\ IF pushReturns THEN readAgain ELSE readNoMore
    /\ UNCHANGED <<rigid, finalDone, gone, metadataSent, cancelled, handler,
                   errored, writeVars, endVars, finished, rEnded, consumer,
                   endEmitted>>

(* readCallback with null: the client half-closed, is gone, or has the     *)
(* status; or whatever it brings once reads are over.                      *)
ReadNull ==
    /\ Reads /\ "recv" \in pend
    /\ got = N \/ gone \/ finalDone \/ finished
    /\ Completes("recv")
    /\ rEnded' = TRUE /\ nodeReading' = FALSE
    /\ reading' = (reading /\ finished)
    /\ UNCHANGED <<rigid, coreVars, metadataSent, cancelled, handler, errored,
                   writeVars, endVars, finished, rbuf, delivered, consumer,
                   endEmitted>>

(* readCallback with an error of the core: no push(null).                  *)
ReadFails ==
    /\ Reads /\ "recv" \in pend /\ gone
    /\ Completes("recv")
    /\ terminate
    /\ UNCHANGED <<rigid, coreVars, metadataSent, cancelled, handler, errored,
                   writeVars, endVars, reading, nodeVars, endEmitted>>

(* readCallback with a request that does not parse: 'error', and no read.  *)
ReadUnparsed ==
    /\ Reads /\ "recv" \in pend /\ ~finished
    /\ got < N
    /\ got' = got + 1
    /\ emitError(pend \ {"recv"})
    /\ UNCHANGED <<rigid, finalDone, gone, metadataSent, cancelled, handler,
                   writeVars, readVars>>

(* The application's consumer.                                             *)
Consume ==
    /\ Reads /\ handler # "none"
    /\ consumer' \in {"paused", "flowing"} \ {consumer}
    /\ NoBatch
    /\ UNCHANGED <<rigid, coreVars, cancelled, handler, writeVars, reading,
                   finished, nodeVars, endEmitted>>

Flow ==
    /\ consumer = "flowing" /\ rbuf # <<>>
    /\ delivered' = Append(delivered, Head(rbuf)) /\ rbuf' = Tail(rbuf)
    /\ NoBatch
    /\ UNCHANGED <<rigid, coreVars, cancelled, handler, writeVars, reading,
                   finished, nodeReading, rEnded, consumer, endEmitted>>

FlowEnd ==
    /\ consumer = "flowing" /\ rbuf = <<>> /\ rEnded /\ ~endEmitted
    /\ endEmitted' = TRUE
    /\ NoBatch
    /\ UNCHANGED <<rigid, coreVars, cancelled, handler, writeVars, reading,
                   finished, nodeVars, consumer>>

-----------------------------------------------------------------------------
Next ==
    \/ ClientGone \/ StatusDone \/ CloseDone \/ MetaDone
    \/ handleUnary \/ handleServerStreaming \/ Respond \/ sendMetadata
    \/ Write \/ _write \/ WriteDone \/ EndStream \/ Finish
    \/ NodeRead \/ ReadMessage \/ ReadNull \/ ReadFails \/ ReadUnparsed
    \/ Consume \/ Flow \/ FlowEnd

(* The core completes what it can, clients go on sending until they half-  *)
(* close, Node does its part, and a consumer that pauses resumes.  Nothing *)
(* obliges a handler to finish.                                            *)
Fairness ==
    /\ WF_vars(StatusDone) /\ WF_vars(CloseDone) /\ WF_vars(MetaDone)
    /\ WF_vars(handleUnary) /\ WF_vars(handleServerStreaming) /\ WF_vars(ReadMessage \/ ReadNull)
    /\ WF_vars(_write) /\ WF_vars(WriteDone) /\ WF_vars(Finish)
    /\ WF_vars(NodeRead) /\ SF_vars(Flow) /\ SF_vars(FlowEnd)
    /\ WF_vars(Consume /\ consumer' = "flowing")

Spec == Init /\ [][Next]_vars

FairSpec == Spec /\ Fairness

-----------------------------------------------------------------------------
(* The core accepts every batch: the reads and the writes of a stream      *)
(* never overlap, metadata is sent once and the first answer is never      *)
(* refused, in any order of sendMetadata, writes, reads, answers and       *)
(* cancellation.  What it does refuse is a second answer, from a handler   *)
(* that calls back again or from an 'error' event handleError answers      *)
(* (lines 46-79, 592-600, 672-680): a call with one response then has a    *)
(* status already.                                                         *)
AcceptedByCore ==
    /\ threw # "overlap"
    /\ threw = "again" => Responds /\ statusOp # NULL

(* A call gets OK only if nothing went wrong before and everything written *)
(* has gone out: sendStatus waits for the writes, and an error event in    *)
(* between replaces the pending status (lines 132-175).                    *)
OKIsEarned ==
    [][statusOp = NULL /\ statusOp' = "OK" =>
          /\ ~errored /\ ~terminated
          /\ Writes => msgs = written /\ wq = 0]_vars

(* The handler is given the requests in order, with none left out, and     *)
(* nothing is pushed after the end (Node makes that an error event), over  *)
(* cancellation, failed reads and requests that do not parse.              *)
RequestsInOrder ==
    [][LET old == delivered \o rbuf  new == delivered' \o rbuf'
       IN  \/ new = old
           \/ ~rEnded /\ new = Append(old, Len(old) + 1)]_vars

(* When the handler is done, or an error has terminated the call, the      *)
(* pending writes are drained, the status is sent and the call is let go   *)
(* of, unless the client is gone (a failed write then blocks 'finish' for  *)
(* ever) or the error has a code that is no number.                        *)
CallReleased ==
    handler = "done" \/ terminated ~> Destroyed \/ gone \/ threw = "type"

(* A handler that reads learns how the requests end: by 'end', 'cancelled' *)
(* or an error; a read that fails after the call is cancelled pushes no    *)
(* null, which must not leave it waiting (lines 387-396).                  *)
HandlerLearnsEnd ==
    Reads /\ consumer # "none" ~>
        endEmitted \/ cancelled \/ errored \/ terminated \/ handler = "done"
=============================================================================
