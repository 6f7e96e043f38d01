--------------------------- MODULE Http2CallStream ---------------------------
(***************************************************************************)
(* One call of the pure JavaScript client: Http2CallStream                 *)
(* (grpc-js-core/src/call-stream.ts), a Duplex stream between the          *)
(* application and an http2 stream that the channel attaches later.        *)
(*                                                                         *)
(* Messages are numbered in the order they were sent.  The http2 stream    *)
(* delivers bytes; what matters here is how many messages a 'data' event   *)
(* completes, and the deframer's loop is one step per completed message so *)
(* that application code called from push() can run in between.            *)
(*                                                                         *)
(* External, modelled from its use: the http2 stream, and Node's Readable  *)
(* and Writable (the buffer below highWaterMark, one _read or _write       *)
(* outstanding at a time, the flowing mode).                               *)
(***************************************************************************)
EXTENDS Naturals, Sequences, FiniteSets

CONSTANTS
    Scenarios,     \* what server and application may do: see Scenario
    HighWaterMark, \* of the readable side
    MaxChunk,      \* messages one 'data' event may complete: a bound
    NULL

(* The codes the handlers can produce, and the two of the application.     *)
Status == {"OK", "CANCELLED", "UNKNOWN", "DEADLINE_EXCEEDED", "UNIMPLEMENTED",
           "PERMISSION_DENIED", "UNAUTHENTICATED", "RESOURCE_EXHAUSTED",
           "INTERNAL", "UNAVAILABLE"}

(* n messages from the server, m from the application, the :status and     *)
(* grpc-status values the server may send ("absent" and "invalid" are no   *)
(* codes), the http2 error codes the stream may close with, and whether    *)
(* the application may cancel, things may fail, and the server may stop    *)
(* reading (the window then stays shut and a write never calls back).      *)
Scenario == [n : Nat, m : Nat, http : SUBSET STRING,
             grpc : SUBSET (Status \cup {"absent", "invalid"}),
             close : SUBSET STRING, mayCancel : BOOLEAN, mayFail : BOOLEAN,
             mayStall : BOOLEAN]

ASSUME StreamAssumption ==
    /\ Scenarios \subseteq Scenario
    /\ NULL \notin Status \cup {"absent", "invalid", "cancel", "metadata"}
    /\ \A s \in Scenarios : NULL \notin s.close
    /\ HighWaterMark \in Nat \ {0} /\ MaxChunk \in Nat \ {0}

VARIABLES
    scenario,        \* never changes
    steady,          \* the consumer has flowed ever since (history)
    \* the call's end
    attached,        \* http2Stream: "no" is null, "refused" reset on arrival
    rst,             \* rstWithCancel was called on the http2 stream
    finalStatus,     \* finalStatus
    endedBy,         \* which handler set it (history)
    mappedStatusCode,
    responded,       \* the 'response' event
    trailers,        \* grpc-status of the trailers received, else NULL
    trailersThen,    \* the status the receiveTrailers promise will end with
    closeCode,       \* streamClosed was emitted with this error code
    \* the readable side
    received,        \* messages completed by the deframer
    chunk,           \* messages of the 'data' event being handled
    canPush,         \* local of the 'data' handler
    rbuf,            \* the Readable's buffer
    unpushed,        \* unpushedReadMessages, without the null
    unpushedEnd,     \* the null at the end of unpushedReadMessages
    reading,         \* _read was called and push() was not, since
    pendingRead,
    rEnded,          \* push(null)
    flowing,         \* the application consumes
    h2Flow,          \* the http2 stream is flowing
    h2Ended,         \* its 'end' event: not yet, scheduled, or emitted
    delivered,       \* messages handed to the application
    endEmitted,      \* the call's own 'end' event
    \* the writable side
    written,         \* messages the application wrote
    wq,              \* the Writable's buffer, the one being written first
    writing,         \* _write was called and its callback was not
    pendingWrite, pendingFinal,
    ending,          \* the application called end()
    finalCalled,     \* _final was called
    wire,            \* messages written to the http2 stream
    wireEnd          \* end() was called on it

fixed == <<scenario, steady>>
endVars == <<attached, rst, finalStatus, endedBy, mappedStatusCode, responded,
             trailers, trailersThen, closeCode>>
statusVars == <<finalStatus, endedBy>>
bufVars == <<rbuf, unpushed, unpushedEnd, reading, rEnded>>
readVars == <<received, chunk, canPush, bufVars, pendingRead, flowing, h2Flow,
              h2Ended, delivered, endEmitted>>
writeVars == <<written, wq, writing, pendingWrite, pendingFinal, ending,
               finalCalled, wire, wireEnd>>
vars == <<fixed, endVars, readVars, writeVars>>

N == scenario.n
M == scenario.m

Upto(n) == [i \in 1..n |-> i]

TypeOK ==
    /\ attached \in {"no", "yes", "refused"}
    /\ finalStatus \in Status \cup {NULL}
    /\ endedBy \in {NULL, "trailers", "closed", "error", "cancel", "metadata"}
    /\ mappedStatusCode \in Status
    /\ trailers \in scenario.grpc \cup {NULL}
    /\ trailersThen \in Status \cup {NULL}
    /\ closeCode \in scenario.close \cup {NULL}
    /\ received \in 0..N
    /\ chunk \in Seq(1..N) /\ rbuf \in Seq(1..N)
    /\ unpushed \in Seq(1..N) /\ delivered \in Seq(1..N)
    /\ wq \in Seq(1..M) /\ wire \in Seq(1..M)
    /\ written \in 0..M /\ pendingWrite \in 0..M
    /\ h2Ended \in {"no", "scheduled", "emitted"}
    /\ scenario \in Scenarios
    /\ steady \in BOOLEAN /\ rst \in BOOLEAN /\ responded \in BOOLEAN
    /\ canPush \in BOOLEAN /\ unpushedEnd \in BOOLEAN /\ reading \in BOOLEAN
    /\ pendingRead \in BOOLEAN /\ rEnded \in BOOLEAN /\ flowing \in BOOLEAN
    /\ h2Flow \in BOOLEAN /\ endEmitted \in BOOLEAN /\ writing \in BOOLEAN
    /\ pendingFinal \in BOOLEAN /\ ending \in BOOLEAN
    /\ finalCalled \in BOOLEAN /\ wireEnd \in BOOLEAN

Init ==
    /\ scenario \in Scenarios /\ steady = TRUE
    /\ attached = "no" /\ rst = FALSE
    /\ finalStatus = NULL /\ endedBy = NULL
    /\ mappedStatusCode = "UNKNOWN" /\ responded = FALSE
    /\ trailers = NULL /\ trailersThen = NULL /\ closeCode = NULL
    /\ received = 0 /\ chunk = <<>> /\ canPush = TRUE
    /\ rbuf = <<>> /\ unpushed = <<>> /\ unpushedEnd = FALSE
    /\ reading = FALSE /\ pendingRead = FALSE /\ rEnded = FALSE
    /\ flowing = FALSE /\ h2Flow = FALSE /\ h2Ended = "no"
    /\ delivered = <<>> /\ endEmitted = FALSE
    /\ written = 0 /\ wq = <<>> /\ writing = FALSE
    /\ pendingWrite = 0 /\ pendingFinal = FALSE
    /\ ending = FALSE /\ finalCalled = FALSE
    /\ wire = <<>> /\ wireEnd = FALSE

-----------------------------------------------------------------------------
(* The event loop: an event handler runs to its end, and the promise       *)
(* reactions it leaves run before the next event of the http2 stream.      *)
HandlerDone == chunk = <<>>
TurnEnded == HandlerDone /\ trailersThen = NULL
Open == attached = "yes" /\ closeCode = NULL

-----------------------------------------------------------------------------
(* How a call ends.                                                        *)

(* Bug: a later status replaces an earlier one.                            *)
endCallAgain(code, by) ==
    /\ finalStatus' = code
    /\ endedBy' = by

endCall(code, by) ==
    IF finalStatus = NULL
    THEN finalStatus' = code /\ endedBy' = by
    ELSE UNCHANGED statusVars

(* Bug: only a call that had not ended resets its stream.                  *)
cancelWithoutReset(code, by) ==
    /\ endCall(code, by)
    /\ UNCHANGED rst

cancelWithStatus(code, by) ==
    /\ endCall(code, by)
    /\ rst' = (rst \/ attached = "yes")

(* Application code, a deadline timer, or code called from push().         *)
Cancel ==
    /\ scenario.mayCancel
    /\ finalStatus = NULL                  \* bound: it cancels once
    /\ \E code \in {"CANCELLED", "DEADLINE_EXCEEDED"} :
          cancelWithStatus(code, "cancel")
    /\ UNCHANGED <<fixed, attached, mappedStatusCode, responded, trailers,
                   trailersThen, closeCode, readVars, writeVars>>

mapHttpStatus(h) ==
    CASE h = "400" -> "INTERNAL"
      [] h = "401" -> "UNAUTHENTICATED"
      [] h = "403" -> "PERMISSION_DENIED"
      [] h = "404" -> "UNIMPLEMENTED"
      [] h \in {"429", "502", "503", "504"} -> "UNAVAILABLE"
      [] OTHER -> "UNKNOWN"

(* 'response': it comes first, and its headers may not parse as Metadata.  *)
Response ==
    /\ TurnEnded /\ Open
    /\ ~responded
    /\ responded' = TRUE
    /\ \E h \in scenario.http : mappedStatusCode' = mapHttpStatus(h)
    /\ \/ UNCHANGED <<statusVars, rst>>
       \/ scenario.mayFail /\ cancelWithStatus("UNKNOWN", "metadata")
    /\ UNCHANGED <<fixed, attached, trailers, trailersThen, closeCode, readVars,
                   writeVars>>

(* The code the trailers stand for; "absent" and "invalid" are no codes.   *)
trailersCode(g) ==
    CASE g = "absent"  -> mappedStatusCode
      [] g = "invalid" -> "UNKNOWN"
      [] OTHER         -> g

(* 'trailers': every message has arrived, and been read if the consumer    *)
(* never paused.  decodeURI of the grpc-message may throw: the handler     *)
(* then ends here.                                                         *)
Trailers ==
    /\ TurnEnded /\ Open
    /\ responded /\ trailers = NULL
    /\ steady => received = N
    /\ \E g \in scenario.grpc :
          /\ trailers' = g
          /\ \/ trailersThen' = trailersCode(g)
             \/ scenario.mayFail /\ UNCHANGED trailersThen
    /\ UNCHANGED <<fixed, attached, rst, statusVars, mappedStatusCode,
                   responded, closeCode, readVars, writeVars>>

(* The filters' promise resolves; no filter rejects it.  Promise reactions *)
(* run after process.nextTick's, which the 'end' events of a stream whose  *)
(* consumer never paused are among.                                        *)
TrailersThen ==
    /\ trailersThen # NULL
    /\ steady => endEmitted
    /\ endCall(trailersThen, "trailers")
    /\ trailersThen' = NULL
    /\ UNCHANGED <<fixed, attached, rst, mappedStatusCode, responded, trailers,
                   closeCode, readVars, writeVars>>

(* Bug: a stream closed without an error is taken for a success.           *)
mapCloseCodeNoError(e) ==
    CASE e = "REFUSED_STREAM"      -> "UNAVAILABLE"
      [] e = "CANCEL"              -> "CANCELLED"
      [] e = "NO_ERROR"            -> "OK"
      [] OTHER                     -> "INTERNAL"

mapCloseCode(e) ==
    CASE e = "REFUSED_STREAM"      -> "UNAVAILABLE"
      [] e = "CANCEL"              -> "CANCELLED"
      [] e = "ENHANCE_YOUR_CALM"   -> "RESOURCE_EXHAUSTED"
      [] e = "INADEQUATE_SECURITY" -> "PERMISSION_DENIED"
      [] OTHER                     -> "INTERNAL"

(* Bug: a clean close is left to the trailers.                             *)
closeEndsIfError(e) ==
    IF e = "NO_ERROR" THEN UNCHANGED statusVars
    ELSE endCall(mapCloseCode(e), "closed")

closeEndsCall(e) == endCall(mapCloseCode(e), "closed")

(* 'streamClosed': without an error only after the server has answered.    *)
StreamClosed ==
    /\ TurnEnded /\ Open
    /\ \E e \in scenario.close :
          /\ e = "NO_ERROR" => responded
          /\ closeCode' = e
          /\ closeEndsCall(e)
    /\ UNCHANGED <<fixed, attached, rst, mappedStatusCode, responded, trailers,
                   trailersThen, readVars, writeVars>>

StreamError ==
    /\ scenario.mayFail
    /\ TurnEnded /\ Open
    /\ finalStatus = NULL                  \* else it has no effect
    /\ endCall("INTERNAL", "error")
    /\ UNCHANGED <<fixed, attached, rst, mappedStatusCode, responded, trailers,
                   trailersThen, closeCode, readVars, writeVars>>

-----------------------------------------------------------------------------
(* The readable side.                                                      *)

(* _read() with a stream attached: push what was kept back, at least one,  *)
(* until push() says stop; then the null; then resume the http2 stream.    *)
_readStops == unpushed # <<>> /\ Len(rbuf) + Len(unpushed) >= HighWaterMark
_readPushes ==
    LET room == IF HighWaterMark > Len(rbuf) THEN HighWaterMark - Len(rbuf)
                ELSE 1
    IN  IF Len(unpushed) < room THEN Len(unpushed) ELSE room
_readBuf == rbuf \o SubSeq(unpushed, 1, _readPushes)

(* Bug: resume whatever is still kept back.                                *)
_readResumes ==
    /\ unpushed' = SubSeq(unpushed, _readPushes + 1, Len(unpushed))
    /\ reading' = (unpushed = <<>>)
    /\ h2Flow' = TRUE
    /\ UNCHANGED <<unpushedEnd, rEnded>>

_readAttached ==
    /\ unpushed' = SubSeq(unpushed, _readPushes + 1, Len(unpushed))
    /\ IF _readStops
       THEN UNCHANGED <<unpushedEnd, rEnded, h2Flow>> /\ reading' = FALSE
       ELSE IF unpushedEnd
       THEN /\ unpushedEnd' = FALSE /\ rEnded' = TRUE /\ reading' = FALSE
            /\ UNCHANGED h2Flow
       ELSE /\ h2Flow' = TRUE /\ reading' = (unpushed = <<>>)
            /\ UNCHANGED <<unpushedEnd, rEnded>>

(* Node calls _read() when it is not waiting for a push().                 *)
WantsRead == ~reading /\ ~rEnded /\ Len(rbuf) <= HighWaterMark

(* _read(): without a stream it is left to attachHttp2Stream().            *)
_read ==
    IF attached = "yes"
    THEN _readAttached /\ UNCHANGED pendingRead
    ELSE /\ pendingRead' = TRUE /\ reading' = TRUE
         /\ UNCHANGED <<unpushed, unpushedEnd, rEnded, h2Flow>>

(* Stream#read(): _read() first, then take the first buffered message.     *)
readBuf == IF WantsRead /\ attached = "yes" THEN _readBuf ELSE rbuf
read(take) ==
    /\ IF WantsRead THEN _read
       ELSE UNCHANGED <<unpushed, unpushedEnd, reading, rEnded, h2Flow,
                        pendingRead>>
    /\ IF take /\ readBuf # <<>>
       THEN /\ rbuf' = Tail(readBuf)
            /\ delivered' = Append(delivered, Head(readBuf))
       ELSE rbuf' = readBuf /\ UNCHANGED delivered

(* The application's 'data' listener, in flowing mode.                     *)
Flow ==
    /\ HandlerDone
    /\ flowing
    /\ rbuf # <<>> \/ WantsRead
    /\ read(TRUE)
    /\ UNCHANGED <<received, chunk, canPush, flowing, h2Ended, endEmitted,
                   fixed, endVars, writeVars>>

(* Node's maybeReadMore after a push to a paused stream.                   *)
ReadMore ==
    /\ HandlerDone
    /\ ~flowing /\ received > 0
    /\ WantsRead /\ Len(rbuf) < HighWaterMark
    /\ read(FALSE)
    /\ UNCHANGED <<received, chunk, canPush, flowing, h2Ended, endEmitted,
                   fixed, endVars, writeVars>>

FlowEnd ==
    /\ HandlerDone
    /\ flowing /\ rEnded /\ rbuf = <<>> /\ ~endEmitted
    /\ endEmitted' = TRUE
    /\ UNCHANGED <<received, chunk, canPush, bufVars, pendingRead, flowing,
                   h2Flow, h2Ended, delivered, fixed, endVars, writeVars>>

(* The application pauses, from inside a 'data' listener too, and resumes. *)
Pause ==
    /\ flowing
    /\ flowing' = FALSE
    /\ steady' = (steady /\ attached = "no")
    /\ UNCHANGED <<scenario, received, chunk, canPush, bufVars, pendingRead,
                   h2Flow, h2Ended, delivered, endEmitted, endVars, writeVars>>

Resume ==
    /\ HandlerDone
    /\ ~flowing
    /\ flowing' = TRUE
    /\ UNCHANGED <<received, chunk, canPush, bufVars, pendingRead, h2Flow,
                   h2Ended, delivered, endEmitted, fixed, endVars, writeVars>>

(* 'data': the next k messages.  After the last, Node may have scheduled   *)
(* 'end' already, which is then emitted even if the stream is paused.      *)
Data ==
    /\ TurnEnded /\ attached = "yes" /\ responded
    /\ h2Flow /\ h2Ended = "no"
    /\ \E k \in 1..MaxChunk :
          /\ received + k <= N
          /\ received' = received + k
          /\ chunk' = [i \in 1..k |-> received + i]
          /\ \/ UNCHANGED h2Ended
             \/ received + k = N /\ h2Ended' = "scheduled"
    /\ canPush' = TRUE
    /\ UNCHANGED <<bufVars, pendingRead, flowing, h2Flow, delivered,
                   endEmitted, fixed, endVars, writeVars>>

(* push() to a flowing stream with an empty buffer delivers at once and    *)
(* then calls read(0), hence _read(), which resumes the http2 stream.      *)
pushDelivers == flowing /\ rbuf = <<>>

tryPush(m) ==
    \/ /\ canPush /\ pushDelivers
       /\ delivered' = Append(delivered, m)
       /\ reading' = TRUE
       /\ h2Flow' = TRUE
       /\ UNCHANGED <<rbuf, unpushed, canPush>>
    \/ /\ canPush /\ ~pushDelivers
       /\ rbuf' = Append(rbuf, m)
       /\ reading' = FALSE
       /\ canPush' = (Len(rbuf') < HighWaterMark)
       /\ h2Flow' = (h2Flow /\ canPush')
       /\ UNCHANGED <<delivered, unpushed>>
    \/ /\ ~canPush
       /\ unpushed' = Append(unpushed, m)
       /\ UNCHANGED <<rbuf, delivered, reading, canPush, h2Flow>>

(* One message of the 'data' event.                                        *)
DataMessage ==
    /\ chunk # <<>>
    /\ tryPush(Head(chunk))
    /\ chunk' = Tail(chunk)
    /\ UNCHANGED <<received, unpushedEnd, pendingRead, rEnded, flowing,
                   h2Ended, endEmitted, fixed, endVars, writeVars>>

(* The stream was reset or failed, and may end before its messages do.     *)
Broken == rst \/ closeCode \notin {NULL, "NO_ERROR"}

(* Bug: the end is pushed ahead of the messages kept back.                 *)
pushEndAhead == rEnded' = TRUE /\ reading' = FALSE /\ UNCHANGED unpushedEnd

(* push(null), behind what is kept back.                                   *)
pushEnd ==
    IF unpushed = <<>>
    THEN rEnded' = TRUE /\ reading' = FALSE /\ UNCHANGED unpushedEnd
    ELSE unpushedEnd' = TRUE /\ UNCHANGED <<rEnded, reading>>

(* 'end' of the http2 stream.                                              *)
End ==
    /\ HandlerDone /\ attached = "yes" /\ responded
    /\ received = N \/ Broken
    /\ h2Ended = "scheduled" \/ (h2Ended = "no" /\ h2Flow)
    /\ h2Ended' = "emitted"
    /\ pushEnd
    /\ UNCHANGED <<received, chunk, canPush, rbuf, unpushed, pendingRead,
                   flowing, h2Flow, delivered, endEmitted, fixed, endVars,
                   writeVars>>

-----------------------------------------------------------------------------
(* The writable side.                                                      *)

(* write(): Node calls _write() at once or when the one before calls back. *)
Write ==
    /\ written < M /\ ~ending
    /\ written' = written + 1
    /\ wq' = Append(wq, written + 1)
    /\ UNCHANGED <<writing, pendingWrite, pendingFinal, ending, finalCalled,
                   wire, wireEnd, fixed, endVars, readVars>>

EndWrites ==
    /\ ~ending
    /\ ending' = TRUE
    /\ UNCHANGED <<written, wq, writing, pendingWrite, pendingFinal,
                   finalCalled, wire, wireEnd, fixed, endVars, readVars>>

(* Bug: pendingWrite, which is never cleared, is written again.            *)
toWireStale(m) == IF pendingWrite # 0 THEN pendingWrite ELSE m

toWire(m) == m

_write ==
    /\ wq # <<>> /\ ~writing
    /\ writing' = TRUE
    /\ IF attached = "yes"
       THEN wire' = Append(wire, toWire(Head(wq))) /\ UNCHANGED pendingWrite
       ELSE pendingWrite' = Head(wq) /\ UNCHANGED wire
    /\ UNCHANGED <<written, wq, pendingFinal, ending, finalCalled, wireEnd,
                   fixed, endVars, readVars>>

(* The http2 stream calls the write callback.                              *)
WriteCallback ==
    /\ writing /\ attached = "yes" /\ wire # <<>>
    /\ wire[Len(wire)] = Head(wq)
    /\ writing' = FALSE
    /\ wq' = Tail(wq)
    /\ UNCHANGED <<written, pendingWrite, pendingFinal, ending, finalCalled,
                   wire, wireEnd, fixed, endVars, readVars>>

_final ==
    /\ ending /\ wq = <<>> /\ ~finalCalled
    /\ finalCalled' = TRUE
    /\ IF attached = "yes"
       THEN wireEnd' = TRUE /\ UNCHANGED pendingFinal
       ELSE pendingFinal' = TRUE /\ UNCHANGED wireEnd
    /\ UNCHANGED <<written, wq, writing, pendingWrite, ending, wire, fixed, endVars,
                   readVars>>

-----------------------------------------------------------------------------
(* attachHttp2Stream(), called by the channel.                             *)

(* Bug: the write that waited for the stream is forgotten.                 *)
pendingDropped == <<>>

(* The write that waited for the stream, if any.                           *)
pendingFirst == IF pendingWrite # 0 THEN <<pendingWrite>> ELSE <<>>

(* Bug: the stream is left paused although somebody waits for a message.   *)
attachFlowNever == FALSE

(* It is paused unless somebody waits for a message.                       *)
attachFlow == pendingRead

attachHttp2Stream ==
    /\ attached = "no"
    /\ IF finalStatus # NULL
       THEN /\ attached' = "refused" /\ rst' = TRUE
            /\ UNCHANGED <<steady, h2Flow, wire, wireEnd>>
       ELSE /\ attached' = "yes" /\ UNCHANGED rst
            /\ h2Flow' = attachFlow
            /\ wire' = pendingFirst
            /\ wireEnd' = pendingFinal
            /\ steady' = (flowing /\ pendingRead)
    /\ UNCHANGED <<scenario, statusVars, mappedStatusCode, responded, trailers,
                   trailersThen, closeCode, received, chunk, canPush, bufVars,
                   pendingRead, flowing, h2Ended, delivered, endEmitted,
                   written, wq, writing, pendingWrite, pendingFinal, ending,
                   finalCalled>>

-----------------------------------------------------------------------------
Next ==
    \/ attachHttp2Stream \/ Cancel
    \/ Response \/ Trailers \/ TrailersThen \/ StreamClosed \/ StreamError
    \/ Data \/ DataMessage \/ End
    \/ Flow \/ ReadMore \/ FlowEnd \/ Pause \/ Resume
    \/ Write \/ EndWrites \/ _write \/ WriteCallback \/ _final

(* The runtime runs what is due; the channel attaches a stream; a flowing  *)
(* http2 stream delivers what the server sent; and the application resumes *)
(* after a pause.  The server answers, but it owes no trailers; the stream *)
(* closes once this side has half-closed or reset it.  A write calls back  *)
(* while the stream is open and the server reads: no callback is owed on a *)
(* closed or reset stream, nor behind a flow-control window that stays     *)
(* shut.  Strong fairness where handlers and pauses disable a step for a   *)
(* while.                                                                  *)
Fairness ==
    /\ WF_vars(attachHttp2Stream) /\ SF_vars(Response)
    /\ WF_vars(DataMessage) /\ SF_vars(Data) /\ SF_vars(End)
    /\ WF_vars(ReadMore)
    /\ SF_vars(Flow) /\ SF_vars(FlowEnd) /\ WF_vars(Resume)
    /\ WF_vars(TrailersThen) /\ SF_vars((wireEnd \/ rst) /\ StreamClosed)
    /\ WF_vars(_write) /\ WF_vars(_final)
    /\ WF_vars(Open /\ ~rst /\ ~scenario.mayStall /\ WriteCallback)

Spec == Init /\ [][Next]_vars

FairSpec == Spec /\ Fairness

-----------------------------------------------------------------------------
(* Safety.                                                                 *)

(* Wherever the messages are - handed over, in Node's buffer, kept back in *)
(* unpushedReadMessages, or still in the 'data' handler - together they    *)
(* are all those received, once each and in order, whatever the pauses;    *)
(* and once push(null) was called nothing is kept back and nothing more    *)
(* comes (push after EOF is an error event).                               *)
DeliveryInOrder ==
    /\ delivered \o rbuf \o unpushed \o chunk = Upto(received)
    /\ rEnded => /\ received = N \/ Broken
                 /\ chunk = <<>> /\ unpushed = <<>> /\ ~unpushedEnd

(* Backpressure: outside the handler the http2 stream flows only when      *)
(* nothing is kept back, so what is kept back never exceeds what one event *)
(* brought (lines 362-365).                                                *)
BacklogBounded ==
    /\ HandlerDone /\ unpushed # <<>> => ~h2Flow
    /\ Len(unpushed) < MaxChunk
    /\ Len(rbuf) <= HighWaterMark

(* The call is not OK unless the server said so: neither a closed stream   *)
(* nor a missing, malformed or locally replaced status becomes OK.         *)
OKOnlyFromServer == finalStatus = "OK" => trailers = "OK"

(* A call that was cancelled, by its user or because the response metadata *)
(* did not parse, has no stream left that was not reset: attached before   *)
(* or after (lines 139-140, 326-333).                                      *)
CancelledIsReset ==
    endedBy \in {"cancel", "metadata"} /\ attached # "no" => rst

(* What goes to the http2 stream is what was written, in order, whether it *)
(* was written before the stream was attached or after; and the half-close *)
(* comes after all of it (lines 311-322, 381-398).                         *)
WireInOrder ==
    /\ \E n \in 0..written : wire = Upto(n)
    /\ wireEnd => ending /\ wire = Upto(written)

-----------------------------------------------------------------------------
(* To the code above it this is a CallStream: messages, 'end' and the one  *)
(* status in an order that client.ts and call.ts can rely on.              *)
Abstract == INSTANCE CallStream WITH
    Codes <- Status, total <- N, delivered <- Len(delivered),
    ended <- endEmitted, status <- finalStatus, broken <- Broken

(* Http2CallStream implements CallStream: in particular a second status is *)
(* never emitted, and given the order in which Node runs things (see       *)
(* Trailers and TrailersThen) a consumer that never pauses has all         *)
(* messages and the 'end' before an OK (the assumption at client.ts        *)
(* 77-80).                                                                 *)
Implements == Abstract!CSSpec

-----------------------------------------------------------------------------
(* Liveness, for an application that resumes after each pause.             *)

(* Every message of a call that does not fail is handed over, and then     *)
(* the call's 'end' is emitted: no interleaving of pauses, reads and the   *)
(* kept-back null stalls the stream.                                       *)
AllDelivered ==
    attached = "yes" ~>
        \/ endEmitted /\ delivered = Upto(N)
        \/ finalStatus \notin {NULL, "OK"}

(* Every call whose stream is half-closed, or will be since the server     *)
(* reads, ends with a status, trailers that do not parse included: the     *)
(* close of the stream ends what nothing else has ended.                   *)
EveryCallEnds ==
    wireEnd \/ (ending /\ attached # "no" /\ ~scenario.mayStall) ~>
        finalStatus # NULL

(* When the server reads, everything written before end() reaches the      *)
(* stream and then the half-close does, the write and the end that waited  *)
(* for the stream included, unless the stream is reset or closed first.    *)
AllWritten ==
    ending /\ attached = "yes" /\ ~scenario.mayStall ~>
        (wireEnd /\ wire = Upto(written)) \/ rst \/ closeCode # NULL
=============================================================================
