------------------------------ MODULE JsClient ------------------------------
(***************************************************************************)
(* One request of the pure JavaScript client: Client.make...Request        *)
(* (grpc-js-core/src/client.ts) and the call objects it returns            *)
(* (grpc-js-core/src/call.ts), on top of a CallStream.                     *)
(*                                                                         *)
(* A request without a response stream collects its answer in              *)
(* handleUnaryResponse; the others return a second Readable, whose buffer  *)
(* pauses and resumes the CallStream.  The 'status' event of a CallStream  *)
(* is emitted inside cancelWithStatus, so that a handler that cancels runs *)
(* the status handler in the same step.                                    *)
(*                                                                         *)
(* External, modelled from its use: Node's Readable and Writable.          *)
(***************************************************************************)
EXTENDS CallStream, Sequences

CONSTANTS
    Requests,      \* what is asked for and answered: see Request
    OuterMark      \* highWaterMark of the returned Readable

(* The arguments after the method's own: absent, a Metadata, options or a  *)
(* function.                                                               *)
Argument == {"none", "metadata", "options", "function"}
Form == [1..3 -> Argument]

(* n messages of the answer, of which those in bad do not deserialize; m   *)
(* messages to send, of which those in badOut do not serialize.            *)
Request == [kind : {"unary", "client_stream", "server_stream", "bidi"},
            n : Nat, bad : SUBSET Nat, m : Nat, badOut : SUBSET Nat]

ASSUME JsClientAssumption ==
    /\ Requests \subseteq Request /\ OuterMark \in Nat \ {0}
    /\ {"OK", "INTERNAL", "CANCELLED"} \subseteq Codes /\ NULL \notin Codes

VARIABLES
    request,         \* never changes
    begun,           \* the request was made, or threw an exception
    used,            \* the metadata and options of the request
    responseMessage, \* the local of handleUnaryResponse: 0 is null
    callbacks,       \* calls of its callback
    \* the returned Readable
    obuf, oReading,  \* its buffer; _read was called and push was not, since
    oEnded,          \* push(null)
    oFlow,           \* the application consumes
    appGot, appEnd, appStatus,
    \* the returned Writable
    written, wq,     \* messages written; those Node holds, the first under way
    wBusy,           \* call.write is under way
    wEnding,         \* the application called end()
    sent, halfClosed \* what CallStream was given

responseVars == <<responseMessage, callbacks, appStatus>>
outerVars == <<obuf, oReading, oEnded, appGot>>
readVars == <<outerVars, oFlow, appEnd>>
writeVars == <<written, wq, wBusy, wEnding, sent, halfClosed>>
jsVars == <<request, begun, used, responseVars, readVars, writeVars, csVars>>

Unary == request.kind \in {"unary", "client_stream"}
SendsOne == request.kind \in {"unary", "server_stream"}

AppStatus == [code : Codes, error : BOOLEAN]

Upto(n) == [i \in 1..n |-> i]

JsInit ==
    /\ request \in Requests
    /\ total = request.n /\ flowing = Unary /\ CSInit
    /\ begun = "no" /\ used = <<>>
    /\ responseMessage = 0 /\ callbacks = <<>> /\ appStatus = <<>>
    /\ obuf = <<>> /\ oReading = FALSE /\ oEnded = FALSE /\ oFlow = FALSE
    /\ appGot = <<>> /\ appEnd = FALSE
    /\ written = 0 /\ wq = <<>> /\ wBusy = FALSE
    /\ wEnding = FALSE /\ sent = <<>> /\ halfClosed = FALSE

-----------------------------------------------------------------------------
(* Making the request.                                                     *)

(* The metadata and options an argument list gives, "new" where the code   *)
(* makes its own; <<>> when it throws.                                     *)
checkOptionalUnaryResponseArguments(f) ==
    CASE f[1] = "function" -> <<"new", "new">>
      [] f[1] # "function" /\ f[2] = "function" /\ f[1] = "metadata" -> <<"arg1", "new">>
      [] f[1] # "function" /\ f[2] = "function" /\ f[1] # "metadata" -> <<"new", "arg1">>
      [] f[1] = "metadata" /\ f[2] \in {"metadata", "options"} /\ f[3] = "function"
           -> <<"arg1", "arg2">>
      [] OTHER -> <<>>

checkMetadataAndOptions(f) ==
    <<IF f[1] = "metadata" THEN "arg1" ELSE "new",
      IF f[1] = "metadata" THEN IF f[2] # "none" THEN "arg2" ELSE "new"
      ELSE IF f[1] # "none" THEN "arg1" ELSE "new">>

(* The argument lists of the overloads the methods declare.                *)
Overloads ==
    IF Unary
    THEN {<<"function", "none", "none">>, <<"metadata", "function", "none">>,
          <<"options", "function", "none">>, <<"metadata", "options", "function">>}
    ELSE {<<"none", "none", "none">>, <<"metadata", "none", "none">>,
          <<"options", "none", "none">>, <<"metadata", "options", "none">>}

(* make...Request: the arguments, createStream, the one message and the    *)
(* half-close if the request is no stream.  A message that does not        *)
(* serialize throws when the CallStream is already there.                  *)
make(f) ==
    LET args == IF Unary THEN checkOptionalUnaryResponseArguments(f)
                ELSE checkMetadataAndOptions(f)
    IN  /\ begun = "no"
        /\ used' = args
        /\ \/ args = <<>> /\ begun' = "threw" /\ UNCHANGED <<sent, halfClosed>>
           \/ /\ args # <<>> /\ SendsOne /\ 1 \in request.badOut
              /\ begun' = "leaked" /\ UNCHANGED <<sent, halfClosed>>
           \/ /\ args # <<>> /\ SendsOne /\ 1 \notin request.badOut
              /\ begun' = "yes" /\ sent' = <<1>> /\ halfClosed' = TRUE
           \/ /\ args # <<>> /\ ~SendsOne
              /\ begun' = "yes" /\ UNCHANGED <<sent, halfClosed>>
        /\ steady' = Unary
        /\ UNCHANGED <<request, responseVars, readVars, written, wq, wBusy,
                       wEnding, total, flowing, delivered, ended,
                       status, broken>>

-----------------------------------------------------------------------------
(* The answer.                                                             *)

(* The 'status' listeners.  A stream emits 'status', then 'error' if it is *)
(* not OK.                                                                 *)
onStatus(code) ==
    IF Unary
    THEN /\ callbacks' = Append(callbacks, [code |-> code, value |->
                                  IF code = "OK" THEN responseMessage ELSE 0])
         /\ UNCHANGED appStatus
    ELSE /\ appStatus' = Append(appStatus, [code |-> code, error |-> code # "OK"])
         /\ UNCHANGED callbacks

(* CallStream.cancelWithStatus as seen from here: the first status counts. *)
cancelWithStatus(code) ==
    /\ broken' = TRUE
    /\ IF status = NULL THEN status' = code /\ onStatus(code)
       ELSE UNCHANGED <<status, callbacks, appStatus>>

noCancel == UNCHANGED <<broken, status, callbacks, appStatus>>

(* 'data' in handleUnaryResponse.                                          *)
unaryData(k) ==
    /\ IF responseMessage # 0 \/ k \in request.bad
       THEN cancelWithStatus("INTERNAL") ELSE noCancel
    /\ responseMessage' = IF k \in request.bad THEN responseMessage ELSE k
    /\ UNCHANGED <<flowing, outerVars>>

(* stream.push(): at once to a flowing application, after which Node reads *)
(* again, or into the buffer.                                              *)
push(k) ==
    IF oFlow /\ obuf = <<>>
    THEN appGot' = Append(appGot, k) /\ oReading' = TRUE /\ UNCHANGED obuf
    ELSE obuf' = Append(obuf, k) /\ oReading' = FALSE /\ UNCHANGED appGot
pushSaysMore == (oFlow /\ obuf = <<>>) \/ Len(obuf) + 1 < OuterMark

(* 'data' in setUpReadableStream.                                          *)
streamData(k) ==
    /\ IF k \in request.bad
       THEN cancelWithStatus("INTERNAL") /\ UNCHANGED <<flowing, obuf, oReading, appGot>>
       ELSE noCancel /\ push(k) /\ flowing' = pushSaysMore
    /\ UNCHANGED <<oEnded, responseMessage>>

Data ==
    /\ begun = "yes"
    /\ Deliver
    /\ IF Unary THEN unaryData(delivered + 1) ELSE streamData(delivered + 1)
    /\ UNCHANGED <<request, begun, used, oFlow, appEnd, writeVars, total, steady,
                   ended>>

(* Bug: an answer without a message is left to its status.                 *)
unaryEndTrusting == noCancel

(* 'end' in handleUnaryResponse.                                           *)
unaryEnd ==
    IF responseMessage = 0 THEN cancelWithStatus("INTERNAL") ELSE noCancel

End ==
    /\ begun = "yes"
    /\ EmitEnd
    /\ \/ Unary /\ unaryEnd /\ UNCHANGED <<oEnded, oReading>>
       \/ ~Unary /\ oEnded' = TRUE /\ oReading' = FALSE /\ noCancel  \* push(null)
    /\ UNCHANGED <<request, begun, used, responseMessage, obuf, appGot, oFlow,
                   appEnd, writeVars, total, flowing, steady, delivered>>

(* A status from below: trailers, a closed stream, a deadline.  A request  *)
(* that threw has no listeners.                                            *)
StatusEvent(code) ==
    /\ begun \in {"yes", "leaked"}
    /\ SetStatus(code)
    /\ IF begun = "yes" THEN onStatus(code) ELSE UNCHANGED <<callbacks, appStatus>>
    /\ broken' \in (IF code = "OK" THEN {broken} ELSE BOOLEAN)
    /\ UNCHANGED <<request, begun, used, responseMessage, readVars, writeVars,
                   total, flowing, steady, delivered, ended>>

(* cancel() of every call object.                                          *)
cancel ==
    /\ begun = "yes" /\ ~broken
    /\ cancelWithStatus("CANCELLED")
    /\ UNCHANGED <<request, begun, used, responseMessage, readVars, writeVars,
                   total, flowing, steady, delivered, ended>>

-----------------------------------------------------------------------------
(* The returned Readable.                                                  *)

(* Bug: the call is resumed only when everything was consumed.             *)
_readWhenEmpty ==
    /\ ~Unary /\ begun = "yes"
    /\ ~oReading /\ ~oEnded /\ Len(obuf) < OuterMark
    /\ oReading' = TRUE /\ flowing' = (flowing \/ obuf = <<>>)
    /\ UNCHANGED <<request, begun, used, responseVars, obuf, oEnded, appGot,
                   oFlow, appEnd, writeVars, total, steady, delivered, ended,
                   status, broken>>

(* Node asks for more: call.resume().                                      *)
_read ==
    /\ ~Unary /\ begun = "yes"
    /\ ~oReading /\ ~oEnded /\ Len(obuf) < OuterMark
    /\ oReading' = TRUE /\ flowing' = TRUE
    /\ UNCHANGED <<request, begun, used, responseVars, obuf, oEnded, appGot,
                   oFlow, appEnd, writeVars, total, steady, delivered, ended,
                   status, broken>>

Flow ==
    /\ oFlow
    /\ \/ /\ obuf # <<>>
          /\ appGot' = Append(appGot, Head(obuf)) /\ obuf' = Tail(obuf)
          /\ UNCHANGED appEnd
       \/ /\ obuf = <<>> /\ oEnded /\ ~appEnd
          /\ appEnd' = TRUE
          /\ UNCHANGED <<appGot, obuf>>
    /\ UNCHANGED <<request, begun, used, responseVars, oReading, oEnded, oFlow,
                   writeVars, csVars>>

PauseOrResume ==
    /\ ~Unary /\ begun = "yes"
    /\ oFlow' = ~oFlow
    /\ UNCHANGED <<request, begun, used, responseVars, outerVars, appEnd,
                   writeVars, csVars>>

-----------------------------------------------------------------------------
(* The returned Writable.                                                  *)

Write ==
    /\ ~SendsOne /\ begun = "yes" /\ ~wEnding
    /\ \/ /\ written < request.m
          /\ written' = written + 1 /\ wq' = Append(wq, written + 1)
          /\ UNCHANGED wEnding
       \/ wEnding' = TRUE /\ UNCHANGED <<written, wq>>
    /\ UNCHANGED <<request, begun, used, responseVars, readVars, wBusy, sent,
                   halfClosed, csVars>>

(* Bug: the error is reported and the call goes on.                        *)
serializationFailureReported == noCancel

serializationFailure == cancelWithStatus("INTERNAL")

(* Node goes on with the writes it holds after one that failed.            *)
tryWrite ==
    /\ wq # <<>> /\ ~wBusy
    /\ \/ /\ Head(wq) \in request.badOut
          /\ serializationFailure
          /\ wq' = Tail(wq)
          /\ UNCHANGED <<sent, wBusy>>
       \/ /\ Head(wq) \notin request.badOut
          /\ sent' = Append(sent, Head(wq)) /\ wBusy' = TRUE
          /\ UNCHANGED wq /\ noCancel
    /\ UNCHANGED <<request, begun, used, responseMessage, readVars, written,
                   wEnding, halfClosed, total, flowing, steady, delivered, ended>>

(* CallStream calls back: the message is with the http2 stream.            *)
WriteDone ==
    /\ wBusy
    /\ wBusy' = FALSE /\ wq' = Tail(wq)
    /\ UNCHANGED <<request, begun, used, responseVars, readVars, written,
                   wEnding, sent, halfClosed, csVars>>

_final ==
    /\ wEnding /\ wq = <<>> /\ ~halfClosed
    /\ halfClosed' = TRUE
    /\ UNCHANGED <<request, begun, used, responseVars, readVars, written, wq,
                   wBusy, wEnding, sent, csVars>>

-----------------------------------------------------------------------------
JsNext ==
    \/ \E f \in Form : make(f)
    \/ Data \/ End \/ cancel
    \/ \E code \in Codes : StatusEvent(code)
    \/ _read \/ Flow \/ PauseOrResume
    \/ Write \/ tryWrite \/ WriteDone \/ _final

(* A CallStream hands on what it has to a consumer that flows, Node does   *)
(* its part, and the application does not stay paused for ever.            *)
JsFairness ==
    /\ WF_jsVars(Data) /\ WF_jsVars(End)
    /\ WF_jsVars(_read) /\ SF_jsVars(Flow)
    /\ WF_jsVars(~oFlow /\ PauseOrResume)

JsSpec == JsInit /\ [][JsNext]_jsVars /\ JsFairness

JsTypeOK ==
    /\ request \in Requests /\ begun \in {"no", "yes", "threw", "leaked"}
    /\ used \in {<<>>} \cup {"new", "arg1"} \X {"new", "arg1", "arg2"}
    /\ responseMessage \in 0..total /\ appStatus \in Seq(AppStatus)
    /\ callbacks \in Seq([code : Codes, value : 0..total])
    /\ obuf \in Seq(1..total) /\ appGot \in Seq(1..total)
    /\ oReading \in BOOLEAN /\ oEnded \in BOOLEAN
    /\ oFlow \in BOOLEAN /\ appEnd \in BOOLEAN
    /\ written \in 0..request.m /\ wq \in Seq(1..request.m) /\ sent \in Seq(Nat)
    /\ wBusy \in BOOLEAN
    /\ wEnding \in BOOLEAN /\ halfClosed \in BOOLEAN
    /\ total = request.n /\ delivered \in 0..total
    /\ flowing \in BOOLEAN /\ steady \in BOOLEAN /\ ended \in BOOLEAN
    /\ status \in Codes \cup {NULL} /\ broken \in BOOLEAN

-----------------------------------------------------------------------------
(* A unary callback is called once, with the status, and with OK only if   *)
(* the server's answer was exactly one message, which parsed: "status.code *)
(* should be OK if and only if we have a non-null responseMessage"         *)
(* (client.ts 79-82), however events and cancellations interleave.         *)
UnaryAnswer ==
    /\ Unary => Len(callbacks) = IF begun = "yes" /\ status # NULL THEN 1 ELSE 0
    /\ callbacks # <<>> /\ callbacks[1].code = "OK" =>
          total = 1 /\ 1 \notin request.bad /\ callbacks[1].value = 1

(* A request stream is half-closed only when everything written was sent,  *)
(* unless the call has failed: a message that does not serialize cancels   *)
(* the call before Node goes on to _final (call.ts 165-182, 207-210).      *)
HalfCloseComplete ==
    halfClosed /\ status = NULL /\ ~SendsOne => sent = Upto(written)

(* Every overload is accepted, and the Metadata and options passed are the *)
(* ones used, wherever they stand (client.ts 94-117, 196-217).             *)
ArgumentsUsed ==
    [][\A f \in Overloads : make(f) =>
          \A a \in {"metadata", "options"} :
             LET i == IF a = "metadata" THEN 1 ELSE 2
             IN  IF \E p \in 1..3 : f[p] = a
                 THEN used'[i] = (IF f[1] = a THEN "arg1" ELSE "arg2")
                 ELSE used'[i] = "new"]_jsVars

(* With two buffers that pause one another, everything the server sent,    *)
(* and the end, reach an application that keeps reading, unless the call   *)
(* fails or is cancelled.                                                  *)
StreamDelivered ==
    ~Unary /\ begun = "yes" ~> (appEnd /\ appGot = Upto(total)) \/ broken
=============================================================================
